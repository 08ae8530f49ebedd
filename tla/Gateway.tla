------------------------------ MODULE Gateway -------------------------------
(***************************************************************************)
(* What stands in front of an agent run: the configuration that a server   *)
(* starts with (internal/config/config.go, cmd/harness-api/main.go) and    *)
(* what a chat completion passes before it runs (internal/server:          *)
(* middleware.go, chat.go, binding.go).  A setting is a name with a value  *)
(* from a small set; a layer is a function on the settings it gives.       *)
(***************************************************************************)
EXTENDS TLC, FiniteSets, SequencesExt

Blank == ""  \* what is not given

\* Of the settings, those that decide who is served and by which model; the
\* others are "limits", sane or not.
Default ==
  [addr |-> "127.0.0.1", allow |-> FALSE, tokens |-> {}, model |-> Blank,
   limits |-> "sane"]

\* What a configuration file may name.
Setting == DOMAIN Default

\* A layer that cannot be read: a file with a key that is not known or not
\* JSON, a variable or a flag that does not parse.
Unreadable == [garbage |-> Blank]

IsLoopback(addr) == addr \in {"localhost", "127.0.0.1"}

Readable(layers) == \A i \in DOMAIN layers : DOMAIN layers[i] \subseteq Setting

\* File, environment, flags: the later layer wins, where it gives a value.
Layered(layers) ==
  FoldLeft(LAMBDA config, layer : layer @@ config, Default, layers)

\* Deliberately wrong: tokens are not asked for.
ValidateAddress(config) ==
  /\ config.addr \notin {Blank, "garbled"}
  /\ IsLoopback(config.addr) \/ config.allow
  /\ config.limits = "sane"

\* A server does not start that would listen beyond this machine without being
\* told to, or without tokens.
Validate(config) ==
  /\ config.addr \notin {Blank, "garbled"}
  /\ IsLoopback(config.addr) \/ config.allow
  /\ IsLoopback(config.addr) \/ config.tokens # {}
  /\ config.limits = "sane"
-----------------------------------------------------------------------------
(* A request: the token presented, the type and state of its body, its     *)
(* messages, and what names a workspace.                                   *)

Authorized(config, request) ==
  config.tokens = {} \/ request.token \in config.tokens \ {Blank}

SoundMessage(m) == m.role # Blank /\ (m.role = "tool" => m.answers # Blank)

\* decodeChatRequest.  A body over the limit does not decode.
Decodes(request) ==
  /\ request.type \in {Blank, "json"}
  /\ request.body = "json"
  /\ request.messages # <<>>
  /\ \A i \in DOMAIN request.messages : SoundMessage(request.messages[i])
  /\ request.n <= 1

NoBinding == [session |-> Blank, workspace |-> Blank]

Suffixed(model) == model.suffix /\ model.name # Blank /\ model.session # Blank

\* The first channel that names something: a header, the body, the model's
\* suffix.
ResolveBinding(request) ==
  LET bound == << [NoBinding EXCEPT !.session = request.headerSession],
                  [NoBinding EXCEPT !.workspace = request.headerWorkspace],
                  [NoBinding EXCEPT !.session = request.bodySession],
                  [NoBinding EXCEPT !.workspace = request.bodyWorkspace],
                  IF Suffixed(request.model)
                  THEN [NoBinding EXCEPT !.session = request.model.session]
                  ELSE NoBinding >>
      named == {i \in DOMAIN bound : bound[i] # NoBinding}
  IN  IF named = {} THEN NoBinding ELSE bound[Min(named)]

\* The model that is asked: without its suffix only if that was the channel.
\* A suffix that is not one is part of the name.
ModelAsked(config, request) ==
  LET m == request.model
      byHeaderOrBody == \E v \in {request.headerSession,
                                  request.headerWorkspace,
                                  request.bodySession,
                                  request.bodyWorkspace} : v # Blank
  IN  CASE Suffixed(m) /\ ~byHeaderOrBody -> [m EXCEPT !.suffix = FALSE]
        [] ~m.suffix /\ m.name = Blank ->
             [m EXCEPT !.name = config.model]
        [] OTHER -> m

\* Why a request gets no run, or "none": what handleChatCompletions refuses it for.
Refusal(config, request) ==
  CASE ~Authorized(config, request) -> "unauthorized"
    [] Authorized(config, request) /\ ~Decodes(request) -> "invalid_request"
    [] OTHER ->
         LET m == ModelAsked(config, request)
         IN  IF m.name = Blank /\ ~m.suffix THEN "no_model" ELSE "none"
=============================================================================
