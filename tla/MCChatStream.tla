---------------------------- MODULE MCChatStream ----------------------------
(***************************************************************************)
(* An instance of ChatStream: two turns, the first with two calls that may *)
(* overlap; configurations in which each layer gives some settings; every  *)
(* way to name a workspace, and every way to get a request wrong.          *)
(***************************************************************************)
EXTENDS ChatStream

CONSTANTS c1, c2

MCMaxCalls == <<2, 1>>

Nothing == [s \in {} |-> ""]

Files ==
  { Nothing, Unreadable, [addr |-> "0.0.0.0"], [tokens |-> {"t"}],
    [addr |-> "0.0.0.0", allow |-> TRUE], [limits |-> "broken"],
    [addr |-> "0.0.0.0", allow |-> TRUE, tokens |-> {"t"}] }

Environments ==
  { Nothing, Unreadable, [tokens |-> {}], [tokens |-> {""}], [model |-> "d"],
    [allow |-> FALSE], [allow |-> TRUE], [limits |-> "sane"] }

Flags ==
  { Nothing, [addr |-> "localhost"], [addr |-> "garbled"], [allow |-> TRUE],
    [addr |-> "", model |-> "d"] }

MCLayers == {<<f, e, g>> : f \in Files, e \in Environments, g \in Flags}

Model(name, suffix, session) ==
  [name |-> name, suffix |-> suffix, session |-> session]

User == [role |-> "user", answers |-> ""]

Sound ==
  [token : {"", "t", "wrong"}, type : {"json"}, body : {"json"},
   messages : {<<User>>}, n : {0}, stream : BOOLEAN,
   headerSession : {"", "s1"}, headerWorkspace : {"", "w1"},
   bodySession : {"", "s2"}, bodyWorkspace : {"", "w2"},
   model : { Model("", FALSE, ""), Model("m", FALSE, ""), Model("m", TRUE, "s3"),
             Model("", TRUE, "s3"), Model("m", TRUE, "") }]

Unsound ==
  [token : {"", "t"}, type : {"", "json", "other"},
   body : {"json", "garbled", "large"},
   messages : { <<>>, <<User>>, <<User, [role |-> "", answers |-> ""]>>,
                <<User, [role |-> "tool", answers |-> ""]>> },
   n : {1, 2}, stream : BOOLEAN,
   headerSession : {""}, headerWorkspace : {""}, bodySession : {""},
   bodyWorkspace : {""}, model : {Model("m", FALSE, "")}]

MCRequests == Sound \cup Unsound
=============================================================================
