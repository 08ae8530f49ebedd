----------------------------- MODULE MCUpstream -----------------------------
(* Instances of Upstream: two calls at once against one model, and the     *)
(* summaries of contextmgr.                                                *)
EXTENDS Upstream, TLC

CONSTANTS k1, k2, m1

MCConfigured == [tokens |-> "max_tokens", role |-> "system", parallel |-> TRUE,
                 sampling |-> TRUE, strict |-> TRUE, full |-> TRUE]

\* A request that uses everything.
MCAgentRequest == {[model |-> m1, has |-> Optional]}

\* Of the model: nothing; more than is ever learned, and both roles; a schema
\* keyword, which no fix removes.  Of the empty name: one role.
MCRules ==
  {(m1 :> x) @@ (Unnamed :> {"system"}) :
     x \in {{}, {"max_tokens", "system", "developer", "strict"},
            {"anyOf", "temperature"}}}
=============================================================================
