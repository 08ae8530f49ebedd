------------------------- MODULE StreamAccumulator --------------------------
(***************************************************************************)
(* StreamAccumulator and ToolCallAccumulator of internal/oai/delta.go: the *)
(* chunks of a streamed completion become the message a completion that    *)
(* was not streamed would have had.  Strings that only grow are sequences  *)
(* of pieces.                                                              *)
(***************************************************************************)
EXTENDS Ordering, SequencesExt

CONSTANT Absent  \* what a chunk does not say: a missing field, null or ""

SetIfAbsent(old, new) == IF old = Absent THEN new ELSE old

\* A fragment of a tool call: index and id may be absent.
Fragment(index, id, args) == [index |-> index, id |-> id, args |-> args]

\* The call that is assembled in a slot.
NewEntry == [id |-> Absent, args |-> <<>>]

\* Finished calls by slot; `calls` is a function from the slots in use.
SlotsOf(calls, id) == {i \in DOMAIN calls : calls[i].id = id}

FirstFree(calls) == Min(0..Cardinality(DOMAIN calls) \ DOMAIN calls)

\* Deliberately wrong: a fragment without an index belongs to slot 0.
SlotZero(calls, d) == IF d.index # Absent THEN d.index ELSE 0

\* The slot of a fragment: its index; without one, the slot of its id; without
\* that, slot 0, unless another call is there.
Slot(calls, d) ==
  IF d.index # Absent THEN d.index
  ELSE IF d.id = Absent THEN 0
  ELSE IF SlotsOf(calls, d.id) # {} THEN CHOOSE i \in SlotsOf(calls, d.id) : TRUE
  ELSE IF 0 \in DOMAIN calls /\ calls[0].id \notin {Absent, d.id}
  THEN FirstFree(calls)
  ELSE 0

AddFragment(calls, d) ==
  LET i == Slot(calls, d)
      e == IF i \in DOMAIN calls THEN calls[i] ELSE NewEntry
  IN  [j \in DOMAIN calls \cup {i} |->
         IF j # i THEN calls[j]
         ELSE [id |-> SetIfAbsent(e.id, d.id), args |-> e.args \o d.args]]

AddCalls(calls, fragments) ==
  LET after[k \in 0..Len(fragments)] ==
        IF k = 0 THEN calls ELSE AddFragment(after[k - 1], fragments[k])
  IN  after[Len(fragments)]

Synthesised(i) == <<"call", i>>

\* The calls by slot.  One that came without an id is given one, and one
\* without arguments has none ("{}").
Finalize(calls) ==
  LET slots == InOrder(DOMAIN calls, <)
  IN  [k \in DOMAIN slots |->
         [calls[slots[k]] EXCEPT !.id =
            IF @ = Absent THEN Synthesised(slots[k]) ELSE @]]

\* A chunk: what its choice says, the number of the choice, and usage.
Chunk == [choice |-> 0, role |-> Absent, content |-> <<>>, calls |-> <<>>,
          finish |-> Absent, usage |-> Absent]

NewAccumulator ==
  [role |-> Absent, content |-> <<>>, calls |-> <<>>, finish |-> Absent,
   usage |-> Absent]

\* Usage counts whatever choice it comes with; choices but the first do not.
Add(acc, c) ==
  LET counted == [acc EXCEPT !.usage = IF c.usage # Absent THEN c.usage ELSE @]
  IN  IF c.choice # 0 THEN counted
      ELSE [counted EXCEPT !.content = @ \o c.content,
                           !.calls = AddCalls(@, c.calls),
                           !.role = IF c.role # Absent THEN c.role ELSE @,
                           !.finish = SetIfAbsent(@, c.finish)]

\* The message and the finish reason, which is inferred when none came.
Response(acc) ==
  LET calls == Finalize(acc.calls)
  IN  [role |-> SetIfAbsent(acc.role, "assistant"),
       content |-> IF acc.content = <<>> /\ calls # <<>> THEN "null"
                   ELSE "text",
       text |-> acc.content,
       calls |-> calls,
       finish |-> SetIfAbsent(acc.finish,
                    IF calls # <<>> THEN "tool_calls" ELSE "stop"),
       usage |-> acc.usage]
=============================================================================
