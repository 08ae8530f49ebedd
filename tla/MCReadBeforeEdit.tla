-------------------------- MODULE MCReadBeforeEdit --------------------------
(* Instances of ReadBeforeEdit: one session that has its directory to      *)
(* itself.                                                                 *)
EXTENDS ReadBeforeEdit, TLC

CONSTANTS s1, d1, a, dotA, aTail, c1, c2, i1, i2

\* Every session works in d1.
MCDirOf == [s \in Session |-> d1]

\* dotA is another spelling of a, such as "./a"; aTail names a too, and goes on
\* behind the object.
MCRel == [r \in Spelling |-> IF r \in {dotA, aTail} THEN a ELSE r]

\* Contents are only ever compared, and so are ids.
MCSymmetry == Permutations(Content) \cup Permutations(Id)
=============================================================================
