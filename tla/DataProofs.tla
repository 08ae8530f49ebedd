----------------------------- MODULE DataProofs ------------------------------
(* Theorems about what becomes of data.  Shell: what a command's result    *)
(* holds and what a timeout leaves, for any processes, any limits and any  *)
(* output.  FileTools: what following the pages of a file shows and what   *)
(* an edit changes, for any text.  ProviderStream: what a provider's       *)
(* stream delivers and what its fragments become, however it is framed,    *)
(* cut and interleaved.                                                    *)
EXTENDS Shell, FileTools, ProviderStream, FiniteSetTheorems,
        SequenceTheorems, WellFoundedInduction, TLAPS

-----------------------------------------------------------------------------
(* Induction over numbers, by the least counterexample: the subset ordering *)
(* of finite sets is well founded, and n is less than m just when 1..n is a *)
(* strict subset of 1..m.                                                   *)

LEMMA NatMin ==
  ASSUME NEW T \in SUBSET Nat, T # {}
  PROVE  \E n \in T : \A m \in T : n <= m
  <1> DEFINE U == {1..n : n \in T}
  <1>1. IsWellFoundedOn(StrictSubsetOrdering(Nat), FiniteSubsetsOf(Nat))
    BY FS_StrictSubsetOrderingWellFounded
  <1>2. U \subseteq FiniteSubsetsOf(Nat)
    <2> SUFFICES ASSUME NEW n \in T PROVE 1..n \in FiniteSubsetsOf(Nat)
      OBVIOUS
    <2> QED BY FS_Interval DEF FiniteSubsetsOf
  <1>3. U # {}
    OBVIOUS
  <1> HIDE DEF U
  <1>4. PICK x \in U : \A y \in U : ~(<<y, x>> \in StrictSubsetOrdering(Nat))
    BY <1>1, <1>2, <1>3, WFMin, Zenon
  <1> USE DEF U
  <1>5. PICK n \in T : x = 1..n
    OBVIOUS
  <1>6. ASSUME NEW m \in T, m < n PROVE FALSE
    <2>1. 1..m \in U
      OBVIOUS
    <2>2. /\ 1..m \subseteq 1..n /\ 1..m # 1..n
          /\ 1..m \in SUBSET Nat /\ 1..n \in SUBSET Nat
      BY <1>6
    <2>3. <<1..m, 1..n>> \in StrictSubsetOrdering(Nat)
      BY <2>2, <1>2, <1>5 DEF StrictSubsetOrdering, FiniteSubsetsOf
    <2> QED BY <1>4, <1>5, <2>1, <2>3
  <1> QED BY <1>6

LEMMA NatMax ==
  ASSUME NEW T \in SUBSET Nat, T # {}, NEW b \in Nat, \A m \in T : m <= b
  PROVE  \E n \in T : \A m \in T : m <= n
  <1> DEFINE U == {b - m : m \in T}
  <1>1. U \in SUBSET Nat /\ U # {}
    <2>1. \A m \in T : b - m \in Nat
      OBVIOUS
    <2>2. PICK m \in T : TRUE
      OBVIOUS
    <2>3. b - m \in U
      OBVIOUS
    <2> QED BY <2>1, <2>3
  <1> HIDE DEF U
  <1>2. PICK u \in U : \A v \in U : u <= v
    BY <1>1, NatMin
  <1> USE DEF U
  <1>3. PICK n \in T : u = b - n
    BY <1>2
  <1>4. ASSUME NEW m \in T PROVE m <= n
    <2>1. b - m \in U
      OBVIOUS
    <2> QED BY <2>1, <1>2, <1>3
  <1> QED BY <1>4

\* A set that holds 0, and with any number the next one up to n.
LEMMA Upwards ==
  ASSUME NEW n \in Nat, NEW T,
         0 \in T, \A i \in 1..n : i - 1 \in T => i \in T
  PROVE  \A i \in 0..n : i \in T
  <1> DEFINE U == {i \in 0..n : i \notin T}
  <1> SUFFICES ASSUME U # {} PROVE FALSE
    OBVIOUS
  <1>1. PICK k \in U : \A m \in U : k <= m
    <2>1. U \in SUBSET Nat
      OBVIOUS
    <2> HIDE DEF U
    <2> QED BY <2>1, NatMin, Zenon
  <1>2. k \in 1..n /\ k - 1 \in T
    BY <1>1
  <1> QED BY <1>1, <1>2

-----------------------------------------------------------------------------
(* Sequences put together from pieces.                                      *)

\* f joins the first m pieces.
Joins(seqs, f, m) ==
  f = [i \in 1..m |-> IF i = 1 THEN seqs[i] ELSE f[i - 1] \o seqs[i]]

LEMMA JoinExists ==
  ASSUME NEW seqs, NEW n \in Nat
  PROVE  \E f : Joins(seqs, f, n)
  <1> DEFINE T == {m \in 0..n : \E f : Joins(seqs, f, m)}
  <1>1. 0 \in T
    <2>1. Joins(seqs, <<>>, 0)
      BY DEF Joins
    <2> QED BY <2>1
  <1>2. ASSUME NEW m \in 1..n, m - 1 \in T PROVE m \in T
    <2>1. PICK f : Joins(seqs, f, m - 1)
      BY <1>2
    <2> DEFINE g == [i \in 1..m |->
                       IF i = 1 THEN seqs[i] ELSE f[i - 1] \o seqs[i]]
    <2>2. ASSUME NEW i \in 1..m - 1 PROVE g[i] = f[i]
      <3>1. f[i] = IF i = 1 THEN seqs[i] ELSE f[i - 1] \o seqs[i]
        BY <2>1 DEF Joins
      <3> QED BY <3>1
    <2>3. ASSUME NEW i \in 1..m
          PROVE  g[i] = IF i = 1 THEN seqs[i] ELSE g[i - 1] \o seqs[i]
      <3>1. g[i] = IF i = 1 THEN seqs[i] ELSE f[i - 1] \o seqs[i]
        OBVIOUS
      <3>2. i # 1 => i - 1 \in 1..m - 1
        OBVIOUS
      <3> HIDE DEF g
      <3> QED BY <3>1, <3>2, <2>2
    <2> HIDE DEF g
    <2>4. g = [i \in 1..m |-> IF i = 1 THEN seqs[i] ELSE g[i - 1] \o seqs[i]]
      <3>1. g = [i \in 1..m |-> g[i]]
        BY DEF g
      <3> QED BY <3>1, <2>3
    <2>5. Joins(seqs, g, m)
      BY <2>4 DEF Joins
    <2> QED BY <2>5
  <1> HIDE DEF T
  <1>3. \A m \in 0..n : m \in T
    BY <1>1, <1>2, Upwards, Zenon
  <1> QED BY <1>3 DEF T

\* What the pieces join to, piece by piece.
LEMMA Flattening ==
  ASSUME NEW S, NEW seqs \in Seq(Seq(S))
  PROVE  \E F \in [0..Len(seqs) -> Seq(S)] :
           /\ F[0] = <<>>
           /\ \A i \in 1..Len(seqs) : F[i] = F[i - 1] \o seqs[i]
           /\ FlattenSeq(seqs) = F[Len(seqs)]
  <1> DEFINE n == Len(seqs)
  <1>1. CASE n = 0
    <2> DEFINE F == [i \in 0..0 |-> <<>>]
    <2>1. seqs = <<>>
      BY <1>1
    <2>2. FlattenSeq(seqs) = <<>>
      BY <2>1, <1>1 DEF FlattenSeq
    <2>3. F \in [0..Len(seqs) -> Seq(S)] /\ F[0] = <<>>
      BY <1>1
    <2>4. \A i \in 1..Len(seqs) : F[i] = F[i - 1] \o seqs[i]
      BY <1>1
    <2>5. FlattenSeq(seqs) = F[Len(seqs)]
      BY <2>2, <2>3, <1>1
    <2> HIDE DEF F
    <2> QED BY <2>3, <2>4, <2>5
  <1>2. CASE n # 0
    <2>0. n \in Nat /\ n >= 1
      BY <1>2
    <2> DEFINE f == CHOOSE f : Joins(seqs, f, n)
    <2>1. Joins(seqs, f, n)
      BY <2>0, JoinExists
    <2>2. FlattenSeq(seqs) = f[n]
      BY <1>2 DEF FlattenSeq, Joins
    <2> HIDE DEF f
    <2>3. \A i \in 1..n :
            f[i] = IF i = 1 THEN seqs[i] ELSE f[i - 1] \o seqs[i]
      BY <2>1 DEF Joins
    <2> DEFINE F == [i \in 0..n |-> IF i = 0 THEN <<>> ELSE f[i]]
    <2>4. \A i \in 1..n : F[i] = F[i - 1] \o seqs[i]
      <3> SUFFICES ASSUME NEW i \in 1..n PROVE F[i] = F[i - 1] \o seqs[i]
        OBVIOUS
      <3>1. CASE i = 1
        <4>1. F[i] = seqs[i] /\ F[i - 1] = <<>>
          BY <3>1, <2>3, <2>0
        <4>2. seqs[i] \in Seq(S)
          OBVIOUS
        <4> HIDE DEF F
        <4> QED BY <4>1, <4>2, ConcatEmptySeq
      <3>2. CASE i # 1
        <4>1. f[i] = f[i - 1] \o seqs[i]
          BY <3>2, <2>3
        <4>2. F[i] = f[i] /\ F[i - 1] = f[i - 1]
          BY <3>2
        <4> QED BY <4>1, <4>2
      <3> QED BY <3>1, <3>2
    <2>5. F[0] = <<>> /\ DOMAIN F = 0..n /\ F[n] = f[n]
      BY <2>0
    <2> HIDE DEF F
    <2> DEFINE T == {i \in 0..n : F[i] \in Seq(S)}
    <2>6. 0 \in T
      <3>1. <<>> \in Seq(S) /\ 0 \in 0..n
        BY <2>0
      <3> QED BY <3>1, <2>5
    <2>7. \A i \in 1..n : i - 1 \in T => i \in T
      <3> SUFFICES ASSUME NEW i \in 1..n, i - 1 \in T PROVE F[i] \in Seq(S)
        OBVIOUS
      <3>1. seqs[i] \in Seq(S) /\ F[i - 1] \in Seq(S)
        OBVIOUS
      <3> QED BY <3>1, <2>4, ConcatProperties
    <2>8. \A i \in 0..n : i \in T
      <3> HIDE DEF T, n
      <3> QED BY <2>0, <2>6, <2>7, Upwards, Zenon
    <2>9. F \in [0..n -> Seq(S)]
      <3>1. F = [i \in 0..n |-> F[i]]
        BY DEF F
      <3> QED BY <3>1, <2>8
    <2> QED BY <2>2, <2>4, <2>5, <2>9
  <1> QED BY <1>1, <1>2
-----------------------------------------------------------------------------
(* Sequences that count on from a number, such as any part of the output.  *)

Counts(s, from) == \A i \in 1..Len(s) : s[i] = from + i

Lesser(m, n) == IF m > n THEN n ELSE m

LEMMA CountsAlike ==
  ASSUME NEW s \in Seq(Nat), NEW t \in Seq(Nat), NEW from \in Int,
         Counts(s, from), Counts(t, from), Len(s) = Len(t)
  PROVE  s = t
  BY DEF Counts

LEMMA CountsConcat ==
  ASSUME NEW s \in Seq(Nat), NEW t \in Seq(Nat), NEW from \in Int,
         Counts(s, from), Counts(t, from + Len(s))
  PROVE  /\ s \o t \in Seq(Nat)
         /\ Len(s \o t) = Len(s) + Len(t)
         /\ Counts(s \o t, from)
  BY DEF Counts

LEMMA CountsLast ==
  ASSUME NEW s \in Seq(Nat), NEW n \in 0..Len(s), NEW from \in Int,
         Counts(s, from)
  PROVE  /\ LastOf(s, n) \in Seq(Nat)
         /\ Len(LastOf(s, n)) = n
         /\ Counts(LastOf(s, n), from + Len(s) - n)
  <1> DEFINE k == Len(s) - n + 1
  <1>1. k \in Int /\ Len(s) \in Int /\ \A i \in k..Len(s) : s[i] \in Nat
    OBVIOUS
  <1>2. /\ SubSeq(s, k, Len(s)) \in Seq(Nat)
        /\ Len(SubSeq(s, k, Len(s))) = IF k <= Len(s) THEN Len(s) - k + 1 ELSE 0
        /\ \A i \in 1..Len(s) - k + 1 : SubSeq(s, k, Len(s))[i] = s[k + i - 1]
    BY <1>1, SubSeqProperties
  <1>3. Len(SubSeq(s, k, Len(s))) = n
    BY <1>2
  <1>4. \A i \in 1..n : SubSeq(s, k, Len(s))[i] = from + Len(s) - n + i
    <2> SUFFICES ASSUME NEW i \in 1..n
                 PROVE  SubSeq(s, k, Len(s))[i] = from + Len(s) - n + i
      OBVIOUS
    <2>1. SubSeq(s, k, Len(s))[i] = s[k + i - 1] /\ k + i - 1 \in 1..Len(s)
      BY <1>2
    <2> QED BY <2>1 DEF Counts
  <1> QED BY <1>2, <1>3, <1>4 DEF LastOf, Counts

LEMMA CountsFirst ==
  ASSUME NEW s \in Seq(Nat), NEW n \in 0..Len(s), NEW from \in Int,
         Counts(s, from)
  PROVE  /\ SubSeq(s, 1, n) \in Seq(Nat)
         /\ Len(SubSeq(s, 1, n)) = n
         /\ Counts(SubSeq(s, 1, n), from)
  <1>1. n \in Int /\ \A i \in 1..n : s[i] \in Nat
    OBVIOUS
  <1>2. /\ SubSeq(s, 1, n) \in Seq(Nat)
        /\ Len(SubSeq(s, 1, n)) = IF 1 <= n THEN n - 1 + 1 ELSE 0
        /\ \A i \in 1..n - 1 + 1 : SubSeq(s, 1, n)[i] = s[1 + i - 1]
    BY <1>1, SubSeqProperties
  <1>3. \A i \in 1..n : SubSeq(s, 1, n)[i] = s[i]
    BY <1>2
  <1> QED BY <1>2, <1>3 DEF Counts

LEMMA StreamCounts ==
  ASSUME copied \in Nat
  PROVE  Stream \in Seq(Nat) /\ Len(Stream) = copied /\ Counts(Stream, 0)
  BY DEF Stream, Counts
-----------------------------------------------------------------------------
(* The inductive invariant.                                                *)

\* The end of the copying is the end of the command's output.
RunOrdered ==
  /\ waited => Bash \notin alive /\ writers = {} /\ copied = printed
  /\ at \in {"ended", "returned"} => waited
  /\ late => at # "waiting" /\ (expired \/ cancelled)
  /\ at \in {"grace", "killed"} => late
  /\ late /\ at # "grace" => group = {}
  /\ late /\ at = "returned" => timedOut \/ cancelled

TailHolds ==
  /\ Len(tail) = Lesser(copied, size.tail)
  /\ Counts(tail, copied - Len(tail))

SpillHolds ==
  /\ Counts(file, 0) /\ Len(file) <= copied /\ Len(file) <= size.spill
  /\ created => copied > size.tail
  /\ ~created => file = <<>>
  /\ ~created /\ ~failed /\ size.spill > 0 =>
       copied <= size.tail /\ Len(buf) = copied /\ Counts(buf, 0)
  /\ created /\ ~failed => Len(file) = Lesser(copied, size.spill)

IInv == TypeOK /\ RunOrdered /\ TailHolds /\ SpillHolds

LEMMA SizeType ==
  ASSUME TypeOK
  PROVE  /\ size.tail \in Nat /\ size.tail > 0 /\ size.spill \in Nat
         /\ copied \in Nat /\ printed \in Nat /\ copied <= printed
  BY ShellAssumption DEF TypeOK

LEMMA InitIInv == Init => IInv
  <1> SUFFICES ASSUME Init PROVE IInv
    OBVIOUS
  <1>1. TypeOK
    <2>1. 0 \in 0..MaxPrinted
      BY ShellAssumption
    <2>2. 0 \in 0..0 /\ <<>> \in Seq(Nat)
      BY SMT
    <2>3. copied \in 0..printed /\ printed \in 0..MaxPrinted
      BY <2>1, <2>2 DEF Init
    <2>4. tail \in Seq(Nat) /\ buf \in Seq(Nat) /\ file \in Seq(Nat)
      BY <2>2 DEF Init
    <2> QED BY <2>3, <2>4 DEF Init, TypeOK, Process
  <1>2. RunOrdered
    BY DEF Init, RunOrdered
  <1>3. TailHolds
    BY <1>1, SizeType DEF Init, TailHolds, Lesser, Counts
  <1>4. SpillHolds
    BY <1>1, SizeType DEF Init, SpillHolds, Lesser, Counts
  <1> QED BY <1>1, <1>2, <1>3, <1>4 DEF IInv

\* A step that copies nothing.
LEMMA OutputUntouched ==
  ASSUME TailHolds, SpillHolds, UNCHANGED <<output, size>>
  PROVE  TailHolds' /\ SpillHolds'
  BY DEF TailHolds, SpillHolds, output, Counts

LEMMA CommandKeeps ==
  ASSUME IInv, Command
  PROVE  IInv'
  <1>1. PICK p \in Process :
          \/ End(p) \/ Emit(p) \/ Redirect(p) \/ Leave(p)
          \/ \E q \in Child : Fork(p, q)
    BY DEF Command
  <1>2. UNCHANGED <<output, clock, run, size>>
    BY <1>1 DEF End, Emit, Redirect, Leave, Fork
  <1>3. TypeOK'
    <2>1. /\ alive' \subseteq Process /\ group' \subseteq alive'
          /\ writers' \subseteq alive'
      BY <1>1 DEF IInv, TypeOK, End, Emit, Redirect, Leave, Fork, Dies, Process
    <2>2. printed' \in 0..MaxPrinted /\ copied' \in 0..printed'
      BY <1>1, ShellAssumption
         DEF IInv, TypeOK, End, Emit, Redirect, Leave, Fork, Dies, output
    <2> QED BY <1>2, <2>1, <2>2 DEF IInv, TypeOK, output, clock, run
  <1>4. RunOrdered'
    <2>1. writers = {} => writers' = {} /\ printed' = printed
      BY <1>1 DEF End, Emit, Redirect, Leave, Fork, Dies
    <2>2. group = {} => group' = {}
      BY <1>1 DEF End, Emit, Redirect, Leave, Fork, Dies
    <2>3. Bash \notin alive => Bash \notin alive'
      BY <1>1, ShellAssumption DEF End, Emit, Redirect, Leave, Fork, Dies
    <2> QED BY <1>2, <2>1, <2>2, <2>3 DEF IInv, RunOrdered, output, clock, run
  <1>5. TailHolds' /\ SpillHolds'
    BY <1>2, OutputUntouched DEF IInv
  <1> QED BY <1>3, <1>4, <1>5 DEF IInv

LEMMA RunKeeps ==
  ASSUME IInv, Run \/ Wait \/ Expire \/ Cancel
  PROVE  IInv'
  <1>1. UNCHANGED <<output, size, printed>>
    BY DEF Run, Finished, AskToStop, Sweep, GraceEnds, Reaped, Return, Wait,
           Expire, Cancel, Goes, KillGroup, Dies, command
  <1>2. TypeOK'
    <2>1. \/ UNCHANGED <<alive, group, writers>>
          \/ Dies(group)
      BY DEF Run, Finished, AskToStop, Sweep, GraceEnds, Reaped, Return, Wait,
             Expire, Cancel, KillGroup, command
    <2>2. /\ alive' \subseteq Process /\ group' \subseteq alive'
          /\ writers' \subseteq alive'
      BY <2>1 DEF IInv, TypeOK, Dies
    <2>3. /\ at' \in {"waiting", "grace", "killed", "ended", "returned"}
          /\ waited' \in BOOLEAN /\ expired' \in BOOLEAN /\ cancelled' \in BOOLEAN
          /\ late' \in BOOLEAN /\ timedOut' \in BOOLEAN
      BY DEF IInv, TypeOK, Run, Finished, AskToStop, Sweep, GraceEnds, Reaped,
             Return, Wait, Expire, Cancel, Goes, clock, run
    <2> QED BY <1>1, <2>2, <2>3 DEF IInv, TypeOK, output
  <1>3. RunOrdered'
    <2> USE <1>1 DEF IInv, RunOrdered, output
    <2>1. CASE Finished
      BY <2>1 DEF Finished, Goes, command, clock
    <2>2. CASE AskToStop
      BY <2>2 DEF AskToStop, Goes, command, clock
    <2>3. CASE Sweep
      BY <2>3 DEF Sweep, Goes, KillGroup, Dies, clock
    <2>4. CASE GraceEnds
      BY <2>4 DEF GraceEnds, Goes, KillGroup, Dies, clock
    <2>5. CASE Reaped
      BY <2>5 DEF Reaped, Goes, command, clock
    <2>6. CASE Return
      BY <2>6 DEF Return, command, clock
    <2>7. CASE Wait
      BY <2>7 DEF Wait, command, clock
    <2>8. CASE Expire
      BY <2>8 DEF Expire, command, run
    <2>9. CASE Cancel
      BY <2>9 DEF Cancel, command, run
    <2> QED
      BY <2>1, <2>2, <2>3, <2>4, <2>5, <2>6, <2>7, <2>8, <2>9 DEF Run
  <1>4. TailHolds' /\ SpillHolds'
    BY <1>1, OutputUntouched DEF IInv
  <1> QED BY <1>2, <1>3, <1>4 DEF IInv
-----------------------------------------------------------------------------
(* Copying.                                                                *)

LEMMA TailGrows ==
  ASSUME IInv, NEW p \in Seq(Nat), Counts(p, copied), KeepTail(p),
         Len(p) > 0, copied' = copied + Len(p), size' = size
  PROVE  tail' \in Seq(Nat) /\ TailHolds'
  <1>1. /\ size.tail \in Nat /\ size.tail > 0 /\ copied \in Nat
        /\ tail \in Seq(Nat) /\ Len(tail) \in Nat /\ Len(p) \in Nat
    BY SizeType DEF IInv, TypeOK
  <1>2. Len(tail) = Lesser(copied, size.tail) /\ Counts(tail, copied - Len(tail))
    BY DEF IInv, TailHolds
  <1>3. CASE Len(p) >= size.tail
    <2>1. tail' = LastOf(p, size.tail)
      BY <1>3 DEF KeepTail
    <2>2. size.tail \in 0..Len(p) /\ copied \in Int
      BY <1>1, <1>3
    <2>3. /\ tail' \in Seq(Nat) /\ Len(tail') = size.tail
          /\ Counts(tail', copied + Len(p) - size.tail)
      BY <2>1, <2>2, CountsLast
    <2> QED BY <1>1, <1>3, <2>3 DEF TailHolds, Lesser
  <1>4. CASE ~(Len(p) >= size.tail) /\ Len(tail) + Len(p) > size.tail
    <2> DEFINE n == size.tail - Len(p)
               t == LastOf(tail, n)
    <2>1. tail' = t \o p
      BY <1>4 DEF KeepTail
    <2>2. n \in 0..Len(tail)
      BY <1>1, <1>2, <1>4 DEF Lesser
    <2>3. copied - Len(tail) \in Int
      BY <1>1
    <2>4. /\ t \in Seq(Nat) /\ Len(t) = n
          /\ Counts(t, copied - Len(tail) + Len(tail) - n)
      BY <1>1, <1>2, <2>2, <2>3, CountsLast
    <2> HIDE DEF t
    <2>10. n \in Nat /\ n + Len(p) = size.tail
      BY <1>1, <2>2
    <2> HIDE DEF n
    <2>5. /\ copied - Len(tail) + Len(tail) - n = copied - n
          /\ copied - n + Len(t) = copied /\ copied - n \in Int
      BY <1>1, <2>4, <2>10
    <2>6. Counts(t, copied - n) /\ Counts(p, copied - n + Len(t))
      BY <2>4, <2>5
    <2>7. /\ t \o p \in Seq(Nat) /\ Len(t \o p) = Len(t) + Len(p)
          /\ Counts(t \o p, copied - n)
      BY <2>4, <2>5, <2>6, CountsConcat
    <2>8. /\ tail' \in Seq(Nat) /\ Len(tail') = size.tail
          /\ Counts(tail', copied - n)
      BY <2>1, <2>4, <2>7, <2>10
    <2>9. copied' - Len(tail') = copied - n
      BY <1>1, <2>8, <2>10
    <2>11. copied' > size.tail
      <3>1. Len(tail) <= copied
        BY <1>1, <1>2 DEF Lesser
      <3> QED BY <1>1, <1>4, <3>1
    <2> QED BY <1>1, <2>8, <2>9, <2>11 DEF TailHolds, Lesser
  <1>5. CASE ~(Len(p) >= size.tail) /\ ~(Len(tail) + Len(p) > size.tail)
    <2>1. tail' = tail \o p
      BY <1>5 DEF KeepTail
    <2>2. Len(tail) = copied
      BY <1>1, <1>2, <1>5 DEF Lesser
    <2>3. copied - Len(tail) \in Int /\ copied - Len(tail) + Len(tail) = copied
      BY <1>1
    <2>4. Counts(p, copied - Len(tail) + Len(tail))
      BY <2>3
    <2> DEFINE c == copied - Len(tail)
    <2>7. c \in Int /\ Counts(tail, c) /\ Counts(p, c + Len(tail))
      BY <1>2, <2>3, <2>4
    <2> HIDE DEF c
    <2>8. /\ tail \o p \in Seq(Nat) /\ Len(tail \o p) = Len(tail) + Len(p)
          /\ Counts(tail \o p, c)
      BY <1>1, <2>7, CountsConcat
    <2>5. /\ tail' \in Seq(Nat) /\ Len(tail') = Len(tail) + Len(p)
          /\ Counts(tail', copied - Len(tail))
      BY <2>1, <2>8 DEF c
    <2>6. copied' - Len(tail') = copied - Len(tail)
      BY <1>1, <2>5
    <2> QED BY <1>1, <1>5, <2>2, <2>5, <2>6 DEF TailHolds, Lesser
  <1> QED BY <1>3, <1>4, <1>5

LEMMA WriteOutKeeps ==
  ASSUME file \in Seq(Nat), Counts(file, 0), size.spill \in Nat,
         Len(file) <= size.spill, failed = FALSE,
         NEW q \in Seq(Nat), Len(file) = size.spill \/ Counts(q, Len(file)),
         WriteOut(q)
  PROVE  /\ file' \in Seq(Nat) /\ Counts(file', 0)
         /\ Len(file') <= size.spill /\ Len(file') <= Len(file) + Len(q)
         /\ failed' \in BOOLEAN
         /\ ~failed' => Len(file') = Lesser(Len(file) + Len(q), size.spill)
  <1> DEFINE room == size.spill - Len(file)
             n == IF Len(q) > room THEN room ELSE Len(q)
  <1>1. Len(file) \in Nat /\ Len(q) \in Nat /\ n \in 0..Len(q) /\ n <= room
    OBVIOUS
  <1>2. ASSUME NEW k \in 0..n, file' = file \o SubSeq(q, 1, k)
        PROVE  file' \in Seq(Nat) /\ Counts(file', 0) /\ Len(file') = Len(file) + k
    <2> DEFINE t == SubSeq(q, 1, k)
    <2>1. CASE Counts(q, Len(file))
      <3>1. k \in 0..Len(q) /\ Len(file) \in Int /\ 0 \in Int
        BY <1>1
      <3>2. t \in Seq(Nat) /\ Len(t) = k /\ Counts(t, Len(file))
        BY <2>1, <3>1, CountsFirst
      <3> HIDE DEF t
      <3>3. 0 + Len(file) = Len(file)
        BY <1>1
      <3>4. Counts(t, 0 + Len(file))
        BY <3>2, <3>3
      <3>5. /\ file \o t \in Seq(Nat) /\ Len(file \o t) = Len(file) + Len(t)
            /\ Counts(file \o t, 0)
        BY <3>1, <3>2, <3>4, CountsConcat
      <3> QED BY <1>2, <3>2, <3>5 DEF t
    <2>2. CASE Len(file) = size.spill
      <3>1. k = 0
        BY <1>1, <2>2
      <3>2. t = <<>>
        BY <3>1, SubSeqEmpty
      <3> HIDE DEF t
      <3>3. file \o t = file
        BY <3>2, ConcatEmptySeq
      <3>4. file' = file
        BY <1>2, <3>3 DEF t
      <3> QED BY <1>1, <3>1, <3>4
    <2> QED BY <2>1, <2>2
  <1>3. \/ file' = file \o SubSeq(q, 1, n) /\ failed' = failed
        \/ /\ failed' = TRUE
           /\ \E k \in 0..n - 1 : file' = file \o SubSeq(q, 1, k)
    BY DEF WriteOut
  <1> HIDE DEF n
  <1>4. CASE file' = file \o SubSeq(q, 1, n) /\ failed' = failed
    <2>1. n \in 0..n
      BY <1>1
    <2>2. file' \in Seq(Nat) /\ Counts(file', 0) /\ Len(file') = Len(file) + n
      BY <1>2, <1>4, <2>1
    <2>3. /\ Len(file') <= size.spill /\ Len(file') <= Len(file) + Len(q)
          /\ Len(file') = Lesser(Len(file) + Len(q), size.spill)
      BY <1>1, <2>2 DEF Lesser, n
    <2> QED BY <1>4, <2>2, <2>3
  <1>5. CASE /\ failed' = TRUE
             /\ \E k \in 0..n - 1 : file' = file \o SubSeq(q, 1, k)
    <2>1. PICK k \in 0..n - 1 : file' = file \o SubSeq(q, 1, k)
      BY <1>5
    <2>2. k \in 0..n
      BY <1>1
    <2>3. file' \in Seq(Nat) /\ Counts(file', 0) /\ Len(file') = Len(file) + k
      BY <1>2, <2>1, <2>2
    <2>4. Len(file') <= size.spill /\ Len(file') <= Len(file) + Len(q)
      BY <1>1, <2>1, <2>3
    <2> QED BY <1>5, <2>3, <2>4
  <1> QED BY <1>3, <1>4, <1>5
LEMMA SpillGrows ==
  ASSUME IInv, NEW p \in Seq(Nat), Counts(p, copied), Len(p) > 0, Spill(p),
         copied' = copied + Len(p), size' = size
  PROVE  /\ buf' \in Seq(Nat) /\ file' \in Seq(Nat)
         /\ created' \in BOOLEAN /\ failed' \in BOOLEAN
         /\ SpillHolds'
  <1>1. /\ size.tail \in Nat /\ size.tail > 0 /\ size.spill \in Nat
        /\ copied \in Nat /\ Len(p) \in Nat
        /\ buf \in Seq(Nat) /\ file \in Seq(Nat)
        /\ created \in BOOLEAN /\ failed \in BOOLEAN
        /\ Len(buf) \in Nat /\ Len(file) \in Nat
    BY SizeType DEF IInv, TypeOK
  <1>2. SpillHolds
    BY DEF IInv
  <1>3. CASE failed \/ size.spill = 0
    <2>1. UNCHANGED <<buf, file, created, failed>>
      BY <1>3 DEF Spill
    <2>2. Len(file) <= copied'
      BY <1>1, <1>2 DEF SpillHolds
    <2>3. created => copied' > size.tail
      BY <1>1, <1>2 DEF SpillHolds
    <2>4. Counts(file', 0)
      BY <1>2, <2>1 DEF SpillHolds, Counts
    <2>5. CASE failed
      BY <1>1, <1>2, <2>1, <2>2, <2>3, <2>4, <2>5 DEF SpillHolds
    <2>6. CASE ~failed /\ size.spill = 0
      <3>1. Len(file) = 0 /\ Lesser(copied', size.spill) = 0
        BY <1>1, <1>2, <2>6 DEF SpillHolds, Lesser
      <3> QED BY <1>1, <1>2, <2>1, <2>2, <2>3, <2>4, <2>6, <3>1 DEF SpillHolds
    <2> QED BY <1>3, <2>5, <2>6
  <1>4. CASE ~(failed \/ size.spill = 0) /\ created
    <2>1. WriteOut(p) /\ buf' = buf /\ created' = created
      BY <1>4 DEF Spill
    <2>2. Len(file) = Lesser(copied, size.spill)
      BY <1>2, <1>4 DEF SpillHolds
    <2>3. Len(file) = size.spill \/ Len(file) = copied
      BY <2>2 DEF Lesser
    <2>4. Len(file) = size.spill \/ Counts(p, Len(file))
      BY <2>3
    <2>5. Counts(file, 0) /\ Len(file) <= size.spill /\ failed = FALSE
      BY <1>1, <1>2, <1>4 DEF SpillHolds
    <2>6. /\ file' \in Seq(Nat) /\ Counts(file', 0)
          /\ Len(file') <= size.spill /\ Len(file') <= Len(file) + Len(p)
          /\ failed' \in BOOLEAN
          /\ ~failed' => Len(file') = Lesser(Len(file) + Len(p), size.spill)
      BY <1>1, <2>1, <2>4, <2>5, WriteOutKeeps
    <2>7. Len(file') \in Nat
      BY <2>6
    <2>8. Len(file') <= copied'
      BY <1>1, <1>2, <2>6, <2>7 DEF SpillHolds
    <2>9. ~failed' => Len(file') = Lesser(copied', size.spill)
      BY <1>1, <2>2, <2>6, <2>7 DEF Lesser
    <2>10. copied' > size.tail
      BY <1>1, <1>2, <1>4 DEF SpillHolds
    <2> QED BY <1>1, <1>4, <2>1, <2>6, <2>8, <2>9, <2>10 DEF SpillHolds
  <1>5. CASE ~(failed \/ size.spill = 0) /\ ~created
    <2>1. copied <= size.tail /\ Len(buf) = copied /\ Counts(buf, 0) /\ file = <<>>
      BY <1>1, <1>2, <1>5 DEF SpillHolds
    <2>2. 0 \in Int /\ Counts(p, 0 + Len(buf))
      BY <1>1, <2>1
    <2>3. /\ buf \o p \in Seq(Nat) /\ Len(buf \o p) = copied'
          /\ Counts(buf \o p, 0)
      BY <1>1, <2>1, <2>2, CountsConcat
    <2> DEFINE q == buf \o p
    <2> HIDE DEF q
    <2>4. q \in Seq(Nat) /\ Len(q) = copied' /\ Counts(q, 0)
      BY <2>3 DEF q
    <2>5. /\ Len(file) = 0 /\ Counts(file, 0) /\ Len(file) <= size.spill
          /\ failed = FALSE
      BY <1>1, <1>5, <2>1 DEF Counts
    <2>6. CASE Len(q) <= size.tail
      <3>1. buf' = q /\ UNCHANGED <<file, created, failed>>
        BY <1>5, <2>6 DEF Spill, q
      <3> QED BY <1>1, <1>5, <2>1, <2>4, <2>5, <2>6, <3>1 DEF SpillHolds
    <2>7. CASE ~(Len(q) <= size.tail)
      <3>1. \/ buf' = <<>> /\ created' = TRUE /\ WriteOut(q)
            \/ /\ buf' = q /\ failed' = TRUE
               /\ UNCHANGED <<file, created>>
        BY <1>5, <2>7 DEF Spill, q
      <3>2. copied' > size.tail
        BY <1>1, <2>4, <2>7
      <3>3. CASE buf' = <<>> /\ created' = TRUE /\ WriteOut(q)
        <4>1. Len(file) = size.spill \/ Counts(q, Len(file))
          BY <2>4, <2>5
        <4>2. /\ file' \in Seq(Nat) /\ Counts(file', 0)
              /\ Len(file') <= size.spill /\ Len(file') <= Len(file) + Len(q)
              /\ failed' \in BOOLEAN
              /\ ~failed' => Len(file') = Lesser(Len(file) + Len(q), size.spill)
          BY <1>1, <2>4, <2>5, <3>3, <4>1, WriteOutKeeps
        <4>3. Len(file) + Len(q) = copied'
          BY <1>1, <2>4, <2>5
        <4> QED BY <1>1, <3>2, <3>3, <4>2, <4>3 DEF SpillHolds
      <3>4. CASE buf' = q /\ failed' = TRUE /\ UNCHANGED <<file, created>>
        <4>1. Len(file) <= copied'
          BY <1>1, <2>5
        <4> QED BY <1>1, <1>5, <2>1, <2>4, <2>5, <3>4, <4>1 DEF SpillHolds
      <3> QED BY <3>1, <3>3, <3>4
    <2> QED BY <2>6, <2>7
  <1> QED BY <1>3, <1>4, <1>5

LEMMA CopyKeeps ==
  ASSUME IInv, NEW n \in Nat, Copy(n)
  PROVE  IInv'
  <1> DEFINE p == [i \in 1..n |-> copied + i]
  <1>1. copied \in Nat /\ printed \in Nat /\ copied <= printed
    BY SizeType DEF IInv
  <1>2. n \in 1..printed - copied
    BY DEF Copy
  <1>3. p \in Seq(Nat) /\ Len(p) = n /\ Counts(p, copied)
    BY <1>1 DEF Counts
  <1>4. KeepTail(p) /\ Spill(p)
    BY DEF Copy
  <1> HIDE DEF p
  <1>5. copied' = copied + Len(p) /\ Len(p) > 0 /\ UNCHANGED <<command, clock, run, size>>
    BY <1>2, <1>3 DEF Copy
  <1>6. size' = size
    BY <1>5
  <1>7. tail' \in Seq(Nat) /\ TailHolds'
    BY <1>3, <1>4, <1>5, <1>6, TailGrows
  <1>8. /\ buf' \in Seq(Nat) /\ file' \in Seq(Nat)
        /\ created' \in BOOLEAN /\ failed' \in BOOLEAN
        /\ SpillHolds'
    BY <1>3, <1>4, <1>5, <1>6, SpillGrows
  <1>9. copied' \in 0..printed' /\ printed' \in 0..MaxPrinted
    BY <1>1, <1>2, <1>3, <1>5 DEF IInv, TypeOK, command
  <1>10. TypeOK'
    BY <1>5, <1>7, <1>8, <1>9 DEF IInv, TypeOK, command, clock, run
  <1>11. ~waited
    BY <1>1, <1>2 DEF IInv, RunOrdered
  <1>12. RunOrdered'
    BY <1>5, <1>11 DEF IInv, RunOrdered, command, clock, run
  <1> QED BY <1>7, <1>8, <1>10, <1>12 DEF IInv

LEMMA Inductive == IInv /\ [Next]_vars => IInv'
  <1> SUFFICES ASSUME IInv, [Next]_vars PROVE IInv'
    OBVIOUS
  <1>1. CASE Command
    BY <1>1, CommandKeeps
  <1>2. CASE Copying
    <2>1. PICK n \in 1..MaxPrinted : Copy(n)
      BY <1>2 DEF Copying
    <2>2. n \in Nat
      OBVIOUS
    <2> QED BY <2>1, <2>2, CopyKeeps
  <1>3. CASE Run \/ Wait \/ Expire \/ Cancel
    BY <1>3, RunKeeps
  <1>4. CASE UNCHANGED vars
    BY <1>4 DEF vars, command, output, clock, run, IInv, TypeOK, RunOrdered,
                TailHolds, SpillHolds, Counts
  <1> QED BY <1>1, <1>2, <1>3, <1>4 DEF Next

LEMMA Invariance == Spec => []IInv
  BY InitIInv, Inductive, PTL DEF Spec
-----------------------------------------------------------------------------
(* The results.                                                            *)

\* Every variable keeps its type; the copying never runs ahead of the command.
THEOREM TypeCorrect == Spec => []TypeOK
  <1>1. IInv => TypeOK
    BY DEF IInv
  <1> QED BY <1>1, Invariance, PTL

\* Run returns a result only after everything printed was copied and nobody can
\* print any more, so reading the writers without a lock is safe (shell.go).
THEOREM OutputComplete == Spec => []OutputIsWhole
  <1>1. IInv => OutputIsWhole
    BY DEF IInv, RunOrdered, OutputIsWhole
  <1> QED BY <1>1, Invariance, PTL

\* A command that outlived its context leaves nothing running in its group, and
\* the result says why it ended (waitOrKill).
THEOREM TimeoutClears == Spec => []TimeoutClearsGroup
  <1>1. IInv => TimeoutClearsGroup
    BY DEF IInv, RunOrdered, TimeoutClearsGroup
  <1> QED BY <1>1, Invariance, PTL

\* However the output is cut into writes, the tail is its last bytes
\* (tailWriter.Write).
THEOREM TailKept == Spec => []TailKeepsEnd
  <1>1. IInv => TailKeepsEnd
    <2> SUFFICES ASSUME IInv PROVE TailKeepsEnd
      OBVIOUS
    <2> DEFINE n == IF copied > size.tail THEN size.tail ELSE copied
    <2>1. /\ copied \in Nat /\ size.tail \in Nat /\ tail \in Seq(Nat)
          /\ Len(tail) = n /\ Counts(tail, copied - n)
      BY SizeType DEF IInv, TypeOK, TailHolds, Lesser
    <2>2. Stream \in Seq(Nat) /\ Len(Stream) = copied /\ Counts(Stream, 0)
      BY <2>1, StreamCounts
    <2>3. n \in 0..Len(Stream) /\ 0 \in Int
      BY <2>1, <2>2
    <2> HIDE DEF n
    <2>4. /\ LastOf(Stream, n) \in Seq(Nat) /\ Len(LastOf(Stream, n)) = n
          /\ Counts(LastOf(Stream, n), 0 + Len(Stream) - n)
      BY <2>2, <2>3, CountsLast
    <2>5. 0 + Len(Stream) - n = copied - n /\ copied - n \in Int
      BY <2>1, <2>2, <2>3
    <2>6. Counts(LastOf(Stream, n), copied - n)
      BY <2>4, <2>5
    <2>7. tail = LastOf(Stream, n)
      BY <2>1, <2>4, <2>5, <2>6, CountsAlike
    <2> QED BY <2>7 DEF TailKeepsEnd, n
  <1> QED BY <1>1, Invariance, PTL

\* The overflow file is a beginning of the output at every moment, complete up
\* to its limit unless the disk failed, and exists only when the tail is not
\* everything (spillFile.Write).
THEOREM SpillKept == Spec => []SpillKeepsHead
  <1>1. IInv => SpillKeepsHead
    <2> SUFFICES ASSUME IInv PROVE SpillKeepsHead
      OBVIOUS
    <2>1. /\ copied \in Nat /\ size.tail \in Nat /\ size.spill \in Nat
          /\ file \in Seq(Nat) /\ Len(file) \in Nat /\ SpillHolds
      BY SizeType DEF IInv, TypeOK
    <2>2. Stream \in Seq(Nat) /\ Len(Stream) = copied /\ Counts(Stream, 0)
      BY <2>1, StreamCounts
    <2>3. Counts(file, 0) /\ Len(file) <= Len(Stream)
      BY <2>1, <2>2 DEF SpillHolds
    <2>4. IsPrefix(file, Stream)
      <3>1. Len(file) \in 0..Len(Stream) /\ Len(file) \in 0..Len(file) /\ 0 \in Int
        BY <2>1, <2>2, <2>3
      <3>2. /\ SubSeq(Stream, 1, Len(file)) \in Seq(Nat)
            /\ Len(SubSeq(Stream, 1, Len(file))) = Len(file)
            /\ Counts(SubSeq(Stream, 1, Len(file)), 0)
        BY <2>2, <3>1, CountsFirst
      <3>3. /\ SubSeq(file, 1, Len(file)) \in Seq(Nat)
            /\ Len(SubSeq(file, 1, Len(file))) = Len(file)
            /\ Counts(SubSeq(file, 1, Len(file)), 0)
        BY <2>1, <2>3, <3>1, CountsFirst
      <3>4. SubSeq(file, 1, Len(file)) = SubSeq(Stream, 1, Len(file))
        BY <3>1, <3>2, <3>3, CountsAlike
      <3> QED BY <2>3, <3>4 DEF IsPrefix
    <2>5. created => copied > size.tail
      BY <2>1 DEF SpillHolds
    <2>6. ~failed /\ size.spill > 0 /\ copied > size.tail =>
            created /\ Len(file) = Lesser(copied, size.spill)
      BY <2>1 DEF SpillHolds
    <2> QED BY <2>4, <2>5, <2>6 DEF SpillKeepsHead, Lesser
  <1> QED BY <1>1, Invariance, PTL

\* The model is shown the end of the output, and the overflow file has its
\* beginning (tailWriter.Write, spillFile.Write).
THEOREM OutputIsKept == Spec => []OutputKept
  <1>1. TailKeepsEnd /\ SpillKeepsHead => OutputKept
    BY DEF OutputKept
  <1> QED BY <1>1, TailKept, SpillKept, PTL
-----------------------------------------------------------------------------
(* Occurrences of a text in another.                                        *)

Occurs(s, sub, i) ==
  i + Len(sub) - 1 <= Len(s) /\ SubSeq(s, i, i + Len(sub) - 1) = sub

\* What is found from i on, when f holds what is found further on.
Found(s, sub, f, i) ==
  CASE i + Len(sub) - 1 > Len(s) -> <<>>
    [] /\ i + Len(sub) - 1 <= Len(s)
       /\ SubSeq(s, i, i + Len(sub) - 1) = sub -> <<i>> \o f[i + Len(sub)]
    [] OTHER -> f[i + 1]

\* f holds what is found from m on and further on.
Finds(s, sub, f, m) == f = [i \in m..Len(s) + 1 |-> Found(s, sub, f, i)]

LEMMA FoundCases ==
  ASSUME NEW S, NEW s \in Seq(S), NEW sub \in Seq(S), NEW f,
         NEW i \in 1..Len(s) + 1
  PROVE  /\ Occurs(s, sub, i) =>
              Found(s, sub, f, i) = <<i>> \o f[i + Len(sub)]
         /\ i + Len(sub) - 1 > Len(s) => Found(s, sub, f, i) = <<>>
         /\ ~Occurs(s, sub, i) /\ i + Len(sub) - 1 <= Len(s) =>
              Found(s, sub, f, i) = f[i + 1]
  <1> DEFINE e == i + Len(sub) - 1
  <1>1. e \in Int /\ Len(s) \in Int
    OBVIOUS
  <1>2. e > Len(s) <=> ~(e <= Len(s))
    BY <1>1
  <1> HIDE DEF e
  <1> QED BY <1>2 DEF Found, Occurs, e

\* Only what is found further on matters.
LEMMA FoundAlike ==
  ASSUME NEW S, NEW s \in Seq(S), NEW sub \in Seq(S), sub # <<>>,
         NEW f, NEW g, NEW i \in 1..Len(s) + 1,
         \A j \in i + 1..Len(s) + 1 : f[j] = g[j]
  PROVE  Found(s, sub, f, i) = Found(s, sub, g, i)
  <1>1. Len(sub) \in Nat /\ Len(sub) >= 1 /\ Len(s) \in Nat
    BY EmptySeq, LenProperties
  <1>2. CASE Occurs(s, sub, i)
    <2>1. i + Len(sub) \in i + 1..Len(s) + 1
      BY <1>1, <1>2 DEF Occurs
    <2>2. Found(s, sub, f, i) = <<i>> \o f[i + Len(sub)]
      BY <1>2, FoundCases
    <2>3. Found(s, sub, g, i) = <<i>> \o g[i + Len(sub)]
      BY <1>2, FoundCases
    <2> QED BY <2>1, <2>2, <2>3
  <1>3. CASE ~Occurs(s, sub, i) /\ i + Len(sub) - 1 <= Len(s)
    <2>1. i + 1 \in i + 1..Len(s) + 1
      BY <1>1, <1>3
    <2>2. Found(s, sub, f, i) = f[i + 1]
      BY <1>3, FoundCases, Zenon
    <2>3. Found(s, sub, g, i) = g[i + 1]
      BY <1>3, FoundCases, Zenon
    <2> QED BY <2>1, <2>2, <2>3
  <1>4. CASE i + Len(sub) - 1 > Len(s)
    <2>1. Found(s, sub, f, i) = <<>>
      BY <1>4, FoundCases, Zenon
    <2>2. Found(s, sub, g, i) = <<>>
      BY <1>4, FoundCases, Zenon
    <2> QED BY <2>1, <2>2
  <1> QED BY <1>1, <1>2, <1>3, <1>4

LEMMA FindsExists ==
  ASSUME NEW S, NEW s \in Seq(S), NEW sub \in Seq(S), sub # <<>>
  PROVE  \E f : Finds(s, sub, f, 1)
  <1> DEFINE n == Len(s) + 1
             T == {k \in 0..n : \E f : Finds(s, sub, f, n + 1 - k)}
  <1>0. n \in Nat /\ Len(s) \in Nat
    OBVIOUS
  <1>1. 0 \in T
    <2> DEFINE g == [i \in n + 1..n |-> <<>>]
    <2>1. n + 1..n = {}
      BY <1>0
    <2>2. g = [i \in n + 1..Len(s) + 1 |-> Found(s, sub, g, i)]
      BY <2>1
    <2> HIDE DEF g
    <2>3. Finds(s, sub, g, n + 1)
      BY <2>2 DEF Finds
    <2> QED BY <2>3, <1>0
  <1>2. ASSUME NEW k \in 1..n, k - 1 \in T PROVE k \in T
    <2> DEFINE m == n + 1 - k
    <2>1. PICK f : Finds(s, sub, f, m + 1)
      <3>1. n + 1 - (k - 1) = m + 1
        BY <1>0
      <3> QED BY <1>2, <3>1
    <2> DEFINE g == [i \in m..n |-> Found(s, sub, f, i)]
    <2>2. m \in 1..n
      BY <1>0
    <2>3. \A i \in m + 1..n : g[i] = f[i]
      <3> SUFFICES ASSUME NEW i \in m + 1..n PROVE g[i] = f[i]
        OBVIOUS
      <3>1. f[i] = Found(s, sub, f, i)
        BY <2>1, Zenon DEF Finds
      <3>2. i \in m..n
        BY <1>0
      <3> QED BY <3>1, <3>2
    <2>4. \A i \in m..n : g[i] = Found(s, sub, g, i)
      <3> SUFFICES ASSUME NEW i \in m..n PROVE g[i] = Found(s, sub, g, i)
        OBVIOUS
      <3>1. g[i] = Found(s, sub, f, i)
        OBVIOUS
      <3>2. \A j \in i + 1..n : j \in m + 1..n
        BY <1>0
      <3>3. i \in 1..n
        BY <1>0
      <3> HIDE DEF g
      <3>4. \A j \in i + 1..n : f[j] = g[j]
        BY <3>2, <2>3
      <3> HIDE DEF m
      <3> QED BY <3>1, <3>3, <3>4, FoundAlike
    <2>5. g = [i \in m..Len(s) + 1 |-> Found(s, sub, g, i)]
      <3>1. g = [i \in m..n |-> g[i]]
        OBVIOUS
      <3> HIDE DEF g
      <3> QED BY <3>1, <2>4
    <2>6. Finds(s, sub, g, m)
      <3> HIDE DEF g, m
      <3> QED BY <2>5 DEF Finds
    <2> QED BY <2>6
  <1>3. \A k \in 0..n : k \in T
    <2> HIDE DEF n, T
    <2> QED BY <1>0, <1>1, <1>2, Upwards, Zenon
  <1>4. n \in T
    BY <1>0, <1>3
  <1>5. n + 1 - n = 1
    BY <1>0
  <1> HIDE DEF n
  <1> QED BY <1>4, <1>5

\* Places of sub in s from i on: each after the one before it, and none that
\* begins outside of them.
PlacesFrom(s, sub, spots, i) ==
  /\ spots \in Seq(Nat)
  /\ \A j \in DOMAIN spots : spots[j] >= i /\ Occurs(s, sub, spots[j])
  /\ \A j, k \in DOMAIN spots : j < k => spots[j] + Len(sub) <= spots[k]
  /\ \A p \in Nat : p >= i /\ Occurs(s, sub, p) =>
       \E j \in DOMAIN spots : spots[j] <= p /\ p < spots[j] + Len(sub)

LEMMA PlacesBefore ==
  ASSUME NEW S, NEW s \in Seq(S), NEW sub \in Seq(S), sub # <<>>,
         NEW i \in 1..Len(s) + 1, NEW spots, Occurs(s, sub, i),
         PlacesFrom(s, sub, spots, i + Len(sub))
  PROVE  PlacesFrom(s, sub, <<i>> \o spots, i)
  <1> DEFINE w == Len(sub)
             all == <<i>> \o spots
  <1>1. w \in Nat /\ w >= 1 /\ spots \in Seq(Nat)
    BY EmptySeq, LenProperties DEF PlacesFrom
  <1>2. <<i>> \in Seq(Nat) /\ Len(<<i>>) = 1 /\ <<i>>[1] = i
    OBVIOUS
  <1>3. /\ all \in Seq(Nat) /\ Len(all) = 1 + Len(spots)
        /\ \A j \in 1..1 + Len(spots) :
             all[j] = IF j <= 1 THEN <<i>>[j] ELSE spots[j - 1]
    BY <1>1, <1>2, ConcatProperties
  <1>4. /\ all[1] = i
        /\ \A j \in 2..Len(all) : all[j] = spots[j - 1] /\ j - 1 \in DOMAIN spots
        /\ DOMAIN all = 1..Len(all) /\ Len(all) \in Nat
        /\ DOMAIN spots = 1..Len(spots) /\ Len(spots) \in Nat
    BY <1>1, <1>2, <1>3
  <1>5. \A j \in DOMAIN spots : spots[j] \in Nat /\ spots[j] >= i + w
                             /\ Occurs(s, sub, spots[j])
    BY <1>1 DEF PlacesFrom
  <1>6. \A j \in DOMAIN all : all[j] >= i /\ Occurs(s, sub, all[j])
    <2> SUFFICES ASSUME NEW j \in DOMAIN all
                 PROVE  all[j] >= i /\ Occurs(s, sub, all[j])
      OBVIOUS
    <2> HIDE DEF all, w
    <2>1. CASE j = 1
      BY <2>1, <1>4
    <2>2. CASE j # 1
      <3>1. all[j] = spots[j - 1] /\ j - 1 \in DOMAIN spots
        BY <2>2, <1>4
      <3>2. spots[j - 1] \in Nat /\ spots[j - 1] >= i + w
            /\ Occurs(s, sub, spots[j - 1])
        BY <3>1, <1>5
      <3> QED BY <3>1, <3>2, <1>1
    <2> QED BY <2>1, <2>2
  <1>7. \A j, k \in DOMAIN all : j < k => all[j] + w <= all[k]
    <2> SUFFICES ASSUME NEW j \in DOMAIN all, NEW k \in DOMAIN all, j < k
                 PROVE  all[j] + w <= all[k]
      OBVIOUS
    <2>1. \A a, b \in DOMAIN spots : a < b => spots[a] + w <= spots[b]
      BY DEF PlacesFrom
    <2> HIDE DEF all, w
    <2>2. k \in 2..Len(all) /\ j \in Nat
      BY <1>4
    <2>3. all[k] = spots[k - 1] /\ k - 1 \in DOMAIN spots
      BY <2>2, <1>4
    <2>4. CASE j = 1
      BY <2>3, <2>4, <1>4, <1>5
    <2>5. CASE j # 1
      <3>1. all[j] = spots[j - 1] /\ j - 1 \in DOMAIN spots
        BY <2>5, <1>4
      <3>2. j - 1 < k - 1
        BY <2>2
      <3> QED BY <3>1, <3>2, <2>3, <2>1
    <2> QED BY <2>4, <2>5
  <1>8. \A p \in Nat : p >= i /\ Occurs(s, sub, p) =>
          \E j \in DOMAIN all : all[j] <= p /\ p < all[j] + w
    <2> SUFFICES ASSUME NEW p \in Nat, p >= i, Occurs(s, sub, p)
                 PROVE  \E j \in DOMAIN all : all[j] <= p /\ p < all[j] + w
      OBVIOUS
    <2>1. CASE p < i + w
      <3> HIDE DEF all
      <3> QED BY <2>1, <1>3, <1>4
    <2>2. CASE p >= i + w
      <3>1. PICK j \in DOMAIN spots : spots[j] <= p /\ p < spots[j] + w
        BY <2>2 DEF PlacesFrom
      <3> HIDE DEF all
      <3>2. j + 1 \in 2..Len(all) /\ j + 1 \in DOMAIN all /\ (j + 1) - 1 = j
        <4>1. j \in 1..Len(spots) /\ Len(spots) \in Nat
          BY <1>4
        <4>2. Len(all) = 1 + Len(spots) /\ DOMAIN all = 1..Len(all)
          BY <1>3
        <4> HIDE DEF w
        <4> QED BY <4>1, <4>2
      <3>3. all[j + 1] = spots[j]
        BY <3>2, <1>4
      <3> QED BY <3>1, <3>2, <3>3
    <2> QED BY <2>1, <2>2, <1>1
  <1> QED BY <1>3, <1>6, <1>7, <1>8 DEF PlacesFrom

\* Occurrences finds a place wherever the text is, and none twice.
LEMMA OccurrencesFound ==
  ASSUME NEW S, NEW s \in Seq(S), NEW sub \in Seq(S), sub # <<>>
  PROVE  PlacesFrom(s, sub, Occurrences(s, sub), 1)
  <1> DEFINE n == Len(s) + 1
             f == CHOOSE f : Finds(s, sub, f, 1)
             T == {k \in 0..n : k < n => PlacesFrom(s, sub, f[n - k], n - k)}
  <1>0. /\ n \in Nat /\ Len(s) \in Nat /\ n >= 1
        /\ Len(sub) \in Nat /\ Len(sub) >= 1
    BY EmptySeq, LenProperties
  <1>1. Finds(s, sub, f, 1)
    BY FindsExists
  <1>2. Occurrences(s, sub) = f[1]
    BY DEF Occurrences, Finds, Found
  <1> HIDE DEF f
  <1>3. \A i \in 1..n : f[i] = Found(s, sub, f, i)
    BY <1>1 DEF Finds
  <1>4. ASSUME NEW i \in 1..n,
               \A j \in i + 1..n : PlacesFrom(s, sub, f[j], j)
        PROVE  PlacesFrom(s, sub, f[i], i)
    <2>1. CASE Occurs(s, sub, i)
      <3>1. f[i] = <<i>> \o f[i + Len(sub)]
        BY <2>1, <1>3, FoundCases
      <3>2. i + Len(sub) \in i + 1..n
        BY <2>1, <1>0 DEF Occurs
      <3>3. PlacesFrom(s, sub, f[i + Len(sub)], i + Len(sub))
        BY <3>2, <1>4
      <3> QED BY <3>1, <3>3, <2>1, PlacesBefore
    <2>2. CASE i + Len(sub) - 1 > Len(s)
      <3>1. f[i] = <<>>
        BY <2>2, <1>3, FoundCases, Zenon
      <3>2. \A p \in Nat : p >= i => ~Occurs(s, sub, p)
        BY <2>2, <1>0 DEF Occurs
      <3> QED BY <3>1, <3>2 DEF PlacesFrom
    <2>3. CASE ~Occurs(s, sub, i) /\ i + Len(sub) - 1 <= Len(s)
      <3>0. Found(s, sub, f, i) = f[i + 1]
        BY <2>3, FoundCases, Zenon
      <3>1. f[i] = f[i + 1]
        BY <3>0, <1>3
      <3>2. i + 1 \in i + 1..n
        BY <2>3, <1>0
      <3>3. PlacesFrom(s, sub, f[i + 1], i + 1)
        BY <3>2, <1>4
      <3>4. f[i] \in Seq(Nat)
        BY <3>1, <3>3 DEF PlacesFrom
      <3>5. \A j \in DOMAIN f[i] : f[i][j] >= i /\ Occurs(s, sub, f[i][j])
        BY <3>1, <3>3, <3>4 DEF PlacesFrom
      <3>6. \A p \in Nat : p >= i /\ Occurs(s, sub, p) => p >= i + 1
        BY <2>3
      <3> QED BY <3>1, <3>3, <3>4, <3>5, <3>6 DEF PlacesFrom
    <2> QED BY <1>0, <2>1, <2>2, <2>3
  <1> DEFINE U == {i \in 1..n : ~PlacesFrom(s, sub, f[i], i)}
  <1>5. U = {}
    <2> SUFFICES ASSUME U # {} PROVE FALSE
      OBVIOUS
    <2>1. \E i \in U : \A j \in U : j <= i
      <3>1. U \in SUBSET Nat /\ \A m \in U : m <= n
        BY <1>0
      <3> HIDE DEF U
      <3> QED BY <3>1, <1>0, NatMax
    <2>2. PICK i \in U : \A j \in U : j <= i
      BY <2>1
    <2>3. \A j \in i + 1..n : PlacesFrom(s, sub, f[j], j)
      BY <2>2, <1>0
    <2> QED BY <2>2, <2>3, <1>4
  <1>6. 1 \in 1..n
    BY <1>0
  <1> QED BY <1>2, <1>5, <1>6

-----------------------------------------------------------------------------
(* Replacing place after place, and rewriting character by character.       *)

\* F joins the pieces, one after another.
Joining(F, pieces, n, S) ==
  /\ F \in [0..n -> Seq(S)]
  /\ \A i \in 1..n : F[i] = F[i - 1] \o pieces[i]

Associates(u, v, x) == (u \o v) \o x = u \o (v \o x)

LEMMA Associative ==
  ASSUME NEW S, NEW u \in Seq(S), NEW v \in Seq(S), NEW x \in Seq(S)
  PROVE  Associates(u, v, x)
  BY ConcatAssociative DEF Associates

\* Where the pieces are the characters of s, what they join to grows by s.
CopiesText(F, pieces, n, s) ==
  \A a \in 1..n + 1, b \in 0..n :
    a - 1 <= b /\ b <= Len(s) /\ (\A i \in a..b : pieces[i] = <<s[i]>>)
      => F[b] = F[a - 1] \o SubSeq(s, a, b)

LEMMA JoinStretch ==
  ASSUME NEW S, NEW s \in Seq(S), NEW n \in Nat, NEW F, NEW pieces,
         Joining(F, pieces, n, S)
  PROVE  CopiesText(F, pieces, n, s)
  <1> SUFFICES ASSUME NEW a \in 1..n + 1, NEW b \in 0..n, a - 1 <= b,
                      b <= Len(s), \A i \in a..b : pieces[i] = <<s[i]>>
               PROVE  F[b] = F[a - 1] \o SubSeq(s, a, b)
    BY DEF CopiesText
  <1> DEFINE m == b - a + 1
             T == {k \in 0..m :
                     F[a - 1 + k] = F[a - 1] \o SubSeq(s, a, a - 1 + k)}
  <1>0. m \in Nat /\ Len(s) \in Nat /\ F[a - 1] \in Seq(S)
    BY DEF Joining
  <1>1. 0 \in T
    <2>1. SubSeq(s, a, a - 1 + 0) = <<>>
      BY SubSeqEmpty
    <2>2. F[a - 1] \o <<>> = F[a - 1]
      BY <1>0, ConcatEmptySeq
    <2>3. a - 1 + 0 = a - 1
      OBVIOUS
    <2> QED BY <1>0, <2>1, <2>2, <2>3
  <1>2. ASSUME NEW k \in 1..m, k - 1 \in T PROVE k \in T
    <2> DEFINE j == a - 1 + k
    <2>1. j \in a..b /\ j \in 1..n /\ j - 1 = a - 1 + (k - 1) /\ j \in 1..Len(s)
      BY <1>0
    <2>2. F[j] = F[j - 1] \o <<s[j]>>
      BY <2>1 DEF Joining
    <2>3. F[j - 1] = F[a - 1] \o SubSeq(s, a, j - 1)
      BY <1>2, <2>1
    <2>4. SubSeq(s, a, j) = SubSeq(s, a, j - 1) \o <<s[j]>>
      <3>1. a \in 1..Len(s) /\ j \in a..Len(s)
        BY <2>1
      <3> HIDE DEF j
      <3> QED BY <3>1, SubSeqRecursiveSecond
    <2>5. SubSeq(s, a, j - 1) \in Seq(S) /\ <<s[j]>> \in Seq(S)
      <3>1. \A i \in a..j - 1 : s[i] \in S
        BY <2>1
      <3>2. s[j] \in S
        BY <2>1
      <3> HIDE DEF j
      <3>3. j \in Int /\ j - 1 \in Int
        BY <2>1
      <3> QED BY <3>1, <3>2, <3>3, SubSeqProperties
    <2>6. F[j] = F[a - 1] \o SubSeq(s, a, j)
      <3> HIDE DEF j
      <3>1. (F[a - 1] \o SubSeq(s, a, j - 1)) \o <<s[j]>>
              = F[a - 1] \o (SubSeq(s, a, j - 1) \o <<s[j]>>)
        <4>1. Associates(F[a - 1], SubSeq(s, a, j - 1), <<s[j]>>)
          BY <2>5, <1>0, Associative, Zenon
        <4> QED BY <4>1 DEF Associates
      <3> QED BY <2>2, <2>3, <2>4, <3>1
    <2>7. k \in 0..m
      BY <1>0
    <2> HIDE DEF m
    <2> QED BY <2>6, <2>7
  <1>3. m \in T
    <2>1. \A k \in 0..m : k \in T
      <3> HIDE DEF m, T
      <3> QED BY <1>0, <1>1, <1>2, Upwards, Zenon
    <2>2. m \in 0..m
      BY <1>0
    <2> HIDE DEF m, T
    <2> QED BY <2>1, <2>2
  <1>4. a - 1 + m = b
    BY <1>0
  <1> HIDE DEF m
  <1> QED BY <1>3, <1>4

SkipsGaps(F, pieces, n) ==
  \A a \in 1..n + 1, b \in 0..n :
    a - 1 <= b /\ (\A i \in a..b : pieces[i] = <<>>) => F[b] = F[a - 1]

LEMMA JoinGap ==
  ASSUME NEW S, NEW n \in Nat, NEW F, NEW pieces, Joining(F, pieces, n, S)
  PROVE  SkipsGaps(F, pieces, n)
  <1> SUFFICES ASSUME NEW a \in 1..n + 1, NEW b \in 0..n, a - 1 <= b,
                      \A i \in a..b : pieces[i] = <<>>
               PROVE  F[b] = F[a - 1]
    BY DEF SkipsGaps
  <1> DEFINE m == b - a + 1
             T == {k \in 0..m : F[a - 1 + k] = F[a - 1]}
  <1>0. m \in Nat
    OBVIOUS
  <1>1. 0 \in T
    OBVIOUS
  <1>2. ASSUME NEW k \in 1..m, k - 1 \in T PROVE k \in T
    <2> DEFINE j == a - 1 + k
    <2>1. j \in a..b /\ j \in 1..n /\ j - 1 = a - 1 + (k - 1)
      BY <1>0
    <2>2. F[j] = F[j - 1] \o <<>> /\ F[j - 1] \in Seq(S)
      <3>1. pieces[j] = <<>> /\ j - 1 \in 0..n
        BY <2>1
      <3> HIDE DEF j
      <3> QED BY <2>1, <3>1 DEF Joining
    <2>3. F[j] = F[j - 1]
      <3> HIDE DEF j
      <3> QED BY <2>2, ConcatEmptySeq
    <2>4. F[j - 1] = F[a - 1]
      BY <1>2, <2>1
    <2> QED BY <2>3, <2>4
  <1>3. m \in T
    <2>1. \A k \in 0..m : k \in T
      <3> HIDE DEF m, T
      <3> QED BY <1>0, <1>1, <1>2, Upwards, Zenon
    <2> QED BY <2>1, <1>0
  <1>4. a - 1 + m = b
    BY <1>0
  <1> HIDE DEF m
  <1> QED BY <1>3, <1>4

Piece(s, P, width, new, i) ==
  CASE i \in P -> new \o IF width = 0 THEN <<s[i]>> ELSE <<>>
    [] i \notin P /\ (i > Len(s) \/ \E p \in P : i \in p..p + width - 1)
         -> <<>>
    [] OTHER -> <<s[i]>>

\* Places one after another in a text of n characters.
Apart(spots, w, n) ==
  /\ spots \in Seq(Nat)
  /\ \A j \in DOMAIN spots : spots[j] >= 1 /\ spots[j] + w - 1 <= n
  /\ \A j, k \in DOMAIN spots : j < k => spots[j] + w <= spots[k]

LEMMA PieceCases ==
  ASSUME NEW S, NEW s \in Seq(S), NEW new \in Seq(S), NEW spots,
         NEW w \in Nat \ {0}, Apart(spots, w, Len(s)),
         NEW i \in 1..Len(s) + 1
  PROVE  /\ \A k \in DOMAIN spots : i = spots[k] =>
              Piece(s, Range(spots), w, new, i) = new
         /\ \A k \in DOMAIN spots : i > spots[k] /\ i < spots[k] + w =>
              Piece(s, Range(spots), w, new, i) = <<>>
         /\ i <= Len(s) /\ (\A k \in DOMAIN spots : i < spots[k] \/ i >= spots[k] + w) =>
              Piece(s, Range(spots), w, new, i) = <<s[i]>>
         /\ i = Len(s) + 1 => Piece(s, Range(spots), w, new, i) = <<>>
         /\ Piece(s, Range(spots), w, new, i) \in Seq(S)
  <1> DEFINE P == Range(spots)
  <1>0. /\ Len(s) \in Nat /\ DOMAIN spots = 1..Len(spots) /\ Len(spots) \in Nat
        /\ \A k \in DOMAIN spots : spots[k] \in Nat
        /\ \A j \in DOMAIN spots : spots[j] >= 1 /\ spots[j] + w - 1 <= Len(s)
    BY LenProperties DEF Apart
  <1>1. P = {spots[k] : k \in DOMAIN spots}
    BY DEF Range
  <1>2. new \o <<>> = new
    BY ConcatEmptySeq
  <1>3. CASE i \in P
    <2>1. Piece(s, P, w, new, i) = new
      BY <1>2, <1>3 DEF Piece
    <2>2. PICK k \in DOMAIN spots : spots[k] = i
      BY <1>1, <1>3
    <2>3. \A j \in DOMAIN spots : ~(i > spots[j] /\ i < spots[j] + w)
      <3> SUFFICES ASSUME NEW j \in DOMAIN spots, i > spots[j], i < spots[j] + w
                   PROVE  FALSE
        OBVIOUS
      <3>1. CASE j < k
        BY <3>1, <2>2, <1>0 DEF Apart
      <3>2. CASE k < j
        BY <3>2, <2>2, <1>0 DEF Apart
      <3> QED BY <3>1, <3>2, <2>2, <1>0
    <2>4. i <= Len(s) /\ ~(i < spots[k] \/ i >= spots[k] + w)
      BY <2>2, <1>0
    <2> HIDE DEF P
    <2> QED BY <2>1, <2>2, <2>3, <2>4 DEF P
  <1>4. CASE i \notin P /\ \E p \in P : i \in p..p + w - 1
    <2>1. Piece(s, P, w, new, i) = <<>>
      BY <1>4 DEF Piece
    <2>2. PICK k \in DOMAIN spots : i \in spots[k]..spots[k] + w - 1
      BY <1>1, <1>4
    <2>3. ~(i < spots[k] \/ i >= spots[k] + w)
      BY <2>2, <1>0
    <2>4. \A j \in DOMAIN spots : i # spots[j]
      BY <1>1, <1>4
    <2> QED BY <2>1, <2>2, <2>3, <2>4
  <1>5. CASE i \notin P /\ ~\E p \in P : i \in p..p + w - 1
    <2>1. \A k \in DOMAIN spots : i # spots[k] /\ ~(i > spots[k] /\ i < spots[k] + w)
      <3> SUFFICES ASSUME NEW k \in DOMAIN spots
                   PROVE  i # spots[k] /\ ~(i > spots[k] /\ i < spots[k] + w)
        OBVIOUS
      <3>1. spots[k] \in P
        BY <1>1
      <3>2. i \notin spots[k]..spots[k] + w - 1
        BY <3>1, <1>5
      <3> QED BY <3>1, <3>2, <1>0, <1>5
    <2>2. i <= Len(s) => Piece(s, P, w, new, i) = <<s[i]>> /\ s[i] \in S
      BY <1>5, <1>0 DEF Piece
    <2>3. i = Len(s) + 1 => Piece(s, P, w, new, i) = <<>>
      BY <1>5, <1>0 DEF Piece
    <2>4. i <= Len(s) \/ i = Len(s) + 1
      BY <1>0
    <2>5. i <= Len(s) => <<s[i]>> \in Seq(S)
      BY <2>2
    <2>6. <<>> \in Seq(S)
      OBVIOUS
    <2>7. Piece(s, P, w, new, i) \in Seq(S)
      BY <2>2, <2>3, <2>4, <2>5, <2>6
    <2>8. i = Len(s) + 1 => ~(i <= Len(s))
      BY <1>0
    <2> HIDE DEF P
    <2> QED BY <2>1, <2>2, <2>3, <2>7, <2>8 DEF P
  <1> QED BY <1>3, <1>4, <1>5

\* Replacing the text at places that are apart rewrites those and copies the
\* rest.
LEMMA ReplacedIsRewritten ==
  ASSUME NEW S, NEW s \in Seq(S), NEW new \in Seq(S), NEW spots,
         NEW w \in Nat \ {0}, Apart(spots, w, Len(s))
  PROVE  /\ Replaced(s, spots, w, new) = Rewritten(s, Range(spots), w, new)
         /\ Replaced(s, spots, w, new) \in Seq(S)
  <1> DEFINE n == Len(s)
             K == Len(spots)
             after(k) == IF k = 0 THEN 1 ELSE spots[k] + w
             pieces == [i \in 1..n + 1 |-> Piece(s, Range(spots), w, new, i)]
             stretch(k) == SubSeq(s, after(k - 1), spots[k] - 1)
             parts == [k \in DOMAIN spots |-> stretch(k) \o new]
  <1>0. /\ n \in Nat /\ K \in Nat /\ DOMAIN spots = 1..K
        /\ \A k \in 1..K : spots[k] \in Nat /\ spots[k] >= 1 /\ spots[k] + w - 1 <= n
        /\ \A j, k \in 1..K : j < k => spots[j] + w <= spots[k]
    BY LenProperties DEF Apart
  <1>1. /\ after(0) = 1
        /\ \A k \in 1..K : after(k) = spots[k] + w
        /\ \A k \in 0..K : after(k) \in 1..n + 1
        /\ \A k \in 1..K : after(k - 1) <= spots[k]
    <2>1. after(0) = 1 /\ \A k \in 1..K : after(k) = spots[k] + w
      BY <1>0
    <2>2. \A k \in 0..K : after(k) \in 1..n + 1
      BY <1>0
    <2>3. \A k \in 1..K : after(k - 1) <= spots[k]
      <3> SUFFICES ASSUME NEW k \in 1..K PROVE after(k - 1) <= spots[k]
        OBVIOUS
      <3>1. CASE k = 1
        BY <3>1, <1>0
      <3>2. CASE k # 1
        <4>1. k - 1 \in 1..K /\ k - 1 < k
          BY <3>2, <1>0
        <4>2. spots[k - 1] + w <= spots[k]
          BY <4>1, <1>0
        <4>3. after(k - 1) = spots[k - 1] + w
          BY <4>1, <2>1
        <4> QED BY <4>2, <4>3
      <3> QED BY <3>1, <3>2
    <2> QED BY <2>1, <2>2, <2>3
  <1>2. /\ Rewritten(s, Range(spots), w, new) = FlattenSeq(pieces)
        /\ Replaced(s, spots, w, new)
             = FlattenSeq(parts) \o SubSeq(s, after(K), n)
    BY DEF Rewritten, Replaced, Piece
  <1> HIDE DEF after
  <1>3. pieces \in Seq(Seq(S)) /\ Len(pieces) = n + 1
        /\ \A i \in 1..n + 1 : pieces[i] = Piece(s, Range(spots), w, new, i)
    <2>1. \A i \in 1..n + 1 : Piece(s, Range(spots), w, new, i) \in Seq(S)
      BY PieceCases
    <2> QED BY <2>1, <1>0
  <1>4. \A k \in 1..K : stretch(k) \in Seq(S)
    <2> SUFFICES ASSUME NEW k \in 1..K PROVE stretch(k) \in Seq(S)
      OBVIOUS
    <2>1. after(k - 1) \in Int /\ spots[k] - 1 \in Int /\ after(k - 1) >= 1
          /\ spots[k] - 1 <= n
      <3>1. k - 1 \in 0..K
        BY <1>0
      <3>2. after(k - 1) \in 1..n + 1
        BY <3>1, <1>1
      <3>3. spots[k] \in Nat /\ spots[k] + w - 1 <= n
        BY <1>0
      <3> QED BY <3>2, <3>3, <1>0
    <2>2. \A i \in after(k - 1)..spots[k] - 1 : s[i] \in S
      BY <2>1, <1>0
    <2> QED BY <2>1, <2>2, SubSeqProperties
  <1>5. parts \in Seq(Seq(S)) /\ Len(parts) = K
        /\ \A k \in 1..K : parts[k] = stretch(k) \o new
    <2>1. \A k \in 1..K : stretch(k) \o new \in Seq(S)
      <3> HIDE DEF stretch
      <3> QED BY <1>4, ConcatProperties
    <2> HIDE DEF stretch
    <2> QED BY <2>1, <1>0
  <1> HIDE DEF pieces, parts
  <1>6. PICK F \in [0..n + 1 -> Seq(S)] :
               /\ F[0] = <<>>
               /\ \A i \in 1..n + 1 : F[i] = F[i - 1] \o pieces[i]
               /\ FlattenSeq(pieces) = F[n + 1]
    <2>1. \E F \in [0..Len(pieces) -> Seq(S)] :
            /\ F[0] = <<>>
            /\ \A i \in 1..Len(pieces) : F[i] = F[i - 1] \o pieces[i]
            /\ FlattenSeq(pieces) = F[Len(pieces)]
      BY <1>3, Flattening, Zenon
    <2> QED BY <2>1, <1>3
  <1>7. PICK G \in [0..K -> Seq(S)] :
               /\ G[0] = <<>>
               /\ \A k \in 1..K : G[k] = G[k - 1] \o parts[k]
               /\ FlattenSeq(parts) = G[K]
    <2>1. \E G \in [0..Len(parts) -> Seq(S)] :
            /\ G[0] = <<>>
            /\ \A k \in 1..Len(parts) : G[k] = G[k - 1] \o parts[k]
            /\ FlattenSeq(parts) = G[Len(parts)]
      BY <1>5, Flattening, Zenon
    <2> QED BY <2>1, <1>5
  <1>8. Joining(F, pieces, n + 1, S)
    BY <1>6 DEF Joining
  <1>8a. \A a \in 1..(n + 1) + 1, b \in 0..n + 1 :
           a - 1 <= b /\ b <= n /\ (\A i \in a..b : pieces[i] = <<s[i]>>)
             => F[b] = F[a - 1] \o SubSeq(s, a, b)
    <2>1. n + 1 \in Nat
      BY <1>0
    <2>2. CopiesText(F, pieces, n + 1, s)
      BY <2>1, <1>8, JoinStretch, Zenon
    <2> QED BY <2>2 DEF CopiesText
  <1>8b. \A a \in 1..(n + 1) + 1, b \in 0..n + 1 :
           a - 1 <= b /\ (\A i \in a..b : pieces[i] = <<>>) => F[b] = F[a - 1]
    <2>1. n + 1 \in Nat
      BY <1>0
    <2>2. SkipsGaps(F, pieces, n + 1)
      BY <2>1, <1>8, JoinGap, Zenon
    <2> QED BY <2>2 DEF SkipsGaps
  <1> DEFINE T == {k \in 0..K : G[k] = F[after(k) - 1]}
  <1>9. 0 \in T
    BY <1>0, <1>1, <1>6, <1>7
  <1>10. ASSUME NEW k \in 1..K, k - 1 \in T PROVE k \in T
    <2> DEFINE a == after(k - 1)
               b == spots[k]
    <2>1. /\ a \in 1..n + 1 /\ b \in 1..n /\ a <= b /\ b + w - 1 <= n
          /\ after(k) = b + w /\ b \in Int
      <3>1. k - 1 \in 0..K
        BY <1>0
      <3> QED BY <3>1, <1>0, <1>1
    <2>2. \A i \in a..b - 1 : pieces[i] = <<s[i]>>
      <3> SUFFICES ASSUME NEW i \in a..b - 1 PROVE pieces[i] = <<s[i]>>
        OBVIOUS
      <3>1. i \in 1..n + 1 /\ i <= n
        BY <2>1, <1>0
      <3>2. \A j \in DOMAIN spots : i < spots[j] \/ i >= spots[j] + w
        <4> SUFFICES ASSUME NEW j \in 1..K PROVE i < spots[j] \/ i >= spots[j] + w
          BY <1>0
        <4>1. CASE j < k
          <5>1. CASE j = k - 1
            <6>1. j # 0 /\ after(j) = spots[j] + w
              BY <5>1, <1>1
            <6> QED BY <5>1, <6>1
          <5>2. CASE j # k - 1
            <6>1. j < k - 1 /\ k - 1 \in 1..K
              BY <4>1, <5>2
            <6>2. spots[j] + w <= spots[k - 1] /\ spots[k - 1] + w = after(k - 1)
              BY <6>1, <1>0, <1>1
            <6>3. spots[j] \in Nat /\ spots[k - 1] \in Nat /\ w \in Nat
              BY <6>1, <1>0
            <6> QED BY <6>2, <6>3
          <5> QED BY <5>1, <5>2
        <4>2. CASE j = k
          BY <4>2, <2>1
        <4>3. CASE j > k
          <5>1. spots[k] + w <= spots[j] /\ spots[j] \in Nat
            BY <4>3, <1>0
          <5> QED BY <5>1, <2>1
        <4> QED BY <4>1, <4>2, <4>3
      <3>3. Piece(s, Range(spots), w, new, i) = <<s[i]>>
        <4> HIDE DEF a, b
        <4> QED BY <3>1, <3>2, PieceCases
      <3> QED BY <3>1, <3>3, <1>3
    <2>3. pieces[b] = new
      <3>1. b \in 1..n + 1
        BY <2>1
      <3>2. Piece(s, Range(spots), w, new, b) = new
        BY <3>1, <1>0, PieceCases
      <3> QED BY <3>1, <3>2, <1>3
    <2>4. \A i \in b + 1..b + w - 1 : pieces[i] = <<>>
      <3> SUFFICES ASSUME NEW i \in b + 1..b + w - 1 PROVE pieces[i] = <<>>
        OBVIOUS
      <3>1. i \in 1..n + 1 /\ i > spots[k] /\ i < spots[k] + w
        BY <2>1, <1>0
      <3>2. Piece(s, Range(spots), w, new, i) = <<>>
        <4>1. k \in DOMAIN spots
          BY <1>0
        <4> QED BY <3>1, <4>1, PieceCases
      <3> QED BY <3>1, <3>2, <1>3
    <2>5. F[b - 1] = F[a - 1] \o SubSeq(s, a, b - 1)
      <3>1. /\ a \in 1..(n + 1) + 1 /\ b - 1 \in 0..n + 1
            /\ a - 1 <= b - 1 /\ b - 1 <= n
        BY <2>1, <1>0
      <3> HIDE DEF a, b
      <3> QED BY <3>1, <2>2, <1>8a
    <2>6. F[b] = F[b - 1] \o new
      <3>1. b \in 1..n + 1
        BY <2>1, <1>0
      <3> QED BY <3>1, <2>3, <1>6
    <2>7. F[b + w - 1] = F[b]
      <3>1. /\ b + 1 \in 1..(n + 1) + 1 /\ b + w - 1 \in 0..n + 1
            /\ (b + 1) - 1 <= b + w - 1 /\ (b + 1) - 1 = b
        BY <2>1, <1>0
      <3> DEFINE c == b + w - 1
                 d == b + 1
      <3>2. /\ d \in 1..(n + 1) + 1 /\ c \in 0..n + 1 /\ d - 1 <= c
            /\ \A i \in d..c : pieces[i] = <<>>
        BY <3>1, <2>4
      <3> HIDE DEF a, b, c, d
      <3>3. F[c] = F[d - 1]
        BY <3>2, <1>8b
      <3> QED BY <3>1, <3>3 DEF c, d
    <2>8. G[k] = G[k - 1] \o (SubSeq(s, a, b - 1) \o new)
      BY <1>5, <1>7
    <2>9. G[k - 1] = F[a - 1]
      BY <1>10
    <2>10. F[a - 1] \o (SubSeq(s, a, b - 1) \o new)
             = (F[a - 1] \o SubSeq(s, a, b - 1)) \o new
      <3>1. F[a - 1] \in Seq(S) /\ SubSeq(s, a, b - 1) \in Seq(S)
        BY <2>1, <1>4, <1>0
      <3> HIDE DEF a, b
      <3>2. Associates(F[a - 1], SubSeq(s, a, b - 1), new)
        BY <3>1, Associative, Zenon
      <3> QED BY <3>2 DEF Associates
    <2>11. G[k] = F[after(k) - 1]
      <3>1. after(k) - 1 = b + w - 1
        BY <2>1
      <3> HIDE DEF a, b
      <3> QED BY <3>1, <2>5, <2>6, <2>7, <2>8, <2>9, <2>10
    <2>12. k \in 0..K
      BY <1>0
    <2> QED BY <2>11, <2>12
  <1>11. G[K] = F[after(K) - 1]
    <2>1. \A k \in 0..K : k \in T
      <3> HIDE DEF K, T
      <3> QED BY <1>0, <1>9, <1>10, Upwards, Zenon
    <2> QED BY <2>1, <1>0
  <1> DEFINE e == after(K)
  <1>12. e \in 1..n + 1
    BY <1>0, <1>1
  <1>13. F[n] = F[e - 1] \o SubSeq(s, e, n)
    <2>1. \A i \in e..n : pieces[i] = <<s[i]>>
      <3> SUFFICES ASSUME NEW i \in e..n PROVE pieces[i] = <<s[i]>>
        OBVIOUS
      <3>1. i \in 1..n + 1 /\ i <= n
        BY <1>0, <1>12
      <3>2. \A j \in DOMAIN spots : i < spots[j] \/ i >= spots[j] + w
        <4> SUFFICES ASSUME NEW j \in 1..K PROVE i >= spots[j] + w
          BY <1>0
        <4>1. K \in 1..K /\ e = spots[K] + w /\ spots[K] \in Nat /\ spots[j] \in Nat
          BY <1>0, <1>1
        <4>2. CASE j = K
          BY <4>1, <4>2
        <4>3. CASE j < K
          <5>1. spots[j] + w <= spots[K]
            BY <4>1, <4>3, <1>0
          <5> QED BY <4>1, <5>1
        <4> QED BY <4>1, <4>2, <4>3
      <3>3. Piece(s, Range(spots), w, new, i) = <<s[i]>>
        <4> HIDE DEF e
        <4> QED BY <3>1, <3>2, PieceCases
      <3> QED BY <3>1, <3>3, <1>3
    <2>2. e \in 1..(n + 1) + 1 /\ n \in 0..n + 1 /\ e - 1 <= n /\ n <= n
      BY <1>0, <1>12
    <2> HIDE DEF e
    <2> QED BY <2>1, <2>2, <1>8a
  <1>14. F[n + 1] = F[n]
    <2>1. n + 1 \in 1..n + 1 /\ (n + 1) - 1 = n
      BY <1>0
    <2>2. pieces[n + 1] = <<>>
      <3>1. Piece(s, Range(spots), w, new, n + 1) = <<>>
        BY <2>1, PieceCases
      <3> QED BY <2>1, <3>1, <1>3
    <2>3. F[n + 1] = F[n] \o <<>>
      BY <2>1, <2>2, <1>6
    <2>4. F[n] \in Seq(S)
      BY <1>0, <1>6
    <2> QED BY <2>3, <2>4, ConcatEmptySeq
  <1>15. Replaced(s, spots, w, new) = F[n + 1]
    BY <1>2, <1>7, <1>11, <1>13, <1>14
  <1>16. F[n + 1] \in Seq(S)
    <2>1. n + 1 \in 0..n + 1
      BY <1>0
    <2> QED BY <2>1, <1>6
  <1> QED BY <1>2, <1>6, <1>15, <1>16

-----------------------------------------------------------------------------
(* What an edit does to a text.                                             *)

Near(i, j, w) == i < j + w /\ j < i + w
PlacesOf(s, sub) == {i \in 1..(Len(s) + 1) - Len(sub) :
                       SubSeq(s, i, i + Len(sub) - 1) = sub}

\* P are places that do not overlap, and every other place overlaps one.
FullSet(s, sub, P) ==
  /\ P \in SUBSET PlacesOf(s, sub)
  /\ \A i, j \in P : i = j \/ ~Near(i, j, Len(sub))
  /\ \A i \in PlacesOf(s, sub) : \E j \in P : Near(i, j, Len(sub))

Exact(s, old, new, all, code, after) ==
  IF code = "ok"
  THEN \E P \in SUBSET PlacesOf(s, old) :
         /\ FullSet(s, old, P)
         /\ ~all => \A i, j \in P : i = j
         /\ after = Rewritten(s, P, Len(old), new)
  ELSE after = s

LEMMA ExactIsExact ==
  report.op = "edit" =>
    (Exact(report.args.was, report.args.old, report.args.new,
           report.args.all, report.out.code, text) => EditIsExact)
  <1> SUFFICES ASSUME report.op = "edit",
                      Exact(report.args.was, report.args.old, report.args.new,
                            report.args.all, report.out.code, text)
               PROVE  EditIsExact
    OBVIOUS
  <1> DEFINE a == report.args
             w == Len(a.old)
             Is(i) == SubSeq(a.was, i, i + w - 1) = a.old
             places == {i \in 1..(Len(a.was) + 1) - w : Is(i)}
             Meets(i, j) == i < j + w /\ j < i + w
             apart == {P \in SUBSET places :
                         \A i, j \in P : i = j \/ ~Meets(i, j)}
             full == {P \in apart :
                        \A i \in places : \E j \in P : Meets(i, j)}
  <1>1. CASE report.out.code = "ok"
    <2>1. PICK P \in SUBSET PlacesOf(a.was, a.old) :
                 /\ FullSet(a.was, a.old, P)
                 /\ ~a.all => \A i, j \in P : i = j
                 /\ text = Rewritten(a.was, P, w, a.new)
      BY <1>1 DEF Exact
    <2>2. P \in full
      <3>1. P \in SUBSET places
        BY DEF PlacesOf
      <3>2. \A i, j \in P : i = j \/ ~Meets(i, j)
        BY <2>1 DEF FullSet, Near
      <3>3. \A i \in places : \E j \in P : Meets(i, j)
        BY <2>1 DEF FullSet, Near, PlacesOf
      <3> QED BY <3>1, <3>2, <3>3
    <2> QED BY <1>1, <2>1, <2>2 DEF EditIsExact
  <1>2. CASE report.out.code # "ok"
    BY <1>2 DEF EditIsExact, Exact
  <1> QED BY <1>1, <1>2

LEMMA PlacesAreFull ==
  ASSUME NEW S, NEW s \in Seq(S), NEW sub \in Seq(S), sub # <<>>,
         NEW spots, spots = Occurrences(s, sub)
  PROVE  /\ Apart(spots, Len(sub), Len(s))
         /\ FullSet(s, sub, Range(spots))
  <1> DEFINE w == Len(sub)
             P == Range(spots)
  <1>1. PlacesFrom(s, sub, spots, 1)
    BY OccurrencesFound
  <1>2. w \in Nat /\ w >= 1 /\ Len(s) \in Nat
    BY EmptySeq, LenProperties
  <1>3. /\ spots \in Seq(Nat)
        /\ \A j \in DOMAIN spots : /\ spots[j] \in Nat /\ spots[j] >= 1
                                /\ Occurs(s, sub, spots[j])
        /\ \A j, k \in DOMAIN spots : j < k => spots[j] + w <= spots[k]
        /\ DOMAIN spots \subseteq Nat
    <2>1. spots \in Seq(Nat)
      BY <1>1 DEF PlacesFrom
    <2> QED BY <1>1, <2>1 DEF PlacesFrom
  <1>4. Apart(spots, w, Len(s))
    BY <1>3 DEF Apart, Occurs
  <1>5. P = {spots[j] : j \in DOMAIN spots}
    BY DEF Range
  <1>6. P \in SUBSET PlacesOf(s, sub)
    <2> SUFFICES ASSUME NEW j \in DOMAIN spots PROVE spots[j] \in PlacesOf(s, sub)
      BY <1>5
    <2>1. spots[j] \in 1..(Len(s) + 1) - w
      BY <1>2, <1>3 DEF Occurs
    <2>2. SubSeq(s, spots[j], spots[j] + w - 1) = sub
      BY <1>3 DEF Occurs
    <2> QED BY <2>1, <2>2 DEF PlacesOf
  <1>7. \A i, j \in P : i = j \/ ~Near(i, j, w)
    <2> SUFFICES ASSUME NEW i \in DOMAIN spots, NEW j \in DOMAIN spots
                 PROVE  spots[i] = spots[j] \/ ~Near(spots[i], spots[j], w)
      BY <1>5
    <2>1. CASE i < j
      <3>1. spots[i] + w <= spots[j]
        BY <2>1, <1>3
      <3> QED BY <3>1, <1>2, <1>3 DEF Near
    <2>2. CASE j < i
      <3>1. spots[j] + w <= spots[i]
        BY <2>2, <1>3
      <3> QED BY <3>1, <1>2, <1>3 DEF Near
    <2>3. CASE i = j
      BY <2>3
    <2> QED BY <2>1, <2>2, <2>3, <1>3
  <1>8. \A i \in PlacesOf(s, sub) : \E j \in P : Near(i, j, w)
    <2> SUFFICES ASSUME NEW i \in PlacesOf(s, sub)
                 PROVE  \E j \in P : Near(i, j, w)
      OBVIOUS
    <2>1. i \in 1..(Len(s) + 1) - w /\ SubSeq(s, i, i + w - 1) = sub
      BY DEF PlacesOf
    <2>2. i \in Nat /\ i >= 1 /\ Occurs(s, sub, i)
      BY <2>1, <1>2 DEF Occurs
    <2>3. PICK j \in DOMAIN spots : spots[j] <= i /\ i < spots[j] + w
      BY <2>2, <1>1 DEF PlacesFrom
    <2>4. spots[j] < i + w
      BY <2>2, <2>3, <1>2, <1>3
    <2>5. spots[j] \in P
      BY <1>5
    <2>6. Near(i, spots[j], w)
      BY <2>3, <2>4 DEF Near
    <2> QED BY <2>5, <2>6
  <1> QED BY <1>4, <1>6, <1>7, <1>8 DEF FullSet

LEMMA EditsExactly ==
  ASSUME NEW s \in Seq(Char), NEW old \in Seq(Char), NEW new \in Seq(Char),
         NEW all \in BOOLEAN
  PROVE  LET res == Edit(s, old, new, all)
         IN  /\ res.text \in Seq(Char)
             /\ Exact(s, old, new, all, res.code, res.text)
  <1> DEFINE spots == Occurrences(s, old)
             res == Edit(s, old, new, all)
  <1>1. ASSUME NEW code, NEW lines, code # "ok",
               res = Refused(s, code, lines)
        PROVE  res.text \in Seq(Char)
               /\ Exact(s, old, new, all, res.code, res.text)
    <2>1. res.text = s /\ res.code = code
      BY <1>1 DEF Refused
    <2> QED BY <1>1, <2>1 DEF Exact
  <1>2. CASE old = <<>> \/ old = new
    <2>1. res = Refused(s, "invalid_args", <<>>)
      BY <1>2 DEF Edit
    <2> HIDE DEF res
    <2>2. /\ res.text \in Seq(Char)
          /\ Exact(s, old, new, all, res.code, res.text)
      BY <2>1, <1>1
    <2> QED BY <2>2 DEF res
  <1>3. CASE old # <<>> /\ old # new /\ spots = <<>>
    <2>1. res = Refused(s, "no_match", <<NearestLine(s, old)>>)
      BY <1>3 DEF Edit
    <2> HIDE DEF res
    <2>2. /\ res.text \in Seq(Char)
          /\ Exact(s, old, new, all, res.code, res.text)
      BY <2>1, <1>1
    <2> QED BY <2>2 DEF res
  <1>4. ASSUME old # <<>>, old # new, spots # <<>>
        PROVE  res.text \in Seq(Char)
               /\ Exact(s, old, new, all, res.code, res.text)
    <2> DEFINE w == Len(old)
    <2>1. Apart(spots, w, Len(s)) /\ FullSet(s, old, Range(spots))
      BY <1>4, PlacesAreFull
    <2>2. w \in Nat \ {0} /\ spots \in Seq(Nat) /\ Len(spots) \in Nat \ {0}
      <3>1. w \in Nat \ {0}
        BY <1>4, EmptySeq
      <3>2. spots \in Seq(Nat)
        BY <2>1 DEF Apart
      <3> QED BY <3>1, <3>2, <1>4, EmptySeq
    <2>3. CASE Len(spots) > 1 /\ ~all
      <3>1. res = Refused(s, "ambiguous",
                          [k \in DOMAIN spots |-> LineOf(s, spots[k])])
        BY <1>4, <2>3 DEF Edit
      <3> HIDE DEF res
      <3> QED BY <3>1, <1>1
    <2>4. CASE ~(Len(spots) > 1 /\ ~all)
      <3>1. res = Edited(s, old, new, all)
        BY <1>4, <2>4 DEF Edit
      <3>2. /\ res.code = "ok"
            /\ res.text = Replaced(s, IF all THEN spots ELSE <<spots[1]>>, w, new)
        BY <3>1 DEF Edited
      <3> HIDE DEF res, spots
      <3>3. ~all => Len(spots) = 1
        <4> SUFFICES ASSUME ~all PROVE Len(spots) = 1
          OBVIOUS
        <4>1. ~(Len(spots) > 1)
          BY <2>4, Zenon
        <4>2. Len(spots) \in Nat /\ Len(spots) # 0
          BY <2>2
        <4>3. \A m \in Nat : m # 0 /\ ~(m > 1) => m = 1
          OBVIOUS
        <4> QED BY <4>1, <4>2, <4>3, Zenon
      <3>4. (IF all THEN spots ELSE <<spots[1]>>) = spots
        BY <2>2, <3>3
      <3>5. res.text = Replaced(s, spots, w, new)
        BY <3>2, <3>4
      <3>6. /\ Replaced(s, spots, w, new) = Rewritten(s, Range(spots), w, new)
            /\ Replaced(s, spots, w, new) \in Seq(Char)
        BY <2>1, <2>2, ReplacedIsRewritten
      <3>7. ~all => \A i, j \in Range(spots) : i = j
        <4>1. Range(spots) = {spots[k] : k \in DOMAIN spots} /\ DOMAIN spots = 1..Len(spots)
          BY <2>2, LenProperties DEF Range
        <4> QED BY <3>3, <4>1
      <3>8. Range(spots) \in SUBSET PlacesOf(s, old)
        BY <2>1 DEF FullSet
      <3> HIDE DEF w
      <3> QED BY <3>2, <3>5, <3>6, <3>7, <3>8, <2>1 DEF Exact, w
    <2> QED BY <2>3, <2>4
  <1> QED BY <1>2, <1>3, <1>4

\* The text stays a text, and what an edit reports is what it did to it.
EditSound == text \in Seq(Char) /\ EditIsExact

LEMMA EditSoundKept == EditSound /\ [FileToolsNext]_fileVars => EditSound'
  <1> SUFFICES ASSUME EditSound, [FileToolsNext]_fileVars PROVE EditSound'
    OBVIOUS
  <1>1. ASSUME NEW old \in OldTexts, NEW new \in NewTexts, NEW all \in BOOLEAN,
               EditCall(old, new, all)
        PROVE  EditSound'
    <2> DEFINE res == Edit(text, old, new, all)
    <2>1. text \in Seq(Char) /\ old \in Seq(Char) /\ new \in Seq(Char)
      BY FileToolsAssumption DEF EditSound
    <2>2. /\ res.text \in Seq(Char)
          /\ Exact(text, old, new, all, res.code, res.text)
      BY <2>1, EditsExactly
    <2>3. /\ text' = res.text
          /\ report' = Told("edit", [was |-> text, old |-> old, new |-> new,
                                     all |-> all], res)
      BY <1>1 DEF EditCall
    <2> HIDE DEF res
    <2>4. /\ report'.op = "edit" /\ report'.out = res
          /\ report'.args.was = text /\ report'.args.old = old
          /\ report'.args.new = new /\ report'.args.all = all
      BY <2>3 DEF Told
    <2>5. Exact(report'.args.was, report'.args.old, report'.args.new,
                report'.args.all, report'.out.code, text')
      BY <2>2, <2>3, <2>4
    <2>6. (report.op = "edit" =>
            (Exact(report.args.was, report.args.old, report.args.new,
                   report.args.all, report.out.code, text) => EditIsExact))'
      BY ExactIsExact, PTL
    <2>7. EditIsExact'
      BY <2>4, <2>5, <2>6
    <2> QED BY <2>2, <2>3, <2>7 DEF EditSound
  <1>2. ASSUME text' = text, report'.op # "edit"
        PROVE  EditSound'
    BY <1>2 DEF EditSound, EditIsExact
  <1>3. CASE UNCHANGED fileVars
    BY <1>3 DEF EditSound, EditIsExact, fileVars
  <1>4. ASSUME NEW offset \in 0..MaxText, NEW limit \in 0..2,
               ReadCall(offset, limit)
        PROVE  EditSound'
    BY <1>2, <1>4 DEF ReadCall, Told
  <1>5. ASSUME NEW start, NEW pattern, NEW limit,
               GlobCall(start, pattern, limit)
        PROVE  EditSound'
    BY <1>2, <1>5 DEF GlobCall, Told
  <1>6. ASSUME NEW start, NEW glob, NEW limit, NEW filesOnly,
               GrepCall(start, "x", glob, limit, filesOnly)
        PROVE  EditSound'
    BY <1>2, <1>6 DEF GrepCall, Told
  <1>7. ASSUME NEW lines \in IgnoreFiles, WriteIgnore(lines)
        PROVE  EditSound'
    BY <1>2, <1>7 DEF WriteIgnore, Nothing, Told
  <1>8. CASE Deliver
    BY <1>2, <1>8 DEF Deliver, Nothing, Told
  <1>9. CASE Adopt
    BY <1>2, <1>9 DEF Adopt, Nothing, Told
  <1> QED
    BY <1>1, <1>3, <1>4, <1>5, <1>6, <1>7, <1>8, <1>9 DEF FileToolsNext

\* An edit changes the text it was told to and nothing else: with replace_all
\* every place it finds, and none is left over; without, the only one; and a
\* refused edit leaves the file as it was (edit.go:151-176).
THEOREM EditsAreExact == FileToolsSpec => []EditIsExact
  <1>1. FileToolsInit => EditSound
    BY FileToolsAssumption
    DEF FileToolsInit, EditSound, EditIsExact, Nothing, Told
  <1>2. EditSound => EditIsExact
    BY DEF EditSound
  <1> QED BY <1>1, <1>2, EditSoundKept, PTL DEF FileToolsSpec

-----------------------------------------------------------------------------
(* Lines and pages.                                                         *)

IsSeq(s) == s \in Seq({s[i] : i \in DOMAIN s})

LEMMA MaxIsMax ==
  ASSUME NEW T \in SUBSET Nat, T # {}, NEW b \in Nat, \A m \in T : m <= b
  PROVE  Max(T) \in T /\ \A m \in T : m <= Max(T)
  <1>1. PICK n \in T : \A m \in T : m <= n
    BY NatMax
  <1>2. \A m \in T : n >= m
    BY <1>1
  <1>3. Max(T) \in T /\ \A m \in T : Max(T) >= m
    BY <1>2 DEF Max
  <1> QED BY <1>3

LEMMA WithoutReturnsText ==
  ASSUME NEW s \in Seq(Char)
  PROVE  WithoutReturns(s) \in Seq(Char)
  <1> DEFINE pieces == [i \in DOMAIN s |->
                         IF s[i] = "return" /\ i < Len(s)
                              /\ s[i + 1] = "newline"
                         THEN <<>> ELSE <<s[i]>>]
  <1>1. DOMAIN s = 1..Len(s) /\ Len(s) \in Nat
    BY LenProperties
  <1>2. \A i \in DOMAIN s : <<s[i]>> \in Seq(Char) /\ <<>> \in Seq(Char)
    OBVIOUS
  <1>3. pieces \in Seq(Seq(Char))
    BY <1>1, <1>2
  <1>4. WithoutReturns(s) = FlattenSeq(pieces)
    BY DEF WithoutReturns
  <1> HIDE DEF pieces
  <1>5. PICK F \in [0..Len(pieces) -> Seq(Char)] :
               FlattenSeq(pieces) = F[Len(pieces)]
    BY <1>3, Flattening
  <1>6. Len(pieces) \in 0..Len(pieces)
    BY <1>3, LenProperties
  <1> QED BY <1>4, <1>5, <1>6

LEMMA BodyText ==
  ASSUME NEW s \in Seq(Char)
  PROVE  Body(s) \in Seq(Char)
  <1>1. CASE s # <<>> /\ Last(s) = "newline"
    <2>1. Len(s) \in Nat /\ \A i \in 1..Len(s) - 1 : s[i] \in Char
      OBVIOUS
    <2>2. SubSeq(s, 1, Len(s) - 1) \in Seq(Char)
      BY <2>1, SubSeqProperties
    <2> QED BY <1>1, <2>2 DEF Body, Front
  <1>2. CASE ~(s # <<>> /\ Last(s) = "newline")
    BY <1>2 DEF Body
  <1> QED BY <1>1, <1>2

LEMMA SplitLinesSeq ==
  ASSUME NEW s \in Seq(Char)
  PROVE  IsSeq(SplitLines(s))
  <1>1. CASE s = <<>>
    <2>1. SplitLines(s) = <<>>
      BY <1>1 DEF SplitLines
    <2> QED BY <2>1 DEF IsSeq
  <1>2. CASE s # <<>>
    <2> DEFINE b == Body(WithoutReturns(s))
               E == {i \in DOMAIN b : b[i] = "newline"} \cup {Len(b) + 1}
               lines == LinesIn(b)
    <2>1. b \in Seq(Char)
      BY WithoutReturnsText, BodyText
    <2>2. SplitLines(s) = lines
      BY <1>2 DEF SplitLines
    <2> HIDE DEF b
    <2>3. IsFiniteSet(E)
      <3>1. DOMAIN b = 1..Len(b) /\ Len(b) \in Nat
        BY <2>1, LenProperties
      <3>2. E \subseteq 1..Len(b) + 1
        BY <3>1
      <3>3. IsFiniteSet(1..Len(b) + 1)
        BY <3>1, FS_Interval
      <3> HIDE DEF E
      <3> QED BY <3>2, <3>3, FS_Subset
    <2>4. Cardinality(E) \in Nat
      BY <2>3, FS_CardinalityType
    <2>5. DOMAIN lines = 1..Cardinality(E)
      BY DEF LinesIn, InOrder
    <2>6. lines = [k \in DOMAIN lines |-> lines[k]]
      BY DEF LinesIn
    <2> HIDE DEF lines, E
    <2>7. IsSeq(lines)
      BY <2>4, <2>5, <2>6 DEF IsSeq
    <2> QED BY <2>2, <2>7
  <1> QED BY <1>1, <1>2

LEMMA IsSeqLen ==
  ASSUME NEW s, IsSeq(s)
  PROVE  /\ Len(s) \in Nat /\ DOMAIN s = 1..Len(s)
         /\ s = [i \in 1..Len(s) |-> s[i]]
  BY LenProperties DEF IsSeq

\* A page shows the m lines from offset on, and one of them at least if there
\* is any.
ShowsLines(all, offset, most) ==
  \E m \in 0..most :
    /\ PageOf(all, offset, most)
         = [k \in 1..m |-> ClipRunes(all[offset + k - 1])]
    /\ m >= 1 => offset + m - 1 <= Len(all)
    /\ offset <= Len(all) => m >= 1

LEMMA PageShows ==
  ASSUME NEW all, IsSeq(all), NEW offset \in Nat \ {0}, NEW most \in Nat \ {0}
  PROVE  ShowsLines(all, offset, most)
  <1> DEFINE used == CHOOSE used :
               used = [k \in 0..Len(all) |->
                        IF k = 0 THEN 0
                        ELSE used[k - 1]
                               + Size(ClipRunes(all[offset + k - 1]))]
             Taken(m) == \A k \in 1..m :
                           offset + k - 1 <= Len(all) /\ Fits(k, used[k])
             T == {m \in 0..most : Taken(m)}
  <1>1. PageOf(all, offset, most)
          = [k \in 1..Max(T) |-> ClipRunes(all[offset + k - 1])]
    BY DEF PageOf
  <1> HIDE DEF used
  <1>2. Len(all) \in Nat
    BY IsSeqLen
  <1>3. 0 \in T
    OBVIOUS
  <1>4. Max(T) \in T /\ \A m \in T : m <= Max(T)
    <2> HIDE DEF Taken
    <2>1. T \in SUBSET Nat /\ T # {} /\ \A m \in T : m <= most
      BY <1>3
    <2> HIDE DEF T
    <2> QED BY <2>1, MaxIsMax
  <1>5. Max(T) >= 1 => offset + Max(T) - 1 <= Len(all)
    <2>1. Max(T) \in 0..most /\ Taken(Max(T))
      BY <1>4
    <2> DEFINE n == Max(T)
    <2> HIDE DEF T, n
    <2>2. n \in 0..most /\ \A k \in 1..n : offset + k - 1 <= Len(all)
      BY <2>1 DEF n
    <2>3. n >= 1 => offset + n - 1 <= Len(all)
      BY <2>2
    <2> QED BY <2>3 DEF n
  <1>6. offset <= Len(all) => Max(T) >= 1
    <2> SUFFICES ASSUME offset <= Len(all) PROVE 1 \in T
      BY <1>4
    <2>1. Taken(1)
      BY <1>2 DEF Fits
    <2> QED BY <2>1
  <1>7. Max(T) \in 0..most
    BY <1>4
  <1> HIDE DEF T
  <1> QED BY <1>1, <1>5, <1>6, <1>7 DEF ShowsLines

LEMMA ShownSeq ==
  ASSUME text \in Seq(Char)
  PROVE  /\ IsSeq(SplitLines(text)) /\ IsSeq(Shown)
         /\ Len(Shown) = Len(SplitLines(text))
         /\ \A i \in 1..Len(Shown) : Shown[i] = ClipRunes(SplitLines(text)[i])
  <1> DEFINE all == SplitLines(text)
  <1>1. IsSeq(all)
    BY SplitLinesSeq
  <1>2. Shown = [i \in DOMAIN all |-> ClipRunes(all[i])]
    BY DEF Shown
  <1> HIDE DEF all
  <1>3. Len(all) \in Nat /\ DOMAIN all = 1..Len(all)
    BY <1>1, IsSeqLen
  <1>4. IsSeq(Shown) /\ Len(Shown) = Len(all)
        /\ \A i \in 1..Len(all) : Shown[i] = ClipRunes(all[i])
    BY <1>2, <1>3 DEF IsSeq
  <1> QED BY <1>1, <1>4 DEF all

\* What a page is when it starts at o: m lines of the file from there on.
ShowsFrom(view, o) ==
  \E m \in Nat :
    /\ view.offset = o
    /\ view.lines = [k \in 1..m |-> Shown[o + k - 1]]
    /\ m >= 1 => o + m - 1 <= Len(Shown)
    /\ o <= Len(Shown) => m >= 1
    /\ view.truncated <=> o - 1 + m < Len(Shown)

LEMMA ViewShows ==
  ASSUME text \in Seq(Char), NEW offset \in Nat, NEW limit \in Nat,
         NEW view, view = BuildView(text, offset, limit),
         NEW o, o = IF offset = 0 THEN 1 ELSE offset
  PROVE  ShowsFrom(view, o)
  <1> DEFINE all == SplitLines(text)
             most == IF limit \in 1..MaxLines THEN limit ELSE MaxLines
  <1>1. Max({offset, 1}) = o
    <2>1. {offset, 1} \in SUBSET Nat /\ {offset, 1} # {}
          /\ offset + 1 \in Nat /\ \A m \in {offset, 1} : m <= offset + 1
      OBVIOUS
    <2>2. Max({offset, 1}) \in {offset, 1}
          /\ \A m \in {offset, 1} : m <= Max({offset, 1})
      <3> DEFINE T == {offset, 1}
      <3>1. T \in SUBSET Nat /\ T # {} /\ offset + 1 \in Nat
            /\ \A m \in T : m <= offset + 1
        BY <2>1
      <3> HIDE DEF T
      <3>2. Max(T) \in T /\ \A m \in T : m <= Max(T)
        BY <3>1, MaxIsMax
      <3> QED BY <3>2 DEF T
    <2> QED BY <2>2
  <1>2. /\ view.offset = o
        /\ view.lines = PageOf(all, o, most)
        /\ view.truncated <=> o - 1 + Len(view.lines) < Len(all)
    BY <1>1 DEF BuildView
  <1>3. most \in Nat \ {0} /\ o \in Nat \ {0}
    BY TextAssumption
  <1>4. /\ IsSeq(all) /\ Len(Shown) = Len(all)
        /\ \A i \in 1..Len(Shown) : Shown[i] = ClipRunes(all[i])
    BY ShownSeq
  <1>5. Len(all) \in Nat
    BY <1>4, IsSeqLen
  <1> HIDE DEF all, most
  <1>6. PICK m \in 0..most :
           /\ PageOf(all, o, most) = [k \in 1..m |-> ClipRunes(all[o + k - 1])]
           /\ m >= 1 => o + m - 1 <= Len(all)
           /\ o <= Len(all) => m >= 1
    <2>1. ShowsLines(all, o, most)
      BY <1>3, <1>4, PageShows, Zenon
    <2> QED BY <2>1 DEF ShowsLines
  <1>7. \A k \in 1..m : ClipRunes(all[o + k - 1]) = Shown[o + k - 1]
    <2> SUFFICES ASSUME NEW k \in 1..m
                 PROVE  ClipRunes(all[o + k - 1]) = Shown[o + k - 1]
      OBVIOUS
    <2>1. o + k - 1 \in 1..Len(Shown)
      BY <1>3, <1>4, <1>5, <1>6
    <2> QED BY <2>1, <1>4
  <1>8. view.lines = [k \in 1..m |-> Shown[o + k - 1]]
    BY <1>2, <1>6, <1>7
  <1>9. Len(view.lines) = m
    BY <1>3, <1>6, <1>8
  <1>10. m \in Nat
    BY <1>3
  <1> QED BY <1>2, <1>4, <1>6, <1>8, <1>9, <1>10 DEF ShowsFrom

\* The first n lines that read shows.
FirstLines(n) == [k \in 1..n |-> Shown[k]]

LEMMA FirstThenPage ==
  ASSUME NEW n \in Nat, NEW m \in Nat
  PROVE  /\ FirstLines(n) \o [k \in 1..m |-> Shown[n + k]] = FirstLines(n + m)
         /\ Len(FirstLines(n)) = n
  BY DEF FirstLines

LEMMA AllLines ==
  ASSUME text \in Seq(Char)
  PROVE  /\ FirstLines(Len(Shown)) = Shown
         /\ FirstLines(0) = <<>>
         /\ Len(Shown) \in Nat
         /\ \A n \in 0..Len(Shown) : IsPrefix(FirstLines(n), Shown)
  <1> HIDE DEF Shown
  <1>1. /\ Len(Shown) \in Nat
        /\ Shown = [i \in 1..Len(Shown) |-> Shown[i]]
    BY ShownSeq, IsSeqLen
  <1>2. FirstLines(Len(Shown)) = Shown /\ FirstLines(0) = <<>>
    BY <1>1 DEF FirstLines
  <1>3. ASSUME NEW n \in 0..Len(Shown) PROVE IsPrefix(FirstLines(n), Shown)
    <2>1. Len(FirstLines(n)) = n
      BY FirstThenPage
    <2>2. SubSeq(FirstLines(n), 1, n) = SubSeq(Shown, 1, n)
      <3>1. \A k \in 1..n : FirstLines(n)[k] = Shown[k]
        BY DEF FirstLines
      <3> QED BY <3>1, <1>1
    <2> QED BY <1>1, <2>1, <2>2 DEF IsPrefix
  <1> QED BY <1>1, <1>2, <1>3

\* What was shown since the first page is the beginning of the file, and the
\* next page starts behind it.
PagedOK ==
  \E n \in 0..Len(Shown) :
    /\ paged.lines = FirstLines(n)
    /\ paged.next = 0 \/ paged.next = n + 1
    /\ paged # NoPages /\ paged.next = 0 => n = Len(Shown)

ReportOK ==
  report.op = "read" /\ report.out.truncated
    => NextOffset(report.out) > report.out.offset

ReadingSound == text \in Seq(Char) /\ PagedOK /\ ReportOK

LEMMA NoPagesOK ==
  ASSUME text \in Seq(Char), paged = NoPages
  PROVE  PagedOK
  <1>1. Len(Shown) \in Nat /\ FirstLines(0) = <<>>
    BY AllLines
  <1>2. 0 \in 0..Len(Shown)
    BY <1>1
  <1>3. paged.lines = FirstLines(0) /\ paged.next = 0
    BY <1>1 DEF NoPages
  <1> QED BY <1>2, <1>3 DEF PagedOK

LEMMA ReadKeeps ==
  ASSUME ReadingSound, NEW offset \in Nat, NEW limit \in Nat,
         ReadCall(offset, limit)
  PROVE  ReadingSound'
  <1> DEFINE view == BuildView(text, offset, limit)
             before == IF offset \in {0, 1} THEN <<>> ELSE paged.lines
             o == IF offset = 0 THEN 1 ELSE offset
  <1>1. /\ text' = text
        /\ report' = Told("read", <<offset, limit>>, view)
        /\ paged' = IF offset \in {0, 1, paged.next}
                    THEN [lines |-> before \o view.lines,
                          next |-> NextOffset(view)]
                    ELSE NoPages
    BY DEF ReadCall
  <1>2. text \in Seq(Char) /\ text' \in Seq(Char)
    BY <1>1 DEF ReadingSound
  <1>3. PICK m \in Nat :
           /\ view.offset = o
           /\ view.lines = [k \in 1..m |-> Shown[o + k - 1]]
           /\ m >= 1 => o + m - 1 <= Len(Shown)
           /\ o <= Len(Shown) => m >= 1
           /\ view.truncated <=> o - 1 + m < Len(Shown)
    <2> HIDE DEF view, o
    <2>1. view = BuildView(text, offset, limit)
          /\ o = IF offset = 0 THEN 1 ELSE offset
      BY DEF view, o
    <2>2. ShowsFrom(view, o)
      BY <1>2, <2>1, ViewShows, Zenon
    <2> QED BY <2>2 DEF ShowsFrom
  <1> HIDE DEF view
  <1>4. Len(Shown) \in Nat /\ FirstLines(0) = <<>> /\ o \in Nat /\ o >= 1
    BY <1>2, AllLines
  <1>5. Len(view.lines) = m
    BY <1>3
  <1>6. Shown' = Shown /\ \A n \in Nat : FirstLines(n)' = FirstLines(n)
    BY <1>1 DEF Shown, FirstLines
  <1>7. view.truncated => NextOffset(view) = o + m /\ m >= 1
    <2> SUFFICES ASSUME view.truncated PROVE NextOffset(view) = o + m /\ m >= 1
      OBVIOUS
    <2>1. NextOffset(view) = o + m
      BY <1>3, <1>5 DEF NextOffset
    <2>2. o - 1 + m < Len(Shown)
      BY <1>3
    <2> HIDE DEF o
    <2>3. o <= Len(Shown)
      BY <2>2, <1>4
    <2> QED BY <2>1, <2>3, <1>3
  <1>8. ReportOK'
    <2>1. report'.out = view
      BY <1>1 DEF Told
    <2>2. view.truncated => NextOffset(view) > view.offset
      BY <1>3, <1>4, <1>7
    <2> QED BY <2>1, <2>2 DEF ReportOK, NextOffset
  <1>9. CASE offset \in {0, 1, paged.next}
    <2>1. PICK n \in 0..Len(Shown) : before = FirstLines(n) /\ n = o - 1
      <3>1. CASE offset \in {0, 1}
        <4>1. before = FirstLines(0) /\ 0 \in 0..Len(Shown) /\ 0 = o - 1
          BY <3>1, <1>4
        <4> HIDE DEF before, o
        <4> QED BY <4>1
      <3>2. CASE offset \notin {0, 1}
        <4>1. before = paged.lines /\ o = offset /\ offset = paged.next
          BY <3>2, <1>9
        <4>2. PICK n \in 0..Len(Shown) :
                 /\ paged.lines = FirstLines(n)
                 /\ paged.next = 0 \/ paged.next = n + 1
          BY DEF ReadingSound, PagedOK
        <4>3. n = o - 1
          BY <3>2, <4>1, <4>2
        <4> HIDE DEF before, o
        <4> QED BY <4>1, <4>2, <4>3
      <3> QED BY <3>1, <3>2
    <2> HIDE DEF before, o
    <2>2. n \in Nat /\ o = n + 1
      BY <2>1, <1>4
    <2>3. view.lines = [k \in 1..m |-> Shown[n + k]]
      <3>1. \A k \in 1..m : o + k - 1 = n + k
        BY <2>2
      <3> QED BY <3>1, <1>3
    <2>4. before \o view.lines = FirstLines(n + m)
      BY <2>1, <2>2, <2>3, FirstThenPage
    <2>5. n + m \in 0..Len(Shown)
      <3>1. m = 0 \/ m >= 1
        OBVIOUS
      <3> QED BY <3>1, <2>1, <2>2, <1>3, <1>4
    <2>6. /\ paged'.lines = FirstLines(n + m)
          /\ paged'.next = NextOffset(view)
      BY <1>1, <1>9, <2>4
    <2>7. ASSUME view.truncated PROVE PagedOK'
      <3>1. paged'.next = (n + m) + 1 /\ paged'.next # 0
        BY <2>2, <2>6, <2>7, <1>7
      <3> QED BY <2>2, <2>5, <2>6, <3>1, <1>6 DEF PagedOK
    <2>8. ASSUME ~view.truncated PROVE PagedOK'
      <3>1. paged'.next = 0
        BY <2>6, <2>8 DEF NextOffset
      <3>2. n + m = Len(Shown)
        <4>1. ~(o - 1 + m < Len(Shown))
          BY <2>8, <1>3
        <4> QED BY <4>1, <2>2, <2>5, <1>4
      <3> QED BY <2>2, <2>5, <2>6, <3>1, <3>2, <1>6 DEF PagedOK
    <2>9. PagedOK'
      BY <2>7, <2>8
    <2> QED BY <2>9, <1>2, <1>8 DEF ReadingSound
  <1>10. CASE offset \notin {0, 1, paged.next}
    <2>1. paged' = NoPages /\ NoPages' = NoPages
      BY <1>1, <1>10 DEF NoPages
    <2>2. (text \in Seq(Char) /\ paged = NoPages => PagedOK)'
      BY NoPagesOK, PTL
    <2> QED BY <2>1, <2>2, <1>2, <1>8 DEF ReadingSound
  <1> QED BY <1>9, <1>10

LEMMA ReadingKept ==
  ReadingSound /\ EditSound /\ [FileToolsNext]_fileVars => ReadingSound'
  <1> SUFFICES ASSUME ReadingSound, EditSound, [FileToolsNext]_fileVars
               PROVE  ReadingSound'
    OBVIOUS
  <1>1. text' \in Seq(Char)
    BY EditSoundKept DEF EditSound
  <1>2. ASSUME paged' = NoPages, report'.op # "read" PROVE ReadingSound'
    <2>1. (text \in Seq(Char) /\ paged = NoPages => PagedOK)'
      BY NoPagesOK, PTL
    <2>2. NoPages' = NoPages
      BY DEF NoPages
    <2> QED BY <1>1, <1>2, <2>1, <2>2 DEF ReadingSound, ReportOK
  <1>3. ASSUME text' = text, paged' = paged,
               report' = report \/ report'.op # "read"
        PROVE  ReadingSound'
    <2>1. PagedOK'
      <3>1. Shown' = Shown
        BY <1>3 DEF Shown
      <3>2. \A n \in Nat : FirstLines(n)' = FirstLines(n)
        BY <3>1 DEF FirstLines
      <3>3. NoPages' = NoPages
        BY DEF NoPages
      <3>4. PICK n \in 0..Len(Shown) :
              /\ paged.lines = FirstLines(n)
              /\ paged.next = 0 \/ paged.next = n + 1
              /\ paged # NoPages /\ paged.next = 0 => n = Len(Shown)
        BY DEF ReadingSound, PagedOK
      <3>5. n \in Nat
        OBVIOUS
      <3> QED BY <1>3, <3>1, <3>2, <3>3, <3>4, <3>5 DEF PagedOK
    <2>2. ReportOK'
      BY <1>3 DEF ReadingSound, ReportOK, NextOffset
    <2> QED BY <1>1, <2>1, <2>2 DEF ReadingSound
  <1>4. CASE UNCHANGED fileVars
    BY <1>3, <1>4 DEF fileVars
  <1>5. ASSUME NEW offset \in 0..MaxText, NEW limit \in 0..2,
               ReadCall(offset, limit)
        PROVE  ReadingSound'
    BY <1>5, ReadKeeps
  <1>6. ASSUME NEW old, NEW new, NEW all, EditCall(old, new, all)
        PROVE  ReadingSound'
    BY <1>2, <1>6 DEF EditCall, Told
  <1>7. ASSUME NEW start, NEW pattern, NEW limit,
               GlobCall(start, pattern, limit)
        PROVE  ReadingSound'
    BY <1>2, <1>7 DEF GlobCall, Told
  <1>8. ASSUME NEW start, NEW glob, NEW limit, NEW filesOnly,
               GrepCall(start, "x", glob, limit, filesOnly)
        PROVE  ReadingSound'
    BY <1>2, <1>8 DEF GrepCall, Told
  <1>9. ASSUME NEW lines \in IgnoreFiles, WriteIgnore(lines)
        PROVE  ReadingSound'
    BY <1>2, <1>9 DEF WriteIgnore, Nothing, Told
  <1>10. CASE Deliver
    BY <1>3, <1>10 DEF Deliver, Nothing, Told
  <1>11. CASE Adopt
    BY <1>2, <1>11 DEF Adopt, Nothing, Told
  <1> QED
    BY <1>4, <1>5, <1>6, <1>7, <1>8, <1>9, <1>10, <1>11 DEF FileToolsNext

\* Following the offsets that read gives shows every line of the file once and
\* in order, and every page moves on, for any text, any limits and any edits
\* and searches in between (truncate.go:46-105).
THEOREM ReadingIsComplete == FileToolsSpec => []ReadingShowsAll
  <1>1. FileToolsInit => EditSound /\ ReadingSound
    <2> SUFFICES ASSUME FileToolsInit PROVE EditSound /\ ReadingSound
      OBVIOUS
    <2>1. text \in Seq(Char) /\ paged = NoPages /\ report.op = "none"
      BY FileToolsAssumption DEF FileToolsInit, Nothing, Told
    <2>2. PagedOK
      BY <2>1, NoPagesOK
    <2> QED
      BY <2>1, <2>2 DEF EditSound, EditIsExact, ReadingSound, ReportOK
  <1>2. ReadingSound => ReadingShowsAll
    <2> SUFFICES ASSUME ReadingSound PROVE ReadingShowsAll
      OBVIOUS
    <2>1. PICK n \in 0..Len(Shown) :
            /\ paged.lines = FirstLines(n)
            /\ paged # NoPages /\ paged.next = 0 => n = Len(Shown)
      BY DEF ReadingSound, PagedOK
    <2>2. /\ IsPrefix(FirstLines(n), Shown)
          /\ FirstLines(Len(Shown)) = Shown
      BY AllLines DEF ReadingSound
    <2> QED BY <2>1, <2>2 DEF ReadingSound, ReportOK, ReadingShowsAll
  <1> QED BY <1>1, <1>2, EditSoundKept, ReadingKept, PTL DEF FileToolsSpec

-----------------------------------------------------------------------------
(* Streams: what an item's lines do to the decoder, one by one.  An item is *)
(* received when its last line is, or when the end of the response shows   *)
(* that it was the last.                                                   *)

NoErrors(items) == \A i \in DOMAIN items : ~items[i].error

LEMMA AppendIsSeq ==
  ASSUME NEW s, IsSeq(s), NEW x
  PROVE  /\ IsSeq(Append(s, x))
         /\ Append(s, x) # <<>>
         /\ Len(Append(s, x)) = Len(s) + 1
         /\ Len(s) \in Nat
         /\ Append(s, x)[Len(s) + 1] = x
         /\ Last(Append(s, x)) = x
         /\ Front(Append(s, x)) = s
         /\ DOMAIN Append(s, x) = 1..Len(s) + 1
         /\ DOMAIN s = 1..Len(s)
         /\ \A i \in 1..Len(s) : Append(s, x)[i] = s[i]
  <1> DEFINE S == {s[i] : i \in DOMAIN s} \cup {x}
             T == {Append(s, x)[i] : i \in DOMAIN Append(s, x)}
  <1>1. s \in Seq(S)
    <2>1. \A i \in 1..Len(s) : s[i] \in S
      BY DEF IsSeq
    <2> HIDE DEF S
    <2> QED BY <2>1 DEF IsSeq
  <1>3. /\ Append(s, x) \in Seq(S)
        /\ Len(Append(s, x)) = Len(s) + 1
        /\ Len(s) \in Nat
        /\ Append(s, x)[Len(s) + 1] = x
        /\ \A i \in 1..Len(s) : Append(s, x)[i] = s[i]
        /\ DOMAIN Append(s, x) = 1..Len(s) + 1
        /\ DOMAIN s = 1..Len(s)
    <2> x \in S
      OBVIOUS
    <2> HIDE DEF S
    <2> QED BY <1>1
  <1>4. IsSeq(Append(s, x))
    <2>1. \A i \in 1..Len(Append(s, x)) : Append(s, x)[i] \in T
      BY <1>3
    <2> HIDE DEF S, T
    <2>2. Append(s, x) \in Seq(T)
      BY <1>3, <2>1
    <2> QED BY <2>2 DEF T, IsSeq
  <1>5. Front(Append(s, x)) = s
    <2>1. Front(Append(s, x)) = [i \in 1..Len(s) |-> Append(s, x)[i]]
      BY <1>3 DEF Front, SubSeq
    <2>2. s = [i \in 1..Len(s) |-> s[i]]
      BY DEF IsSeq
    <2> QED BY <1>3, <2>1, <2>2
  <1> QED BY <1>3, <1>4, <1>5 DEF Last

\* The first k pieces of item n, which has `of`, and the lines with the others.
Heard(n, k, of) == [j \in 1..k |-> Part(n, j, of)]

Rest(n, k, of) ==
  Append([j \in 1..of - k |-> DataLine(Part(n, k + j, of))], BlankLine)

\* Between two items, after the sentinel, and inside an item.
Waiting == got = sent /\ out = <<>> /\ dec.data = <<>>

Ending ==
  /\ phase = "done" /\ framing = "sse"
  /\ got = sent /\ dec.format = "sse" /\ dec.data = <<DonePiece>>
  /\ out \in {<<>>, <<BlankLine>>}

Midway(k, of) ==
  /\ framing = "sse" /\ dec.format = "sse"
  /\ sent # <<>> /\ got = Front(sent)
  /\ k <= of /\ dec.data = Heard(Len(sent), k, of)
  /\ out = IF open THEN Rest(Len(sent), k, of) ELSE <<>>

Underway ==
  \/ Waiting
  \/ Ending
  \/ \E k \in 1..MaxEvent, of \in 1..MaxEvent + 1 : Midway(k, of)

\* The inductive invariant.
StreamOK ==
  /\ framing \in {"sse", "ndjson"}
  /\ open \in BOOLEAN
  /\ IsSeq(sent)
  /\ dec.format \in {"auto", framing}
  /\ dec = Decoder(dec.format, dec.data)
  /\ NoErrors(got)
  /\ verdict \in {"reading", "eof", "failed", "malformed", "too large"}
  /\ verdict = "reading" => Underway
  /\ verdict = "eof" => got = sent
  /\ verdict \in {"failed", "malformed", "too large"}
       => sent # <<>> /\ got = Front(sent)
  /\ verdict = "failed" => Last(sent).error
  /\ verdict = "malformed" => ~open

LEMMA StreamInitOK == StreamInit => StreamOK
  <1> SUFFICES ASSUME StreamInit PROVE StreamOK
    OBVIOUS
  <1>1. IsSeq(sent)
    BY DEF StreamInit, IsSeq
  <1>2. Waiting
    BY DEF StreamInit, Waiting, NewDecoder, Decoder
  <1> QED BY <1>1, <1>2
          DEF StreamInit, StreamOK, NewDecoder, Decoder, Underway, NoErrors

LEMMA PartIsNotDone ==
  ASSUME NEW n \in Nat, NEW k \in Nat, NEW of \in Nat
  PROVE  Part(n, k, of) # DonePiece
  BY ProviderAssumption DEF Part

LEMMA FrontAndLast ==
  ASSUME NEW s, IsSeq(s), s # <<>>
  PROVE  /\ Append(Front(s), s[Len(s)]) = s
         /\ Last(s) = s[Len(s)]
         /\ Len(s) \in Nat \ {0}
         /\ DOMAIN s = 1..Len(s)
         /\ DOMAIN Front(s) = 1..Len(s) - 1
         /\ Len(Front(s)) = Len(s) - 1
         /\ \A i \in 1..Len(s) - 1 : Front(s)[i] = s[i]
  <1> DEFINE S == {s[i] : i \in DOMAIN s}
  <1>0. s \in Seq(S)
    BY DEF IsSeq
  <1> HIDE DEF S
  <1>1. /\ Len(s) \in Nat \ {0}
        /\ s \in [1..Len(s) -> S]
    BY <1>0
  <1>2. Front(s) = [i \in 1..Len(s) - 1 |-> s[i]]
    BY <1>1 DEF Front, SubSeq
  <1>3. /\ Front(s) \in Seq(S)
        /\ Len(Front(s)) = Len(s) - 1
    <2>1. Front(s) \in [1..Len(s) - 1 -> S]
      BY <1>1, <1>2
    <2>2. Len(s) - 1 \in Nat
      BY <1>1
    <2> QED BY <2>1, <2>2, SeqDef, LenProperties
  <1>4. s[Len(s)] \in S
    BY <1>1
  <1>5. /\ Append(Front(s), s[Len(s)]) \in Seq(S)
        /\ Len(Append(Front(s), s[Len(s)])) = Len(s)
        /\ \A i \in 1..Len(s) : Append(Front(s), s[Len(s)])[i] = s[i]
    BY <1>1, <1>2, <1>3, <1>4
  <1>6. Append(Front(s), s[Len(s)]) = s
    BY <1>1, <1>5, <1>0, SeqEqual, Zenon
  <1> QED BY <1>1, <1>2, <1>3, <1>6 DEF Last, IsSeq

\* What NextLine does with each kind of line.
LEMMA LineIsRead ==
  ASSUME NEW f \in {"auto", "sse", "ndjson"}, NEW data, NEW line,
         NEW g \in {"auto", "sse", "ndjson"},
         g = IF f = "auto" THEN Sniff(line) ELSE f
  PROVE  NextLine(Decoder(f, data), line) =
           CASE g = "auto" -> Decoder(f, data)
             [] g = "ndjson" -> NextNDJSON(Decoder(g, data), line)
             [] g = "sse" -> NextSSE(Decoder(g, data), line)
  <1>1. [Decoder(f, data) EXCEPT !.format = g] = Decoder(g, data)
    BY DEF Decoder
  <1>2. Decoder(f, data).format = f
    BY DEF Decoder
  <1> QED BY <1>1, <1>2 DEF NextLine

LEMMA DataLineIsRead ==
  ASSUME NEW f \in {"auto", "sse"}, NEW data, NEW p
  PROVE  NextLine(Decoder(f, data), DataLine(p)) =
           IF Len(data) < MaxEvent THEN Decoder("sse", Append(data, p))
           ELSE Says(Decoder("sse", data), "too large")
  <1>1. /\ DataLine(p).kind = "data" /\ DataLine(p).piece = p
        /\ Sniff(DataLine(p)) = "sse"
    BY DEF DataLine, Sniff
  <1>2. \A x : [Decoder("sse", data) EXCEPT !.data = x] = Decoder("sse", x)
    BY DEF Decoder
  <1>3. NextLine(Decoder(f, data), DataLine(p))
          = NextSSE(Decoder("sse", data), DataLine(p))
    BY <1>1, LineIsRead
  <1>4. Decoder("sse", data).data = data
    BY DEF Decoder
  <1> QED BY <1>1, <1>2, <1>3, <1>4 DEF NextSSE

LEMMA BlankIsRead ==
  ASSUME NEW data, NEW p
  PROVE  NextLine(Decoder("sse", data), [kind |-> "blank", piece |-> p]) =
           IF data # <<>> /\ data # <<DonePiece>>
           THEN Yields(Decoder("sse", data), data) ELSE Decoder("sse", data)
  <1> DEFINE line == [kind |-> "blank", piece |-> p]
  <1>1. NextLine(Decoder("sse", data), line)
          = NextSSE(Decoder("sse", data), line)
    BY LineIsRead
  <1>2. Decoder("sse", data).data = data
    BY DEF Decoder
  <1>3. NextSSE(Decoder("sse", data), line) =
          IF Flushes(Decoder("sse", data))
          THEN Yields(Decoder("sse", data), Decoder("sse", data).data)
          ELSE Decoder("sse", data)
    BY DEF NextSSE
  <1>4. Flushes(Decoder("sse", data)) <=> data # <<>> /\ data # <<DonePiece>>
    BY <1>2 DEF Flushes, IsDone
  <1> QED BY <1>1, <1>2, <1>3, <1>4

LEMMA JsonIsRead ==
  ASSUME NEW f \in {"auto", "ndjson"}, NEW data, NEW p
  PROVE  NextLine(Decoder(f, data), [kind |-> "json", piece |-> p]) =
           IF p = DonePiece THEN Says(Decoder("ndjson", data), "eof")
           ELSE Yields(Decoder("ndjson", data), <<p>>)
  <1> DEFINE line == [kind |-> "json", piece |-> p]
  <1>1. IsDone(<<p>>) <=> p = DonePiece
    BY DEF IsDone
  <1>2. Sniff(line) = "ndjson"
    BY DEF Sniff
  <1>3. NextLine(Decoder(f, data), line)
          = NextNDJSON(Decoder("ndjson", data), line)
    BY <1>2, LineIsRead
  <1> QED BY <1>1, <1>3 DEF NextNDJSON

\* Filler changes nothing but, at most, what the framing is known to be.
LEMMA FillerIsRead ==
  ASSUME NEW data, NEW p, NEW f \in {"auto", "sse"},
         NEW kind \in {"blank", "comment", "field"},
         kind = "blank" => data \in {<<>>, <<DonePiece>>}
  PROVE  \E g \in {"auto", "sse"} :
           /\ NextLine(Decoder(f, data), [kind |-> kind, piece |-> p])
                = Decoder(g, data)
           /\ f = "sse" => g = "sse"
  <1> DEFINE line == [kind |-> kind, piece |-> p]
             g == IF f = "auto" THEN Sniff(line) ELSE f
  <1>1. Sniff(line) = IF kind = "blank" THEN "auto" ELSE "sse"
    BY DEF Sniff
  <1>2. g \in {"auto", "sse"} /\ (f = "sse" => g = "sse")
    BY <1>1
  <1>3. NextSSE(Decoder("sse", data), line) = Decoder("sse", data)
    <2>1. Decoder("sse", data).data = data
      BY DEF Decoder
    <2>2. kind = "blank" => ~Flushes(Decoder("sse", data))
      BY <2>1 DEF Flushes, IsDone
    <2> QED BY <2>2 DEF NextSSE
  <1>4. CASE g = "auto"
    <2>1. NextLine(Decoder(f, data), line) = Decoder(f, data)
      BY <1>4, LineIsRead
    <2> QED BY <2>1
  <1>5. CASE g = "sse"
    <2>1. NextLine(Decoder(f, data), line) = NextSSE(Decoder("sse", data), line)
      BY <1>5, LineIsRead
    <2> QED BY <1>3, <2>1
  <1> QED BY <1>2, <1>4, <1>5

\* What Recv does with the pieces of the last item: a whole one is returned,
\* unless it says that the provider failed.
LEMMA PiecesAreReceived ==
  ASSUME NEW items, IsSeq(items), items # <<>>, got = Front(items),
         NEW k \in Nat \ {0}, NEW of \in Nat \ {0},
         NEW f, NEW data, NEW payload,
         payload = Heard(Len(items), k, of),
         Recv(Yields(Decoder(f, data), payload), items)
  PROVE  /\ dec' = Decoder(f, <<>>)
         /\ k = of /\ ~items[Len(items)].error
              => got' = items /\ verdict' = verdict
         /\ k = of /\ items[Len(items)].error
              => got' = got /\ verdict' = "failed"
         /\ k # of => got' = got /\ verdict' = "malformed"
  <1> DEFINE d == Yields(Decoder(f, data), payload)
             n == Len(items)
  <1>1. /\ d.says = "payload" /\ d.payload = payload
        /\ Again(d) = Decoder(f, <<>>)
    BY DEF Yields, Again, Decoder
  <1>2. /\ DOMAIN payload = 1..k /\ Len(payload) = k
        /\ \A j \in 1..k : payload[j] = Part(n, j, of)
    BY DEF Heard
  <1>3. n \in Nat \ {0} /\ Append(got, items[n]) = items
    BY FrontAndLast
  <1>4. payload[1] = Part(n, 1, of) /\ payload[1].item = n
    BY <1>2 DEF Part
  <1>5. Whole(payload) <=> k = of
    <2>1. \A j \in 1..k : Part(n, j, of) = Part(n, j, k) <=> k = of
      BY DEF Part
    <2> QED BY <1>2, <1>4, <2>1 DEF Whole
  <1> HIDE DEF d, n
  <1>6. Recv(d, items) =>
          /\ dec' = Again(d)
          /\ ~Whole(payload) => verdict' = "malformed" /\ got' = got
          /\ Whole(payload) /\ items[n].error
               => verdict' = "failed" /\ got' = got
          /\ Whole(payload) /\ ~items[n].error
               => got' = Append(got, items[n]) /\ verdict' = verdict
    BY <1>1, <1>4 DEF Recv
  <1> QED BY <1>1, <1>3, <1>5, <1>6 DEF d, n

LEMMA NothingIsReceived ==
  ASSUME NEW items, NEW f, NEW data, Recv(Decoder(f, data), items)
  PROVE  dec' = Decoder(f, data) /\ got' = got /\ verdict' = verdict
  <1>1. Decoder(f, data).says = "reading"
    BY DEF Decoder
  <1> QED BY <1>1 DEF Recv

LEMMA EndIsReceived ==
  ASSUME NEW items, NEW f, NEW data, NEW what \in {"eof", "too large"},
         Recv(Says(Decoder(f, data), what), items)
  PROVE  dec' = Decoder(f, <<>>) /\ got' = got /\ verdict' = what
  <1> DEFINE d == Says(Decoder(f, data), what)
  <1>1. d.says = what /\ Again(d) = Decoder(f, <<>>)
    BY DEF Says, Again, Decoder
  <1> HIDE DEF d
  <1>2. Recv(d, items) => dec' = Again(d) /\ got' = got /\ verdict' = what
    BY <1>1 DEF Recv
  <1> QED BY <1>1, <1>2 DEF d

LEMMA NoErrorAtLast ==
  ASSUME NEW s, IsSeq(s), s # <<>>, NoErrors(Front(s)), ~s[Len(s)].error
  PROVE  NoErrors(s)
  <1> SUFFICES ASSUME NEW i \in DOMAIN s, i # Len(s) PROVE ~s[i].error
    BY DEF NoErrors
  <1>1. /\ i \in 1..Len(s) - 1 /\ DOMAIN Front(s) = 1..Len(s) - 1
        /\ Front(s)[i] = s[i]
    BY FrontAndLast
  <1> QED BY <1>1 DEF NoErrors

\* The conjuncts of the invariant that a step of the stream leaves to be shown.
Settled ==
  /\ verdict = "reading" => Underway
  /\ verdict = "eof" => got = sent
  /\ verdict \in {"failed", "malformed", "too large"}
       => sent # <<>> /\ got = Front(sent)
  /\ verdict = "failed" => Last(sent).error
  /\ verdict = "malformed" => ~open

LEMMA StreamOKHolds ==
  ASSUME StreamOK, UNCHANGED fixed, open' \in BOOLEAN, IsSeq(sent)',
         NEW f \in {"auto", framing}, NEW data, dec' = Decoder(f, data),
         got' = got \/ NoErrors(got)',
         verdict' \in {"reading", "eof", "failed", "malformed", "too large"},
         Settled'
  PROVE  StreamOK'
  <1>1. dec'.format = f /\ dec' = Decoder(dec'.format, dec'.data)
    BY DEF Decoder
  <1>2. NoErrors(got)'
    BY DEF StreamOK, NoErrors
  <1> QED BY <1>1, <1>2 DEF StreamOK, Settled, fixed

LEMMA LengthZero ==
  ASSUME NEW S, NEW s \in Seq(S), Len(s) = 0
  PROVE  s = <<>>
  OBVIOUS

LEMMA RestFacts ==
  ASSUME NEW n \in Nat, NEW k \in Nat, NEW of \in Nat, k <= of
  PROVE  /\ Rest(n, k, of) # <<>>
         /\ Head(Rest(n, k, of)) =
              IF k < of THEN DataLine(Part(n, k + 1, of)) ELSE BlankLine
         /\ Tail(Rest(n, k, of)) =
              IF k < of THEN Rest(n, k + 1, of) ELSE <<>>
  <1> DEFINE L == {DataLine(Part(n, j, of)) : j \in 1..of} \cup {BlankLine}
             more(i) == [j \in 1..of - i |-> DataLine(Part(n, i + j, of))]
  <1>1. ASSUME NEW i \in Nat, i <= of
        PROVE  /\ Rest(n, i, of) \in Seq(L)
               /\ Len(Rest(n, i, of)) = of - i + 1
               /\ \A j \in 1..of - i :
                    Rest(n, i, of)[j] = DataLine(Part(n, i + j, of))
               /\ Rest(n, i, of)[of - i + 1] = BlankLine
    <2>1. of - i \in Nat /\ \A j \in 1..of - i : i + j \in 1..of
      BY <1>1
    <2>2. more(i) \in [1..of - i -> L]
      BY <2>1
    <2>3. more(i) \in Seq(L) /\ Len(more(i)) = of - i
      <3> HIDE DEF more, L
      <3> QED BY <2>1, <2>2, SeqDef, LenProperties
    <2>4. BlankLine \in L
      OBVIOUS
    <2>5. \A j \in 1..of - i : more(i)[j] = DataLine(Part(n, i + j, of))
      OBVIOUS
    <2>6. Rest(n, i, of) = Append(more(i), BlankLine)
      BY DEF Rest
    <2> HIDE DEF more, L
    <2>7. /\ Append(more(i), BlankLine) \in Seq(L)
          /\ Len(Append(more(i), BlankLine)) = of - i + 1
          /\ \A j \in 1..of - i : Append(more(i), BlankLine)[j] = more(i)[j]
          /\ Append(more(i), BlankLine)[of - i + 1] = BlankLine
      BY <2>3, <2>4, AppendProperties
    <2> QED BY <2>5, <2>6, <2>7
  <1> HIDE DEF L
  <1>2. /\ Rest(n, k, of) # <<>>
        /\ Head(Rest(n, k, of)) = Rest(n, k, of)[1]
        /\ Tail(Rest(n, k, of)) \in Seq(L)
        /\ Len(Tail(Rest(n, k, of))) = of - k
        /\ \A j \in 1..of - k : Tail(Rest(n, k, of))[j] = Rest(n, k, of)[j + 1]
    BY <1>1, HeadTailProperties
  <1>3. CASE k < of
    <2> DEFINE m == k + 1
    <2>1. m \in Nat /\ m <= of /\ of - m + 1 = of - k
      BY <1>3
    <2>2. /\ Rest(n, k + 1, of) \in Seq(L)
          /\ Len(Rest(n, k + 1, of)) = of - k
          /\ \A j \in 1..of - (k + 1) :
               Rest(n, k + 1, of)[j] = DataLine(Part(n, k + 1 + j, of))
          /\ Rest(n, k + 1, of)[of - k] = BlankLine
      <3> HIDE DEF m
      <3>1. /\ Rest(n, m, of) \in Seq(L)
            /\ Len(Rest(n, m, of)) = of - m + 1
            /\ \A j \in 1..of - m :
                 Rest(n, m, of)[j] = DataLine(Part(n, m + j, of))
            /\ Rest(n, m, of)[of - m + 1] = BlankLine
        BY <1>1, <2>1, Zenon
      <3> QED BY <2>1, <3>1 DEF m
    <2>3. ASSUME NEW j \in 1..of - k
          PROVE  Tail(Rest(n, k, of))[j] = Rest(n, k + 1, of)[j]
      <3>1. CASE j = of - k
        BY <1>1, <1>2, <2>2, <3>1
      <3>2. CASE j # of - k
        <4>1. j \in 1..of - (k + 1) /\ j + 1 \in 1..of - k
              /\ k + (j + 1) = k + 1 + j
          BY <3>2
        <4>2. Rest(n, k, of)[j + 1] = DataLine(Part(n, k + (j + 1), of))
          BY <1>1, <4>1
        <4> QED BY <1>2, <2>2, <4>1, <4>2
      <3> QED BY <3>1, <3>2
    <2>4. Tail(Rest(n, k, of)) = Rest(n, k + 1, of)
      BY <1>2, <2>2, <2>3, SeqEqual
    <2>5. Rest(n, k, of)[1] = DataLine(Part(n, k + 1, of))
      BY <1>1, <1>3
    <2> QED BY <1>2, <1>3, <2>4, <2>5
  <1>4. CASE k = of
    <2>1. Rest(n, k, of)[1] = BlankLine
      BY <1>1, <1>4
    <2>2. Tail(Rest(n, k, of)) = <<>>
      <3>1. Tail(Rest(n, k, of)) \in Seq(L) /\ Len(Tail(Rest(n, k, of))) = 0
        BY <1>2, <1>4
      <3> QED BY <3>1, LengthZero, Zenon
    <2> QED BY <1>2, <1>4, <2>1, <2>2
  <1> QED BY <1>3, <1>4

\* An open stream that may be said more of is between two items.
LEMMA MayBegin ==
  ASSUME StreamOK, Reading, out = <<>>, phase # "done"
  PROVE  /\ Waiting /\ framing \in {"sse", "ndjson"}
         /\ NoErrors(sent) /\ IsSeq(sent) /\ Len(sent) \in Nat
         /\ dec.format \in {"auto", framing}
         /\ dec = Decoder(dec.format, <<>>)
  <1>1. ASSUME NEW k \in 1..MaxEvent, NEW of \in 1..MaxEvent + 1, Midway(k, of)
        PROVE  FALSE
    <2>1. k \in Nat /\ of \in Nat /\ k <= of /\ Len(sent) \in Nat
      <3>1. k \in Nat /\ of \in Nat
        BY DecoderAssumption
      <3>2. Len(sent) \in Nat
        BY LenProperties DEF StreamOK, IsSeq
      <3> QED BY <1>1, <3>1, <3>2 DEF Midway
    <2> QED BY <1>1, <2>1, RestFacts DEF Midway, Reading
  <1>2. Waiting
    BY <1>1 DEF StreamOK, Underway, Ending, Reading
  <1>3. Len(sent) \in Nat
    BY LenProperties DEF StreamOK, IsSeq
  <1> QED BY <1>2, <1>3 DEF StreamOK, Waiting

LEMMA SayKeeps ==
  ASSUME StreamOK, NEW item, NEW next, Say(item, next), phase # "done"
  PROVE  StreamOK'
  <1> USE MayBegin
  <1>1. /\ Reading /\ out = <<>> /\ sent' = Append(sent, item)
        /\ UNCHANGED <<fixed, open>>
    BY DEF Say
  <1>2. /\ IsSeq(sent') /\ sent' # <<>> /\ Len(sent') = Len(sent) + 1
        /\ sent'[Len(sent')] = item /\ Last(sent') = item
        /\ Front(sent') = sent
    BY <1>1, AppendIsSeq
  <1>3. got = Front(sent') /\ got = sent
    BY <1>1, <1>2 DEF Waiting
  <1>4. CASE framing = "sse"
    <2>1. PICK of \in 1..MaxEvent + 1 :
            /\ out' = Tail(Rest(Len(sent) + 1, 0, of))
            /\ Recv(NextLine(dec, Head(Rest(Len(sent) + 1, 0, of))), sent')
      <3>1. \A of \in 1..MaxEvent + 1 :
              Append([k \in 1..of |-> DataLine(Part(Len(sent) + 1, k, of))],
                     BlankLine)
                = Rest(Len(sent) + 1, 0, of)
        BY DecoderAssumption DEF Rest
      <3> QED BY <1>4, <3>1 DEF Say, Framed
    <2>2. /\ Head(Rest(Len(sent'), 0, of)) = DataLine(Part(Len(sent'), 1, of))
          /\ Tail(Rest(Len(sent'), 0, of)) = Rest(Len(sent'), 1, of)
      <3>1. Len(sent') \in Nat /\ of \in Nat /\ 0 \in Nat /\ 0 < of /\ 0 <= of
        BY <1>1, <1>2, DecoderAssumption
      <3>2. 0 + 1 = 1
        OBVIOUS
      <3>3. /\ Head(Rest(Len(sent'), 0, of)) = DataLine(Part(Len(sent'), 0 + 1, of))
            /\ Tail(Rest(Len(sent'), 0, of)) = Rest(Len(sent'), 0 + 1, of)
        BY <3>1, RestFacts, Zenon
      <3> QED BY <3>2, <3>3
    <2>3. NextLine(dec, DataLine(Part(Len(sent'), 1, of)))
            = Decoder("sse", Heard(Len(sent'), 1, of))
      <3>1. Append(<<>>, Part(Len(sent'), 1, of)) = Heard(Len(sent'), 1, of)
        BY DEF Heard
      <3>2. Len(<<>>) < MaxEvent
        BY DecoderAssumption
      <3> QED BY <1>1, <1>4, <3>1, <3>2, DataLineIsRead
    <2>4. /\ dec' = Decoder("sse", Heard(Len(sent'), 1, of))
          /\ got' = got /\ verdict' = verdict
      BY <1>2, <2>1, <2>2, <2>3, NothingIsReceived
    <2>5. Midway(1, of)'
      BY <1>1, <1>2, <1>3, <1>4, <2>1, <2>2, <2>4
         DEF Midway, fixed, Decoder, Reading
    <2>6. Settled'
      BY <1>1, <2>1, <2>4, <2>5, DecoderAssumption
         DEF Settled, Underway, Reading
    <2> QED BY <1>1, <1>2, <1>4, <2>4, <2>6, StreamOKHolds DEF Reading
  <1>5. CASE framing = "ndjson"
    <2> DEFINE p == Part(Len(sent'), 1, 1)
    <2>1. /\ out' = Tail(<<[kind |-> "json", piece |-> p]>>)
          /\ Recv(NextLine(dec, [kind |-> "json", piece |-> p]), sent')
      <3>1. Framed(Len(sent) + 1) = {<<[kind |-> "json", piece |-> p]>>}
        BY <1>2, <1>5 DEF Framed
      <3>2. Head(<<[kind |-> "json", piece |-> p]>>)
              = [kind |-> "json", piece |-> p]
        OBVIOUS
      <3> HIDE DEF p
      <3> QED BY <3>1, <3>2 DEF Say
    <2>2. NextLine(dec, [kind |-> "json", piece |-> p])
            = Yields(Decoder("ndjson", <<>>), <<p>>)
      BY <1>1, <1>2, <1>5, JsonIsRead, PartIsNotDone
    <2>3. <<p>> = Heard(Len(sent'), 1, 1)
      BY DEF Heard
    <2>4. /\ dec' = Decoder("ndjson", <<>>)
          /\ ~item.error => got' = sent' /\ verdict' = verdict
          /\ item.error => got' = got /\ verdict' = "failed"
      <3>1. Recv(Yields(Decoder("ndjson", <<>>), <<p>>), sent')
        BY <2>1, <2>2
      <3>2. 1 \in Nat \ {0}
        OBVIOUS
      <3> HIDE DEF p
      <3>3. /\ dec' = Decoder("ndjson", <<>>)
            /\ 1 = 1 /\ ~sent'[Len(sent')].error
                 => got' = sent' /\ verdict' = verdict
            /\ 1 = 1 /\ sent'[Len(sent')].error
                 => got' = got /\ verdict' = "failed"
        BY <1>2, <1>3, <2>3, <3>1, <3>2, PiecesAreReceived
      <3> QED BY <1>2, <3>3
    <2>5. out' = <<>>
      BY <2>1
    <2>6. CASE item.error
      <3>1. Settled'
        BY <1>2, <1>3, <2>4, <2>6 DEF Settled
      <3> QED BY <1>1, <1>2, <1>5, <2>4, <2>6, <3>1, StreamOKHolds DEF Reading
    <2>7. CASE ~item.error
      <3>1. Settled'
        BY <1>1, <2>4, <2>5, <2>7
           DEF Settled, Underway, Waiting, Decoder, Reading
      <3>2. NoErrors(sent')
        BY <1>1, <1>2, <2>7, NoErrorAtLast
      <3> QED BY <1>1, <1>2, <1>5, <2>4, <2>7, <3>1, <3>2, StreamOKHolds
              DEF Reading
    <2> QED BY <2>6, <2>7
  <1> QED BY <1>1, <1>4, <1>5

LEMMA SayDoneKeeps ==
  ASSUME StreamOK, SayDone
  PROVE  StreamOK'
  <1>1. /\ Reading /\ out = <<>> /\ phase # "done" /\ phase' = "done"
        /\ UNCHANGED <<fixed, open, sent>>
    BY DEF SayDone
  <1> USE <1>1, MayBegin
  <1>2. got = sent /\ IsSeq(sent')
    BY DEF Waiting
  <1>3. CASE framing = "sse"
    <2>1. /\ out' = Tail(<<DataLine(DonePiece), BlankLine>>)
          /\ Recv(NextLine(dec, Head(<<DataLine(DonePiece), BlankLine>>)), sent)
      BY <1>3 DEF SayDone, Sentinel
    <2>2. /\ Tail(<<DataLine(DonePiece), BlankLine>>) = <<BlankLine>>
          /\ Head(<<DataLine(DonePiece), BlankLine>>) = DataLine(DonePiece)
      OBVIOUS
    <2>3. NextLine(dec, DataLine(DonePiece)) = Decoder("sse", <<DonePiece>>)
      <3>1. Append(<<>>, DonePiece) = <<DonePiece>> /\ Len(<<>>) < MaxEvent
        BY DecoderAssumption
      <3> QED BY <1>3, <3>1, DataLineIsRead
    <2>4. /\ dec' = Decoder("sse", <<DonePiece>>)
          /\ got' = got /\ verdict' = verdict
      BY <2>1, <2>2, <2>3, NothingIsReceived
    <2>5. Ending'
      BY <1>2, <1>3, <2>1, <2>2, <2>4 DEF Ending, fixed, Decoder
    <2>6. Settled'
      BY <2>4, <2>5 DEF Settled, Underway, Reading
    <2> QED BY <1>2, <1>3, <2>4, <2>6, StreamOKHolds DEF Reading
  <1>4. CASE framing = "ndjson"
    <2>1. /\ out' = Tail(<<[kind |-> "json", piece |-> DonePiece]>>)
          /\ Recv(NextLine(dec, [kind |-> "json", piece |-> DonePiece]), sent)
      BY <1>4 DEF SayDone, Sentinel
    <2>2. NextLine(dec, [kind |-> "json", piece |-> DonePiece])
            = Says(Decoder("ndjson", <<>>), "eof")
      BY <1>4, JsonIsRead
    <2>3. dec' = Decoder("ndjson", <<>>) /\ got' = got /\ verdict' = "eof"
      BY <2>1, <2>2, EndIsReceived
    <2>4. Settled'
      BY <1>2, <2>3 DEF Settled
    <2> QED BY <1>2, <1>4, <2>3, <2>4, StreamOKHolds DEF Reading
  <1> QED BY <1>3, <1>4

\* A line of an item: another piece of it, one too many, or its end.
LEMMA NextOutKeeps ==
  ASSUME StreamOK, NextOut
  PROVE  StreamOK'
  <1>1. /\ Reading /\ out # <<>> /\ out' = Tail(out)
        /\ Recv(NextLine(dec, Head(out)), sent)
        /\ UNCHANGED <<fixed, open, sent, phase>>
    BY DEF NextOut
  <1>2. /\ IsSeq(sent) /\ IsSeq(sent') /\ open /\ verdict = "reading"
        /\ dec = Decoder(dec.format, dec.data) /\ open' = TRUE
    BY <1>1 DEF StreamOK, Reading
  <1>3. CASE Ending
    <2>1. /\ out = <<BlankLine>> /\ Head(out) = BlankLine /\ Tail(out) = <<>>
          /\ dec = Decoder("sse", <<DonePiece>>)
      BY <1>1, <1>2, <1>3 DEF Ending
    <2>2. NextLine(dec, BlankLine) = Decoder("sse", <<DonePiece>>)
      BY <2>1, BlankIsRead DEF BlankLine
    <2>3. /\ dec' = Decoder("sse", <<DonePiece>>)
          /\ got' = got /\ verdict' = verdict
      BY <1>1, <2>1, <2>2, NothingIsReceived
    <2>4. Ending'
      BY <1>1, <1>3, <2>1, <2>3 DEF Ending, fixed, Decoder
    <2>5. Settled'
      BY <1>2, <2>3, <2>4 DEF Settled, Underway
    <2>6. framing = "sse"
      BY <1>3 DEF Ending
    <2> QED BY <1>1, <1>2, <2>3, <2>5, <2>6, StreamOKHolds
  <1>4. ASSUME NEW k \in 1..MaxEvent, NEW of \in 1..MaxEvent + 1, Midway(k, of)
        PROVE  StreamOK'
    <2> DEFINE n == Len(sent)
               heard == Heard(n, k, of)
    <2>1. /\ framing = "sse" /\ sent # <<>> /\ got = Front(sent) /\ k <= of
          /\ dec = Decoder("sse", heard) /\ out = Rest(n, k, of)
      BY <1>2, <1>4 DEF Midway
    <2>2. k \in Nat \ {0} /\ of \in Nat \ {0} /\ n \in Nat \ {0}
      BY <1>2, <2>1, DecoderAssumption, FrontAndLast
    <2>3. /\ Len(heard) = k /\ heard # <<>> /\ heard # <<DonePiece>>
          /\ k < of => Append(heard, Part(n, k + 1, of)) = Heard(n, k + 1, of)
      <3>1. Heard(n, k, of) \in Seq({Part(n, j, of) : j \in 1..of})
        BY <2>1, <2>2 DEF Heard
      <3>2. Len(heard) = k
        BY <2>2 DEF Heard
      <3>3. heard[1] = Part(n, 1, of) /\ <<DonePiece>>[1] = DonePiece
        BY <2>2 DEF Heard
      <3>4. heard # <<DonePiece>>
        BY <2>2, <3>3, PartIsNotDone
      <3>5. ASSUME k < of
            PROVE  Append(heard, Part(n, k + 1, of)) = Heard(n, k + 1, of)
        BY <2>2, <3>1, <3>2, <3>5 DEF Heard
      <3> QED BY <2>2, <3>2, <3>4, <3>5
    <2> HIDE DEF heard
    <2>4. CASE k = of
      <3>1. Head(out) = BlankLine /\ Tail(out) = <<>>
        <4>1. /\ n \in Nat /\ k \in Nat /\ of \in Nat /\ k <= of
              /\ ~(k < of) /\ out = Rest(n, k, of)
          BY <2>1, <2>2, <2>4
        <4> QED BY <4>1, RestFacts
      <3>2. NextLine(dec, BlankLine) = Yields(Decoder("sse", heard), heard)
        BY <2>1, <2>3, BlankIsRead DEF BlankLine
      <3>3. Recv(Yields(Decoder("sse", heard), heard), sent)
        BY <1>1, <3>1, <3>2
      <3>4. /\ dec' = Decoder("sse", <<>>)
            /\ ~sent[n].error => got' = sent /\ verdict' = verdict
            /\ sent[n].error => got' = got /\ verdict' = "failed"
        BY <1>2, <2>1, <2>2, <2>4, <3>3, PiecesAreReceived DEF heard
      <3>5. CASE sent[n].error
        <4>1. Settled'
          BY <1>1, <1>2, <2>1, <3>4, <3>5, FrontAndLast DEF Settled
        <4> QED BY <1>1, <1>2, <2>1, <3>4, <3>5, <4>1, StreamOKHolds
      <3>6. CASE ~sent[n].error
        <4>1. Waiting'
          BY <1>1, <3>1, <3>4, <3>6 DEF Waiting, Decoder
        <4>2. Settled'
          BY <1>2, <3>4, <3>6, <4>1 DEF Settled, Underway
        <4>3. NoErrors(sent)
          BY <1>2, <2>1, <3>6, NoErrorAtLast DEF StreamOK
        <4> QED BY <1>1, <1>2, <2>1, <3>4, <3>6, <4>2, <4>3, StreamOKHolds
      <3> QED BY <3>5, <3>6
    <2>5. CASE k < of
      <3>1. /\ Head(out) = DataLine(Part(n, k + 1, of))
            /\ Tail(out) = Rest(n, k + 1, of)
        BY <2>1, <2>2, <2>5, RestFacts
      <3>2. CASE k < MaxEvent
        <4>1. NextLine(dec, Head(out)) = Decoder("sse", Heard(n, k + 1, of))
          BY <2>1, <2>3, <2>5, <3>1, <3>2, DataLineIsRead
        <4>2. /\ dec' = Decoder("sse", Heard(n, k + 1, of))
              /\ got' = got /\ verdict' = verdict
          BY <1>1, <4>1, NothingIsReceived
        <4>3. k + 1 \in 1..MaxEvent
          BY <2>2, <3>2, DecoderAssumption
        <4>4. Midway(k + 1, of)'
          BY <1>1, <1>2, <2>1, <2>2, <2>5, <3>1, <4>2
             DEF Midway, fixed, Decoder
        <4>5. Settled'
          BY <1>2, <4>2, <4>3, <4>4 DEF Settled, Underway
        <4> QED BY <1>1, <1>2, <2>1, <4>2, <4>5, StreamOKHolds
      <3>3. CASE k = MaxEvent
        <4>1. NextLine(dec, Head(out)) = Says(Decoder("sse", heard), "too large")
          <5>1. ~(Len(heard) < MaxEvent)
            BY <2>2, <2>3, <3>3
          <5> QED BY <2>1, <3>1, <5>1, DataLineIsRead
        <4>2. /\ dec' = Decoder("sse", <<>>)
              /\ got' = got /\ verdict' = "too large"
          BY <1>1, <4>1, EndIsReceived
        <4>3. Settled'
          BY <1>1, <2>1, <4>2 DEF Settled
        <4> QED BY <1>1, <1>2, <2>1, <4>2, <4>3, StreamOKHolds
      <3> QED BY <2>2, <3>2, <3>3, DecoderAssumption
    <2> QED BY <2>1, <2>2, <2>4, <2>5
  <1>5. ~Waiting
    BY <1>1 DEF Waiting
  <1> QED BY <1>2, <1>3, <1>4, <1>5 DEF StreamOK, Underway

LEMMA FillKeeps ==
  ASSUME StreamOK, NEW kind \in LineKind, Fill(kind)
  PROVE  StreamOK'
  <1> DEFINE line == [kind |-> kind, piece |-> DonePiece]
  <1>1. /\ Reading /\ kind \in Filler
        /\ Recv(NextLine(dec, line), sent)
        /\ UNCHANGED <<fixed, sent, out, phase, open>>
    BY DEF Fill
  <1>2. /\ IsSeq(sent') /\ open' \in BOOLEAN /\ verdict = "reading"
        /\ dec = Decoder(dec.format, dec.data) /\ open
        /\ dec.format \in {"auto", framing} /\ framing \in {"sse", "ndjson"}
    BY <1>1 DEF StreamOK, Reading
  <1>3. CASE framing = "sse"
    <2>1. /\ kind \in {"blank", "comment", "field"}
          /\ kind = "blank" => out = <<>>
      BY <1>1, <1>3 DEF Filler
    <2>2. kind = "blank" => dec.data \in {<<>>, <<DonePiece>>}
      <3>1. ASSUME NEW k \in 1..MaxEvent, NEW of \in 1..MaxEvent + 1,
                   Midway(k, of)
            PROVE  out # <<>>
        <4>1. k \in Nat /\ of \in Nat /\ Len(sent) \in Nat
          <5>1. k \in Nat /\ of \in Nat
            BY DecoderAssumption
          <5>2. Len(sent) \in Nat
            BY LenProperties DEF StreamOK, IsSeq
          <5> QED BY <5>1, <5>2
        <4>2. k <= of /\ out = Rest(Len(sent), k, of)
          BY <1>2, <3>1 DEF Midway
        <4> QED BY <4>1, <4>2, RestFacts
      <3> QED BY <1>2, <2>1, <3>1 DEF StreamOK, Underway, Waiting, Ending
    <2>3. PICK g \in {"auto", "sse"} :
            /\ NextLine(dec, line) = Decoder(g, dec.data)
            /\ dec.format = "sse" => g = "sse"
      <3> DEFINE f == dec.format
                 data == dec.data
      <3>1. f \in {"auto", "sse"} /\ dec = Decoder(f, data)
        BY <1>2, <1>3
      <3>2. kind = "blank" => data \in {<<>>, <<DonePiece>>}
        BY <2>2
      <3> HIDE DEF f, data
      <3>3. \E g \in {"auto", "sse"} :
              /\ NextLine(Decoder(f, data), line) = Decoder(g, data)
              /\ f = "sse" => g = "sse"
        BY <2>1, <3>1, <3>2, FillerIsRead, Zenon
      <3>4. \E g \in {"auto", "sse"} :
              /\ NextLine(dec, line) = Decoder(g, data)
              /\ f = "sse" => g = "sse"
        BY <3>1, <3>3
      <3> QED BY <3>4 DEF f, data
    <2>4. /\ dec' = Decoder(g, dec.data)
          /\ got' = got /\ verdict' = verdict
      BY <1>1, <2>3, NothingIsReceived
    <2>5. /\ dec'.data = dec.data
          /\ dec.format = "sse" => dec'.format = "sse"
      BY <2>3, <2>4 DEF Decoder
    <2>6. Waiting => Waiting'
      BY <1>1, <2>4, <2>5 DEF Waiting
    <2>7. Ending => Ending'
      BY <1>1, <2>4, <2>5 DEF Ending, fixed
    <2>8. ASSUME NEW k \in 1..MaxEvent, NEW of \in 1..MaxEvent + 1,
                 Midway(k, of)
          PROVE  Midway(k, of)'
      BY <1>1, <2>4, <2>5, <2>8 DEF Midway, fixed
    <2>9. Underway'
      BY <1>2, <2>6, <2>7, <2>8 DEF StreamOK, Underway
    <2>10. Settled'
      BY <1>2, <2>4, <2>9 DEF Settled
    <2> QED BY <1>1, <1>2, <1>3, <2>4, <2>10, StreamOKHolds
  <1>4. CASE framing = "ndjson"
    <2>1. kind = "blank" /\ Sniff(line) = "auto"
      BY <1>1, <1>4 DEF Filler, Sniff
    <2>2. NextLine(dec, line) = Decoder(dec.format, dec.data)
      <3> DEFINE g == dec.format
      <3>1. g \in {"auto", "sse", "ndjson"} /\ g # "sse"
            /\ g = IF dec.format = "auto" THEN Sniff(line) ELSE dec.format
        BY <1>2, <1>4, <2>1
      <3>2. NextNDJSON(Decoder("ndjson", dec.data), line)
              = Decoder("ndjson", dec.data)
        BY <2>1 DEF NextNDJSON
      <3>3. CASE dec.format = "auto"
        BY <1>2, <2>1, <3>3, LineIsRead
      <3>4. CASE dec.format = "ndjson"
        BY <1>2, <2>1, <3>2, <3>4, LineIsRead
      <3> QED BY <3>1, <3>3, <3>4
    <2>3. dec' = dec /\ got' = got /\ verdict' = verdict
      BY <1>1, <1>2, <2>2, NothingIsReceived
    <2>4. Underway'
      <3>1. Waiting
        BY <1>2, <1>4 DEF StreamOK, Underway, Ending, Midway
      <3> QED BY <1>1, <2>3, <3>1 DEF Waiting, Underway
    <2>5. Settled'
      BY <1>2, <2>3, <2>4 DEF Settled
    <2> QED BY <1>1, <1>2, <1>4, <2>3, <2>5, StreamOKHolds
  <1> QED BY <1>2, <1>3, <1>4

LEMMA CloseKeeps ==
  ASSUME StreamOK, Close
  PROVE  StreamOK'
  <1>1. /\ Reading /\ open' = FALSE /\ out' = <<>>
        /\ UNCHANGED <<fixed, sent, phase, dec, got, verdict>>
    BY DEF Close
  <1>2. Waiting => Waiting'
    BY <1>1 DEF Waiting
  <1>3. Ending => Ending'
    BY <1>1 DEF Ending, fixed
  <1>4. ASSUME NEW k \in 1..MaxEvent, NEW of \in 1..MaxEvent + 1, Midway(k, of)
        PROVE  Midway(k, of)'
    BY <1>1, <1>4 DEF Midway, fixed
  <1>5. Underway'
    BY <1>1, <1>2, <1>3, <1>4 DEF StreamOK, Underway, Reading
  <1>6. IsSeq(sent')
    BY <1>1 DEF StreamOK
  <1>7. Settled'
    BY <1>1, <1>5 DEF Settled, Reading
  <1> QED BY <1>1, <1>5, <1>6 DEF StreamOK, Reading, fixed

LEMMA TearKeeps ==
  ASSUME StreamOK, Tear
  PROVE  StreamOK'
  <1> DEFINE n == Len(sent')
  <1>1. /\ Reading /\ out = <<>> /\ phase # "done"
        /\ sent' = Append(sent, UsageItem)
        /\ open' = FALSE /\ UNCHANGED <<fixed, out, phase>>
    BY DEF Tear
  <1>2. /\ Waiting /\ framing \in {"sse", "ndjson"} /\ IsSeq(sent)
        /\ dec.format \in {"auto", framing}
        /\ dec = Decoder(dec.format, <<>>)
    BY <1>1, MayBegin
  <1>3. /\ IsSeq(sent') /\ sent' # <<>> /\ n \in Nat \ {0}
        /\ Front(sent') = sent
    BY <1>1, <1>2, AppendIsSeq
  <1>4. got = Front(sent')
    BY <1>2, <1>3 DEF Waiting
  <1>5. CASE framing = "sse"
    <2>1. Recv(NextLine(dec, DataLine(Part(n, 1, 2))), sent')
      BY <1>5 DEF Tear
    <2>2. NextLine(dec, DataLine(Part(n, 1, 2))) = Decoder("sse", Heard(n, 1, 2))
      <3>1. Append(<<>>, Part(n, 1, 2)) = Heard(n, 1, 2) /\ Len(<<>>) < MaxEvent
        BY DecoderAssumption DEF Heard
      <3>2. dec.format \in {"auto", "sse"}
        BY <1>2, <1>5
      <3>3. NextLine(Decoder(dec.format, <<>>), DataLine(Part(n, 1, 2)))
              = Decoder("sse", Append(<<>>, Part(n, 1, 2)))
        BY <3>1, <3>2, DataLineIsRead
      <3> QED BY <1>2, <3>1, <3>3
    <2>3. /\ dec' = Decoder("sse", Heard(n, 1, 2))
          /\ got' = got /\ verdict' = verdict
      BY <2>1, <2>2, NothingIsReceived
    <2>4. Midway(1, 2)'
      BY <1>1, <1>3, <1>4, <1>5, <2>3 DEF Midway, fixed, Decoder
    <2>5. Settled'
      <3>1. 1 \in 1..MaxEvent /\ 2 \in 1..MaxEvent + 1
        BY DecoderAssumption
      <3> QED BY <1>1, <2>3, <2>4, <3>1 DEF Settled, Underway, Reading
    <2> QED BY <1>1, <1>3, <1>5, <2>3, <2>5, StreamOKHolds DEF Reading
  <1>6. CASE framing = "ndjson"
    <2> DEFINE p == Part(n, 1, 2)
    <2>1. Recv(NextLine(dec, [kind |-> "json", piece |-> p]), sent')
      BY <1>6 DEF Tear
    <2>2. NextLine(dec, [kind |-> "json", piece |-> p])
            = Yields(Decoder("ndjson", <<>>), <<p>>)
      BY <1>2, <1>3, <1>6, JsonIsRead, PartIsNotDone
    <2>3. <<p>> = Heard(n, 1, 2)
      BY DEF Heard
    <2>4. /\ dec' = Decoder("ndjson", <<>>)
          /\ got' = got /\ verdict' = "malformed"
      <3>1. Recv(Yields(Decoder("ndjson", <<>>), <<p>>), sent')
        BY <2>1, <2>2
      <3>2. 1 \in Nat \ {0} /\ 2 \in Nat \ {0} /\ 1 # 2
        OBVIOUS
      <3> HIDE DEF p
      <3> QED BY <1>3, <1>4, <2>3, <3>1, <3>2, PiecesAreReceived
    <2>5. Settled'
      BY <1>1, <1>3, <1>4, <2>4 DEF Settled
    <2> QED BY <1>1, <1>3, <1>6, <2>4, <2>5, StreamOKHolds
  <1> QED BY <1>2, <1>5, <1>6

\* At the end of the response the last item is received if it was whole; the
\* next call of Recv then says that the stream is over.
LEMMA ReadEndKeeps ==
  ASSUME StreamOK, ReadEnd
  PROVE  StreamOK'
  <1>1. /\ ~open /\ verdict = "reading" /\ Recv(AtEOF(dec), sent)
        /\ UNCHANGED <<fixed, sent, out, phase, open>>
    BY DEF ReadEnd
  <1>2. /\ IsSeq(sent) /\ IsSeq(sent') /\ open' \in BOOLEAN
        /\ dec = Decoder(dec.format, dec.data)
        /\ dec.format \in {"auto", framing}
    BY <1>1 DEF StreamOK
  <1>3. ASSUME Waiting \/ Ending PROVE StreamOK'
    <2>1. got = sent /\ dec.data \in {<<>>, <<DonePiece>>}
      BY <1>3 DEF Waiting, Ending
    <2>2. AtEOF(dec) = Says(Decoder(dec.format, dec.data), "eof")
      BY <1>2, <2>1 DEF AtEOF, Flushes, IsDone
    <2>3. /\ dec' = Decoder(dec.format, <<>>)
          /\ got' = got /\ verdict' = "eof"
      BY <1>1, <2>2, EndIsReceived
    <2>4. Settled'
      BY <1>1, <2>1, <2>3 DEF Settled
    <2> QED BY <1>1, <1>2, <2>3, <2>4, StreamOKHolds
  <1>4. ASSUME NEW k \in 1..MaxEvent, NEW of \in 1..MaxEvent + 1, Midway(k, of)
        PROVE  StreamOK'
    <2> DEFINE n == Len(sent)
               heard == Heard(n, k, of)
    <2>1. /\ framing = "sse" /\ sent # <<>> /\ got = Front(sent)
          /\ dec = Decoder("sse", heard) /\ out = <<>>
      BY <1>1, <1>2, <1>4 DEF Midway
    <2>2. k \in Nat \ {0} /\ of \in Nat \ {0} /\ n \in Nat \ {0}
      BY <1>2, <2>1, DecoderAssumption, FrontAndLast
    <2>3. heard # <<>> /\ heard # <<DonePiece>>
      <3>1. Len(heard) = k
        BY <2>2 DEF Heard
      <3>2. heard[1] = Part(n, 1, of) /\ <<DonePiece>>[1] = DonePiece
        BY <2>2 DEF Heard
      <3>3. heard # <<DonePiece>>
        BY <2>2, <3>2, PartIsNotDone
      <3> QED BY <2>2, <3>1, <3>3
    <2> HIDE DEF heard
    <2>4. AtEOF(dec) = Yields(Decoder("sse", heard), heard)
      <3>1. dec.data = heard
        BY <2>1 DEF Decoder
      <3> QED BY <2>1, <2>3, <3>1 DEF AtEOF, Flushes, IsDone
    <2>5. Recv(Yields(Decoder("sse", heard), heard), sent)
      BY <1>1, <2>4
    <2>6. /\ dec' = Decoder("sse", <<>>)
          /\ k = of /\ ~sent[n].error => got' = sent /\ verdict' = verdict
          /\ k = of /\ sent[n].error => got' = got /\ verdict' = "failed"
          /\ k # of => got' = got /\ verdict' = "malformed"
      BY <1>2, <2>1, <2>2, <2>5, PiecesAreReceived DEF heard
    <2>7. CASE k = of /\ sent[n].error
      <3>1. Settled'
        BY <1>1, <1>2, <2>1, <2>6, <2>7, FrontAndLast DEF Settled
      <3> QED BY <1>1, <1>2, <2>1, <2>6, <2>7, <3>1, StreamOKHolds
    <2>8. CASE k = of /\ ~sent[n].error
      <3>1. Waiting'
        BY <1>1, <2>1, <2>6, <2>8 DEF Waiting, Decoder
      <3>2. Settled'
        BY <1>1, <2>6, <2>8, <3>1 DEF Settled, Underway
      <3>3. NoErrors(sent)
        BY <1>2, <2>1, <2>8, NoErrorAtLast DEF StreamOK
      <3> QED BY <1>1, <1>2, <2>1, <2>6, <2>8, <3>2, <3>3, StreamOKHolds
    <2>9. CASE k # of
      <3>1. Settled'
        BY <1>1, <2>1, <2>6, <2>9 DEF Settled
      <3> QED BY <1>1, <1>2, <2>1, <2>6, <2>9, <3>1, StreamOKHolds
    <2> QED BY <2>7, <2>8, <2>9
  <1> QED BY <1>1, <1>3, <1>4 DEF StreamOK, Underway

LEMMA StreamInductive == StreamOK /\ [StreamNext]_streamVars => StreamOK'
  <1> SUFFICES ASSUME StreamOK, [StreamNext]_streamVars PROVE StreamOK'
    OBVIOUS
  <1>1. CASE SayMore
    <2>1. phase = "talking"
      BY <1>1 DEF SayMore
    <2> QED BY <1>1, <2>1, SayKeeps DEF SayMore
  <1>2. CASE SayUsage
    <2>1. phase # "done"
      BY <1>2 DEF SayUsage
    <2> QED BY <1>2, <2>1, SayKeeps DEF SayUsage
  <1>3. CASE SayDone
    BY <1>3, SayDoneKeeps
  <1>4. CASE NextOut
    BY <1>4, NextOutKeeps
  <1>5. CASE \E kind \in LineKind : Fill(kind)
    BY <1>5, FillKeeps
  <1>6. CASE Close
    BY <1>6, CloseKeeps
  <1>7. CASE Tear
    BY <1>7, TearKeeps
  <1>8. CASE ReadEnd
    BY <1>8, ReadEndKeeps
  <1>9. CASE UNCHANGED streamVars
    BY <1>9 DEF StreamOK, streamVars, Underway, Waiting, Ending, Midway
  <1> QED BY <1>1, <1>2, <1>3, <1>4, <1>5, <1>6, <1>7, <1>8, <1>9
          DEF StreamNext

LEMMA StreamInvariance == StreamSpec => []StreamOK
  BY StreamInitOK, StreamInductive, PTL DEF StreamSpec

\* Whatever the framing, the filler, the size of events and the place where the
\* connection ends, for any number of items: Recv returns what was said, in
\* order and whole, and all of it before it says that the stream ended or
\* failed (Stream.Recv and Decoder.Next, sse.go:76-219).
THEOREM StreamsAreWhole == StreamSpec => []NothingLostOrTorn
  <1>1. StreamOK => NothingLostOrTorn
    <2> SUFFICES ASSUME StreamOK PROVE NothingLostOrTorn
      OBVIOUS
    <2>1. got = sent \/ (sent # <<>> /\ got = Front(sent))
      BY DEF StreamOK, Underway, Waiting, Ending, Midway
    <2>2. IsPrefix(got, sent)
      <3>1. CASE got = sent
        <4>1. Len(sent) \in Nat
          BY LenProperties DEF StreamOK, IsSeq
        <4> QED BY <3>1, <4>1 DEF IsPrefix
      <3>2. CASE sent # <<>> /\ got = Front(sent)
        <4>1. /\ Len(sent) \in Nat /\ Len(got) = Len(sent) - 1
              /\ \A i \in 1..Len(got) : got[i] = sent[i]
          BY <3>2, FrontAndLast DEF StreamOK
        <4>2. SubSeq(got, 1, Len(got)) = SubSeq(sent, 1, Len(got))
          BY <4>1 DEF SubSeq
        <4> QED BY <4>1, <4>2 DEF IsPrefix
      <3> QED BY <2>1, <3>1, <3>2
    <2> QED BY <2>2 DEF StreamOK, NothingLostOrTorn, NoErrors
  <1> QED BY <1>1, StreamInvariance, PTL
-----------------------------------------------------------------------------
(* Streams: what the fragments of calls become.                            *)

\* One more piece is joined at the end.
LEMMA FlattenAppend ==
  ASSUME NEW S, NEW seqs \in Seq(Seq(S)), NEW x \in Seq(S)
  PROVE  /\ FlattenSeq(Append(seqs, x)) = FlattenSeq(seqs) \o x
         /\ FlattenSeq(seqs) \in Seq(S)
  <1> DEFINE n == Len(seqs)
             more == Append(seqs, x)
  <1>0. /\ n \in Nat /\ more \in Seq(Seq(S)) /\ Len(more) = n + 1
        /\ more[n + 1] = x /\ \A i \in 1..n : more[i] = seqs[i]
    OBVIOUS
  <1> HIDE DEF n, more
  <1>1. PICK F \in [0..n -> Seq(S)] :
           /\ F[0] = <<>>
           /\ \A i \in 1..n : F[i] = F[i - 1] \o seqs[i]
           /\ FlattenSeq(seqs) = F[n]
    BY Flattening DEF n
  <1>2. PICK G \in [0..n + 1 -> Seq(S)] :
           /\ G[0] = <<>>
           /\ \A i \in 1..n + 1 : G[i] = G[i - 1] \o more[i]
           /\ FlattenSeq(more) = G[n + 1]
    BY Flattening, <1>0
  <1> DEFINE T == {i \in 0..n : F[i] = G[i]}
  <1>3. 0 \in T
    BY <1>0, <1>1, <1>2
  <1>4. \A i \in 1..n : i - 1 \in T => i \in T
    <2> SUFFICES ASSUME NEW i \in 1..n, F[i - 1] = G[i - 1] PROVE F[i] = G[i]
      BY <1>0
    <2>1. F[i] = F[i - 1] \o seqs[i]
      BY <1>1
    <2>2. G[i] = G[i - 1] \o more[i]
      <3>1. i \in 1..n + 1
        BY <1>0
      <3> QED BY <1>2, <3>1
    <2> QED BY <1>0, <2>1, <2>2
  <1>5. \A i \in 0..n : i \in T
    <2> HIDE DEF T
    <2> QED BY <1>0, <1>3, <1>4, Upwards, Zenon
  <1>6. F[n] = G[n] /\ n + 1 \in 1..n + 1 /\ (n + 1) - 1 = n
    BY <1>0, <1>5
  <1>7. G[n + 1] = G[n] \o x
    BY <1>0, <1>2, <1>6
  <1>8. F[n] \in Seq(S)
    BY <1>0, <1>1
  <1> QED BY <1>1, <1>2, <1>6, <1>7, <1>8 DEF more

\* The numbers of T that are less than j.
Lower(T, j) == {i \in T : i < j}

LEMMA RanksDiffer ==
  ASSUME NEW T \in SUBSET Nat, IsFiniteSet(T), NEW i \in T, NEW j \in T, i < j
  PROVE  Cardinality(Lower(T, i)) < Cardinality(Lower(T, j))
  <1>1. Lower(T, i) \in SUBSET Lower(T, j) /\ Lower(T, j) \in SUBSET T
    <2>1. \A l \in T : l < i => l < j
      <3>1. i \in Nat /\ j \in Nat /\ \A l \in T : l \in Nat
        OBVIOUS
      <3> QED BY <3>1
    <2> QED BY <2>1 DEF Lower
  <1>2. i \in Lower(T, j) /\ i \notin Lower(T, i)
    BY DEF Lower
  <1>3. IsFiniteSet(Lower(T, j))
    BY <1>1, FS_Subset
  <1>4. /\ IsFiniteSet(Lower(T, i))
        /\ Cardinality(Lower(T, i)) <= Cardinality(Lower(T, j))
        /\ Cardinality(Lower(T, i)) # Cardinality(Lower(T, j))
    BY <1>1, <1>2, <1>3, FS_Subset
  <1>5. Cardinality(Lower(T, i)) \in Nat /\ Cardinality(Lower(T, j)) \in Nat
    BY <1>3, <1>4, FS_CardinalityType
  <1> QED BY <1>4, <1>5

\* The ranks of n numbers are 0 to n - 1, each once.
LEMMA RankExists ==
  ASSUME NEW T \in SUBSET Nat, IsFiniteSet(T), NEW k \in 1..Cardinality(T)
  PROVE  \E j \in T : Cardinality(Lower(T, j)) = k - 1
  <1> DEFINE n == Cardinality(T)
             rank == [j \in T |-> Cardinality(Lower(T, j))]
             R == 0..n - 1
  <1>1. n \in Nat
    BY FS_CardinalityType
  <1>2. rank \in [T -> R]
    <2> SUFFICES ASSUME NEW j \in T PROVE Cardinality(Lower(T, j)) \in R
      OBVIOUS
    <2>1. Lower(T, j) \in SUBSET T /\ j \notin Lower(T, j)
      BY DEF Lower
    <2>2. /\ IsFiniteSet(Lower(T, j))
          /\ Cardinality(Lower(T, j)) <= n
          /\ Cardinality(Lower(T, j)) # n
      BY <2>1, FS_Subset
    <2>3. Cardinality(Lower(T, j)) \in Nat
      BY <2>2, FS_CardinalityType
    <2> QED BY <1>1, <2>2, <2>3
  <1>3. rank \in Injection(T, R)
    <2> SUFFICES ASSUME NEW i \in T, NEW j \in T, rank[i] = rank[j]
                 PROVE  i = j
      BY <1>2 DEF Injection, IsInjective
    <2>0. /\ Cardinality(Lower(T, i)) = Cardinality(Lower(T, j))
          /\ Cardinality(Lower(T, i)) \in R
      BY <1>2
    <2>1. ~(i < j)
      BY <2>0, RanksDiffer, <1>1
    <2>2. ~(j < i)
      BY <2>0, RanksDiffer, <1>1
    <2>3. i \in Nat /\ j \in Nat
      OBVIOUS
    <2> QED BY <2>1, <2>2, <2>3
  <1>4. IsFiniteSet(R) /\ Cardinality(R) = n
    <2>1. n - 1 \in Int /\ 0 \in Int
      BY <1>1
    <2>2. /\ IsFiniteSet(R)
          /\ Cardinality(R) = IF 0 > n - 1 THEN 0 ELSE (n - 1) - 0 + 1
      <3> HIDE DEF n
      <3> QED BY <2>1, FS_Interval
    <2> HIDE DEF n, R
    <2> QED BY <1>1, <2>2
  <1> HIDE DEF rank
  <1>5. rank \in Surjection(T, R)
    BY <1>3, <1>4, FS_Injection
  <1>6. k - 1 \in R
    BY <1>1
  <1>7. PICK j \in T : rank[j] = k - 1
    BY <1>5, <1>6 DEF Surjection
  <1> QED BY <1>7 DEF rank

\* What is listed by the rank of its number is listed in the order of these.
LEMMA ListedByNumber ==
  ASSUME NEW S, NEW f \in [S -> Nat], IsFiniteSet(S),
         \A x, y \in S : f[x] = f[y] => x = y,
         NEW k \in 1..Cardinality(S)
  PROVE  LET T == {f[x] : x \in S}
             x == CHOOSE x \in S : Cardinality({y \in S : f[y] < f[x]}) = k - 1
             j == CHOOSE j \in T : Cardinality(Lower(T, j)) = k - 1
         IN  x \in S /\ j = f[x]
  <1> DEFINE T == {f[x] : x \in S}
             less(x) == {y \in S : f[y] < f[x]}
  <1>1. T \in SUBSET Nat
    OBVIOUS
  <1>2. IsFiniteSet(T) /\ Cardinality(T) = Cardinality(S)
    <2>1. f \in Bijection(S, T)
      BY DEF Bijection, Injection, Surjection, IsInjective
    <2> QED BY <2>1, FS_Bijection DEF ExistsBijection
  <1>3. ASSUME NEW x \in S
        PROVE  Cardinality(less(x)) = Cardinality(Lower(T, f[x]))
    <2> DEFINE g == [y \in less(x) |-> f[y]]
    <2>1. g \in [less(x) -> Lower(T, f[x])]
      BY DEF Lower
    <2>2. \A y, z \in less(x) : g[y] = g[z] => y = z
      OBVIOUS
    <2>3. \A j \in Lower(T, f[x]) : \E y \in less(x) : g[y] = j
      BY DEF Lower
    <2> HIDE DEF g
    <2>4. g \in Bijection(less(x), Lower(T, f[x]))
      BY <2>1, <2>2, <2>3 DEF Bijection, Injection, Surjection, IsInjective
    <2>5. IsFiniteSet(less(x))
      BY FS_Subset
    <2> QED BY <2>4, <2>5, FS_Bijection DEF ExistsBijection
  <1> HIDE DEF T
  <1>4. PICK j \in T : Cardinality(Lower(T, j)) = k - 1
    BY <1>1, <1>2, RankExists
  <1>5. \A i \in T : Cardinality(Lower(T, i)) = k - 1 => i = j
    <2> SUFFICES ASSUME NEW i \in T, Cardinality(Lower(T, i)) = k - 1,
                        i # j
                 PROVE  FALSE
      OBVIOUS
    <2>1. i < j \/ j < i
      BY <1>1
    <2> QED BY <1>1, <1>2, <1>4, <2>1, RanksDiffer
  <1>6. PICK z \in S : j = f[z]
    BY DEF T
  <1>7. \A x \in S : Cardinality(less(x)) = k - 1 <=> x = z
    BY <1>3, <1>4, <1>5, <1>6 DEF T
  <1>8. (CHOOSE x \in S : Cardinality(less(x)) = k - 1) = z
    BY <1>7
  <1>9. (CHOOSE i \in T : Cardinality(Lower(T, i)) = k - 1) = j
    BY <1>4, <1>5
  <1> QED BY <1>6, <1>8, <1>9 DEF T

Frag == [call : ToolCall, args : Seq(ToolCall \X Nat)]

\* What a history holds with one more fragment.
LEMMA AppendFacts ==
  ASSUME NEW S, NEW s \in Seq(S), NEW x \in S
  PROVE  /\ Append(s, x) \in Seq(S)
         /\ Len(Append(s, x)) = Len(s) + 1 /\ Len(s) \in Nat
         /\ DOMAIN Append(s, x) = 1..Len(s) + 1 /\ DOMAIN s = 1..Len(s)
         /\ Append(s, x)[Len(s) + 1] = x
         /\ \A i \in 1..Len(s) : Append(s, x)[i] = s[i] /\ s[i] \in S
  OBVIOUS

LEMMA CallsTyped ==
  ASSUME NEW said \in Seq(Frag)
  PROVE  CallsIn(said) \subseteq ToolCall
  <1> SUFFICES ASSUME NEW i \in DOMAIN said PROVE said[i].call \in ToolCall
    BY DEF CallsIn
  <1>1. said[i] \in Frag
    OBVIOUS
  <1> QED BY <1>1 DEF Frag

LEMMA CallsAppend ==
  ASSUME NEW said \in Seq(Frag), NEW f \in Frag
  PROVE  /\ CallsIn(Append(said, f)) = CallsIn(said) \cup {f.call}
         /\ CallsIn(said) \subseteq ToolCall
  <1> DEFINE more == Append(said, f)
             n == Len(said)
  <1>1. /\ DOMAIN more = 1..n + 1 /\ DOMAIN said = 1..n /\ n \in Nat
        /\ more[n + 1] = f /\ \A i \in 1..n : more[i] = said[i]
        /\ \A i \in 1..n : said[i] \in Frag
    BY AppendFacts
  <1> HIDE DEF more, n
  <1>2. CallsIn(said) \cup {f.call} \subseteq CallsIn(more)
    <2>1. \A i \in 1..n : more[i].call = said[i].call /\ i \in 1..n + 1
      BY <1>1
    <2>2. n + 1 \in 1..n + 1 /\ more[n + 1].call = f.call
      BY <1>1
    <2> QED BY <1>1, <2>1, <2>2 DEF CallsIn
  <1>3. CallsIn(more) \subseteq CallsIn(said) \cup {f.call}
    <2> SUFFICES ASSUME NEW i \in 1..n + 1
                 PROVE  more[i].call \in CallsIn(said) \cup {f.call}
      BY <1>1 DEF CallsIn
    <2>1. i = n + 1 \/ i \in 1..n
      BY <1>1
    <2> QED BY <1>1, <2>1 DEF CallsIn
  <1>4. CallsIn(said) \subseteq ToolCall
    BY CallsTyped
  <1> QED BY <1>2, <1>3, <1>4 DEF more

LEMMA ArgsAppend ==
  ASSUME NEW said \in Seq(Frag), NEW f \in Frag, NEW c
  PROVE  /\ ArgsOf(Append(said, f), c)
              = ArgsOf(said, c) \o (IF f.call = c THEN f.args ELSE <<>>)
         /\ ArgsOf(said, c) \in Seq(ToolCall \X Nat)
  <1> DEFINE A == ToolCall \X Nat
             more == Append(said, f)
             n == Len(said)
             x == IF f.call = c THEN f.args ELSE <<>>
             P(s) == [i \in DOMAIN s |->
                        IF s[i].call = c THEN s[i].args ELSE <<>>]
  <1>1. /\ DOMAIN more = 1..n + 1 /\ DOMAIN said = 1..n /\ n \in Nat
        /\ more[n + 1] = f /\ \A i \in 1..n : more[i] = said[i]
        /\ \A i \in 1..n : said[i] \in Frag
    BY AppendFacts
  <1> HIDE DEF A
  <1>2. x \in Seq(A)
    <2>1. <<>> \in Seq(A) /\ f.args \in Seq(A)
      BY DEF Frag, A
    <2> QED BY <2>1
  <1>3. \A i \in 1..n : P(said)[i] \in Seq(A)
    <2>1. <<>> \in Seq(A) /\ \A i \in 1..n : said[i].args \in Seq(A)
      BY <1>1 DEF Frag, A
    <2> QED BY <1>1, <2>1
  <1>4. P(said) \in Seq(Seq(A)) /\ Len(P(said)) = n
    <2>1. P(said) = [i \in 1..n |-> P(said)[i]]
      BY <1>1
    <2> HIDE DEF P
    <2> QED BY <1>1, <1>3, <2>1, IsASeq
  <1>5. P(more) = Append(P(said), x)
    <2>1. DOMAIN P(more) = 1..n + 1 /\ DOMAIN P(said) = 1..n
      BY <1>1
    <2>2. P(more)[n + 1] = x
      BY <1>1
    <2>3. \A i \in 1..n : P(more)[i] = P(said)[i]
      BY <1>1
    <2> HIDE DEF P, x, more
    <2>4. /\ DOMAIN Append(P(said), x) = 1..n + 1
          /\ Append(P(said), x)[n + 1] = x
          /\ \A i \in 1..n : Append(P(said), x)[i] = P(said)[i]
          /\ Append(P(said), x) = [i \in 1..n + 1 |-> Append(P(said), x)[i]]
      <3> DEFINE Q == P(said)
      <3>1. Q \in Seq(Seq(A)) /\ Len(Q) = n
        BY <1>4
      <3> HIDE DEF Q, n
      <3>2. Append(Q, x) \in Seq(Seq(A)) /\ Len(Append(Q, x)) = n + 1
        BY <3>1, <1>2
      <3>3. /\ DOMAIN Append(Q, x) = 1..n + 1
            /\ Append(Q, x)[n + 1] = x
            /\ \A i \in 1..n : Append(Q, x)[i] = Q[i]
        BY <3>1, <1>2, AppendFacts
      <3>4. Append(Q, x) = [i \in 1..n + 1 |-> Append(Q, x)[i]]
        <4> DEFINE R == Append(Q, x)
        <4>1. R \in Seq(Seq(A)) /\ Len(R) = n + 1
          BY <3>2
        <4> HIDE DEF R
        <4>2. R = [i \in 1..n + 1 |-> R[i]]
          BY <4>1
        <4> QED BY <4>2 DEF R
      <3> QED BY <3>3, <3>4 DEF Q
    <2>5. P(more) = [i \in 1..n + 1 |-> P(more)[i]]
      BY <2>1 DEF P
    <2>6. \A i \in 1..n + 1 : P(more)[i] = Append(P(said), x)[i]
      BY <1>1, <2>2, <2>3, <2>4
    <2> QED BY <2>4, <2>5, <2>6
  <1> HIDE DEF P, x, more
  <1>6. /\ FlattenSeq(Append(P(said), x)) = FlattenSeq(P(said)) \o x
        /\ FlattenSeq(P(said)) \in Seq(A)
    BY <1>2, <1>4, FlattenAppend
  <1> QED BY <1>5, <1>6 DEF ArgsOf, P, x, more, A

\* Where a history first speaks of a call.
IsFirst(said, c, i) ==
  i \in DOMAIN said /\ said[i].call = c /\ \A j \in 1..i - 1 : said[j].call # c

LEMMA FirstOfIs ==
  ASSUME NEW said \in Seq(Frag), NEW c,
         \E i \in DOMAIN said : IsFirst(said, c, i)
  PROVE  IsFirst(said, c, FirstOf(said, c))
  BY DEF IsFirst, FirstOf

LEMMA FirstIsOne ==
  ASSUME NEW said \in Seq(Frag), NEW c, NEW i, NEW j,
         IsFirst(said, c, i), IsFirst(said, c, j)
  PROVE  i = j
  <1>1. i \in Nat /\ j \in Nat /\ i >= 1 /\ j >= 1
    BY DEF IsFirst
  <1>2. ~(i < j) /\ ~(j < i)
    BY <1>1 DEF IsFirst
  <1> QED BY <1>1, <1>2

LEMMA FirstExists ==
  ASSUME NEW said \in Seq(Frag), NEW c \in CallsIn(said)
  PROVE  IsFirst(said, c, FirstOf(said, c))
  <1> DEFINE T == {i \in DOMAIN said : said[i].call = c}
  <1>1. T \in SUBSET Nat /\ T # {}
    BY DEF CallsIn
  <1> HIDE DEF T
  <1>2. PICK i \in T : \A j \in T : i <= j
    BY <1>1, NatMin, Zenon
  <1>3. IsFirst(said, c, i)
    <2>1. i \in DOMAIN said /\ said[i].call = c
      BY DEF T
    <2>2. \A j \in 1..i - 1 : said[j].call # c
      <3> SUFFICES ASSUME NEW j \in 1..i - 1, said[j].call = c PROVE FALSE
        OBVIOUS
      <3>1. j \in DOMAIN said
        BY <2>1
      <3>2. i <= j
        BY <3>1, <1>2 DEF T
      <3> QED BY <2>1, <3>2
    <2> QED BY <2>1, <2>2 DEF IsFirst
  <1>4. i \in DOMAIN said
    BY DEF T
  <1> QED BY <1>3, <1>4, FirstOfIs

LEMMA FirstAppend ==
  ASSUME NEW said \in Seq(Frag), NEW f \in Frag
  PROVE  /\ \A c \in CallsIn(said) :
              /\ FirstOf(Append(said, f), c) = FirstOf(said, c)
              /\ FirstOf(said, c) \in 1..Len(said)
         /\ f.call \notin CallsIn(said)
              => FirstOf(Append(said, f), f.call) = Len(said) + 1
  <1> DEFINE more == Append(said, f)
             n == Len(said)
  <1>1. /\ more \in Seq(Frag)
        /\ DOMAIN more = 1..n + 1 /\ DOMAIN said = 1..n /\ n \in Nat
        /\ more[n + 1] = f /\ \A i \in 1..n : more[i] = said[i]
    BY AppendFacts
  <1> HIDE DEF more, n
  <1>2. ASSUME NEW c, NEW i \in 1..n + 1, IsFirst(more, c, i)
        PROVE  FirstOf(more, c) = i
    <2>1. IsFirst(more, c, FirstOf(more, c))
      BY <1>1, <1>2, FirstOfIs
    <2> QED BY <1>1, <1>2, <2>1, FirstIsOne
  <1>3. ASSUME NEW c \in CallsIn(said)
        PROVE  /\ FirstOf(more, c) = FirstOf(said, c)
               /\ FirstOf(said, c) \in 1..n
    <2> DEFINE i == FirstOf(said, c)
    <2>1. IsFirst(said, c, i)
      BY FirstExists
    <2> HIDE DEF i
    <2>2. i \in 1..n /\ i \in 1..n + 1
      BY <1>1, <2>1 DEF IsFirst
    <2>3. IsFirst(more, c, i)
      <3>1. \A j \in 1..i - 1 : more[j] = said[j]
        BY <1>1, <2>2
      <3> QED BY <1>1, <2>1, <2>2, <3>1 DEF IsFirst
    <2> QED BY <1>2, <2>2, <2>3 DEF i
  <1>4. ASSUME f.call \notin CallsIn(said)
        PROVE  FirstOf(more, f.call) = n + 1
    <2>1. \A j \in 1..n : more[j].call # f.call
      BY <1>1, <1>4 DEF CallsIn
    <2>2. n + 1 \in 1..n + 1 /\ (n + 1) - 1 = n
      BY <1>1
    <2>3. IsFirst(more, f.call, n + 1)
      BY <1>1, <2>1, <2>2 DEF IsFirst
    <2> QED BY <1>2, <2>2, <2>3
  <1> QED BY <1>3, <1>4 DEF more, n

-----------------------------------------------------------------------------
(* What a slot holds.                                                       *)

Indexed == style \in {"indexed", "repeating", "nameless", "zero_omitted"}

IdOf(c) == IF style = "nameless" THEN Absent ELSE c

\* slot[c] is where the accumulator has what was said of call c.
Holds(said, calls, slot) ==
  /\ slot \in [CallsIn(said) -> Nat]
  /\ \A c, d \in CallsIn(said) : slot[c] = slot[d] => c = d
  /\ \A c, d \in CallsIn(said) : Before(said, c, d) <=> slot[c] < slot[d]
  /\ DOMAIN calls = {slot[c] : c \in CallsIn(said)}
  /\ \A c \in CallsIn(said) :
       calls[slot[c]] = [id |-> IdOf(c), args |-> ArgsOf(said, c)]
  /\ \A c \in ToolCall \ CallsIn(said) : ArgsOf(said, c) = <<>>
  /\ Indexed => \A c \in CallsIn(said) : slot[c] = Position[c]
  /\ ~Indexed => \E n \in Nat : DOMAIN calls = 0..n - 1

\* What the accumulator has to find for a fragment of call c: the call's slot,
\* or a new one behind the others where it is.
Found1(said, calls, slot, c, i, id) ==
  /\ i \in Nat
  /\ c \in CallsIn(said) => i = slot[c] /\ SetIfAbsent(IdOf(c), id) = IdOf(c)
  /\ c \notin CallsIn(said)
       => i \notin DOMAIN calls /\ SetIfAbsent(Absent, id) = IdOf(c)
  /\ Indexed => i = Position[c]
  /\ ~Indexed /\ c \notin CallsIn(said) => DOMAIN calls = 0..i - 1

\* A fragment is added in slot i.
Added(calls, d, i, new) ==
  /\ DOMAIN new = DOMAIN calls \cup {i}
  /\ \A j \in DOMAIN calls : j # i => new[j] = calls[j]
  /\ i \in DOMAIN calls => new[i] = [id |-> SetIfAbsent(calls[i].id, d.id),
                                     args |-> calls[i].args \o d.args]
  /\ i \notin DOMAIN calls => new[i] = [id |-> SetIfAbsent(Absent, d.id),
                                        args |-> <<>> \o d.args]

LEMMA AddFragmentIs ==
  ASSUME NEW calls, NEW d, NEW i, i = Slot(calls, d)
  PROVE  Added(calls, d, i, AddFragment(calls, d))
  <1> DEFINE e == IF i \in DOMAIN calls THEN calls[i] ELSE NewEntry
  <1>1. AddFragment(calls, d) = [j \in DOMAIN calls \cup {i} |->
          IF j # i THEN calls[j]
          ELSE [id |-> SetIfAbsent(e.id, d.id), args |-> e.args \o d.args]]
    BY DEF AddFragment
  <1>2. i \notin DOMAIN calls => e.id = Absent /\ e.args = <<>>
    BY DEF NewEntry
  <1> QED BY <1>1, <1>2 DEF Added

\* A call that is there already gets its fragment.
LEMMA HoldsOld ==
  ASSUME NEW said \in Seq(Frag), NEW f \in Frag, NEW calls, NEW slot,
         Holds(said, calls, slot), NEW d, d.args = f.args,
         NEW i, i = Slot(calls, d), f.call \in CallsIn(said),
         Found1(said, calls, slot, f.call, i, d.id)
  PROVE  Holds(Append(said, f), AddFragment(calls, d), slot)
  <1> DEFINE more == Append(said, f)
             new == AddFragment(calls, d)
             b == f.call
  <1>1. CallsIn(more) = CallsIn(said) /\ CallsIn(said) \subseteq ToolCall
    <2>1. /\ CallsIn(more) = CallsIn(said) \cup {b}
          /\ CallsIn(said) \subseteq ToolCall
      BY CallsAppend
    <2> HIDE DEF more
    <2> QED BY <2>1
  <1>2. i = slot[b] /\ i \in DOMAIN calls
    BY DEF Found1, Holds
  <1>3. /\ DOMAIN new = DOMAIN calls
        /\ \A j \in DOMAIN calls : j # i => new[j] = calls[j]
        /\ new[i] = [id |-> SetIfAbsent(calls[i].id, d.id),
                     args |-> calls[i].args \o d.args]
    <2>1. Added(calls, d, i, new)
      BY AddFragmentIs, Zenon
    <2> HIDE DEF new
    <2> QED BY <1>2, <2>1 DEF Added
  <1> HIDE DEF more, new
  <1>4. \A c \in CallsIn(said) :
          new[slot[c]] = [id |-> IdOf(c), args |-> ArgsOf(more, c)]
    <2> SUFFICES ASSUME NEW c \in CallsIn(said)
                 PROVE  new[slot[c]]
                          = [id |-> IdOf(c), args |-> ArgsOf(more, c)]
      OBVIOUS
    <2>0. calls[slot[c]] = [id |-> IdOf(c), args |-> ArgsOf(said, c)]
      BY DEF Holds
    <2>1. CASE c = b
      <3>1. ArgsOf(more, c) = ArgsOf(said, c) \o d.args
        BY <2>1, ArgsAppend DEF more
      <3>2. SetIfAbsent(IdOf(c), d.id) = IdOf(c)
        BY <2>1 DEF Found1
      <3>3. calls[i].id = IdOf(c) /\ calls[i].args = ArgsOf(said, c)
        BY <2>0, <2>1, <1>2
      <3> QED BY <1>2, <1>3, <2>1, <3>1, <3>2, <3>3
    <2>2. CASE c # b
      <3>1. ArgsOf(more, c) = ArgsOf(said, c) \o <<>>
        BY <2>2, ArgsAppend DEF more
      <3>2. ArgsOf(said, c) \o <<>> = ArgsOf(said, c)
        BY ArgsAppend, ConcatEmptySeq
      <3>3. slot[c] # i /\ slot[c] \in DOMAIN calls
        BY <1>2, <2>2 DEF Holds
      <3> QED BY <1>3, <2>0, <3>1, <3>2, <3>3
    <2> QED BY <2>1, <2>2
  <1>5. \A c \in ToolCall \ CallsIn(said) : ArgsOf(more, c) = <<>>
    <2> SUFFICES ASSUME NEW c \in ToolCall \ CallsIn(said)
                 PROVE  ArgsOf(more, c) = <<>>
      OBVIOUS
    <2>1. ArgsOf(more, c) = ArgsOf(said, c) \o <<>>
      BY ArgsAppend DEF more
    <2>2. ArgsOf(said, c) = <<>>
      BY DEF Holds
    <2>3. <<>> \o <<>> = <<>>
      OBVIOUS
    <2> QED BY <2>1, <2>2, <2>3
  <1>6. \A c, e \in CallsIn(said) : Before(more, c, e) <=> Before(said, c, e)
    BY FirstAppend DEF Before, more
  <1>7. Holds(more, new, slot)
    BY <1>1, <1>3, <1>4, <1>5, <1>6 DEF Holds
  <1> QED BY <1>7 DEF more, new

\* A call that is new gets a slot behind or between the others.
WithSlot(said, slot, c, i) ==
  [x \in CallsIn(said) \cup {c} |-> IF x = c THEN i ELSE slot[x]]

LEMMA HoldsNew ==
  ASSUME NEW said \in Seq(Frag), NEW f \in Frag, NEW calls, NEW slot,
         Holds(said, calls, slot), NEW d, d.args = f.args, style \in Style,
         NEW i, i = Slot(calls, d), f.call \notin CallsIn(said),
         Found1(said, calls, slot, f.call, i, d.id)
  PROVE  Holds(Append(said, f), AddFragment(calls, d),
               WithSlot(said, slot, f.call, i))
  <1> DEFINE more == Append(said, f)
             new == AddFragment(calls, d)
             b == f.call
             slot2 == WithSlot(said, slot, b, i)
             Old == CallsIn(said)
  <1>1. /\ CallsIn(more) = Old \cup {b}
        /\ Old \subseteq ToolCall /\ b \in ToolCall
    <2>1. /\ CallsIn(more) = CallsIn(said) \cup {b}
          /\ CallsIn(said) \subseteq ToolCall
      BY CallsAppend
    <2>2. b \in ToolCall
      BY DEF Frag
    <2> HIDE DEF more, b
    <2> QED BY <2>1, <2>2
  <1>2. /\ i \notin DOMAIN calls /\ i \in Nat
        /\ SetIfAbsent(Absent, d.id) = IdOf(b)
    BY DEF Found1
  <1>3. /\ DOMAIN new = DOMAIN calls \cup {i}
        /\ \A j \in DOMAIN calls : j # i => new[j] = calls[j]
        /\ new[i] = [id |-> IdOf(b), args |-> <<>> \o d.args]
    <2>1. Added(calls, d, i, new)
      BY AddFragmentIs, Zenon
    <2> HIDE DEF new
    <2> QED BY <1>2, <2>1 DEF Added
  <1>4. /\ slot2 \in [Old \cup {b} -> Nat]
        /\ slot2[b] = i
        /\ \A c \in Old : slot2[c] = slot[c] /\ slot[c] \in DOMAIN calls
                          /\ slot[c] \in Nat
    BY <1>2 DEF Holds, WithSlot
  <1> HIDE DEF more, new, slot2
  <1>5. \A c, e \in Old \cup {b} : slot2[c] = slot2[e] => c = e
    BY <1>2, <1>4 DEF Holds
  <1>6. \A c, e \in Old \cup {b} : Before(more, c, e) <=> slot2[c] < slot2[e]
    <2> SUFFICES ASSUME NEW c \in Old \cup {b}, NEW e \in Old \cup {b}
                 PROVE  Before(more, c, e) <=> slot2[c] < slot2[e]
      OBVIOUS
    <2>1. CASE Indexed
      <3>1. Before(more, c, e) <=> Position[c] < Position[e]
        BY <2>1 DEF Before, Indexed
      <3>2. slot2[c] = Position[c] /\ slot2[e] = Position[e]
        BY <1>4, <2>1 DEF Holds, Found1
      <3> QED BY <3>1, <3>2
    <2>2. CASE ~Indexed
      <3>1. /\ Before(more, c, e) <=> FirstOf(more, c) < FirstOf(more, e)
            /\ Before(said, c, e) <=> FirstOf(said, c) < FirstOf(said, e)
        BY <2>2 DEF Before, Indexed, Style
      <3>2. /\ \A x \in Old : /\ FirstOf(more, x) = FirstOf(said, x)
                              /\ FirstOf(said, x) \in 1..Len(said)
            /\ FirstOf(more, b) = Len(said) + 1
        BY FirstAppend DEF more
      <3>3. \A x \in Old : slot2[x] < slot2[b]
        BY <1>2, <1>4, <2>2 DEF Found1
      <3>4. \A x \in Old : FirstOf(more, x) < FirstOf(more, b)
        BY <3>2
      <3>5. CASE c \in Old /\ e \in Old
        <4>1. Before(said, c, e) <=> slot[c] < slot[e]
          BY <3>5 DEF Holds
        <4> QED BY <1>4, <3>1, <3>2, <3>5, <4>1
      <3>6. CASE c \in Old /\ e = b
        BY <3>1, <3>3, <3>4, <3>6
      <3>7. CASE c = b /\ e \in Old
        <4>1. ~(FirstOf(more, b) < FirstOf(more, e))
          BY <3>2, <3>7
        <4>2. ~(slot2[b] < slot2[e])
          <5>1. slot2[e] < slot2[b]
            BY <3>3, <3>7
          <5>2. slot2[e] \in Nat /\ slot2[b] \in Nat
            BY <1>2, <1>4, <3>7
          <5> HIDE DEF b
          <5> QED BY <5>1, <5>2
        <4> QED BY <3>1, <3>7, <4>1, <4>2
      <3>8. CASE c = b /\ e = b
        BY <1>2, <1>4, <3>1, <3>2, <3>8
      <3> QED BY <3>5, <3>6, <3>7, <3>8
    <2> QED BY <2>1, <2>2
  <1>7. DOMAIN new = {slot2[c] : c \in Old \cup {b}}
    <2>1. {slot2[c] : c \in Old \cup {b}} = {slot[c] : c \in Old} \cup {i}
      BY <1>4
    <2> QED BY <1>3, <2>1 DEF Holds
  <1>8. \A c \in Old \cup {b} :
          new[slot2[c]] = [id |-> IdOf(c), args |-> ArgsOf(more, c)]
    <2> SUFFICES ASSUME NEW c \in Old \cup {b}
                 PROVE  new[slot2[c]]
                          = [id |-> IdOf(c), args |-> ArgsOf(more, c)]
      OBVIOUS
    <2>1. CASE c = b
      <3>1. ArgsOf(more, c) = ArgsOf(said, c) \o d.args
        BY <2>1, ArgsAppend DEF more
      <3>2. ArgsOf(said, c) = <<>>
        BY <1>1, <2>1 DEF Holds
      <3> QED BY <1>3, <1>4, <2>1, <3>1, <3>2
    <2>2. CASE c # b
      <3>1. ArgsOf(more, c) = ArgsOf(said, c) \o <<>>
        BY <2>2, ArgsAppend DEF more
      <3>2. ArgsOf(said, c) \o <<>> = ArgsOf(said, c)
        BY ArgsAppend, ConcatEmptySeq
      <3>3. calls[slot[c]] = [id |-> IdOf(c), args |-> ArgsOf(said, c)]
        BY <2>2 DEF Holds
      <3>4. slot2[c] = slot[c] /\ slot[c] \in DOMAIN calls /\ slot[c] # i
        BY <1>2, <1>4, <2>2
      <3> QED BY <1>3, <3>1, <3>2, <3>3, <3>4
    <2> QED BY <2>1, <2>2
  <1>9. \A c \in ToolCall \ (Old \cup {b}) : ArgsOf(more, c) = <<>>
    <2> SUFFICES ASSUME NEW c \in ToolCall \ (Old \cup {b})
                 PROVE  ArgsOf(more, c) = <<>>
      OBVIOUS
    <2>1. ArgsOf(more, c) = ArgsOf(said, c) \o <<>>
      BY ArgsAppend DEF more
    <2>2. ArgsOf(said, c) = <<>>
      BY DEF Holds
    <2>3. <<>> \o <<>> = <<>>
      OBVIOUS
    <2> QED BY <2>1, <2>2, <2>3
  <1>10. Indexed => \A c \in Old \cup {b} : slot2[c] = Position[c]
    BY <1>4 DEF Holds, Found1
  <1>11. ~Indexed => \E n \in Nat : DOMAIN new = 0..n - 1
    <2> SUFFICES ASSUME ~Indexed PROVE \E n \in Nat : DOMAIN new = 0..n - 1
      OBVIOUS
    <2>1. DOMAIN new = (0..i - 1) \cup {i}
      BY <1>3 DEF Found1
    <2>2. DOMAIN new = 0..(i + 1) - 1 /\ i + 1 \in Nat
      BY <1>2, <2>1
    <2> QED BY <2>2
  <1>12. Holds(more, new, slot2)
    <2> HIDE DEF b
    <2> QED BY <1>1, <1>4, <1>5, <1>6, <1>7, <1>8, <1>9, <1>10, <1>11 DEF Holds
  <1> QED BY <1>12 DEF more, new, slot2

\* The fragment of call c that comes after what was said.
FragmentIn(said, c, args) ==
  LET indexed == \/ style \in {"indexed", "repeating", "nameless"}
                 \/ style = "zero_omitted" /\ Position[c] # 0
      named == \/ style \in {"repeating", "by_id"}
               \/ style # "nameless" /\ c \notin CallsIn(said)
  IN  Fragment(IF indexed THEN Position[c] ELSE Absent,
               IF named THEN c ELSE Absent, args)

LEMMA FragmentInIs ==
  ASSUME NEW said, NEW c, NEW args
  PROVE  LET d == FragmentIn(said, c, args)
         IN  /\ d.args = args
             /\ style \in {"indexed", "repeating", "nameless"}
                  => d.index = Position[c]
             /\ style = "zero_omitted" /\ Position[c] # 0
                  => d.index = Position[c]
             /\ style = "zero_omitted" /\ Position[c] = 0 => d.index = Absent
             /\ style \in {"by_id", "bare"} => d.index = Absent
             /\ style \in {"repeating", "by_id"} => d.id = c
             /\ style = "nameless" => d.id = Absent
             /\ style \in {"indexed", "zero_omitted", "bare"}
                  => d.id = IF c \in CallsIn(said) THEN Absent ELSE c
  BY DEF FragmentIn, Fragment

\* Its slot, by the fragment's index.
LEMMA SlotByIndex ==
  ASSUME NEW said \in Seq(Frag), NEW c \in ToolCall, NEW args, NEW calls,
         NEW slot, Holds(said, calls, slot), NEW d,
         d = FragmentIn(said, c, args),
         \/ style \in {"indexed", "repeating", "nameless"}
         \/ style = "zero_omitted" /\ Position[c] # 0
  PROVE  Found1(said, calls, slot, c, Slot(calls, d), d.id)
  <1>0. /\ Position[c] \in Nat /\ Position[c] # Absent /\ c # Absent
        /\ CallsIn(said) \subseteq ToolCall
        /\ \A e \in ToolCall : Position[e] = Position[c] => e = c
    <2>1. CallsIn(said) \subseteq ToolCall
      BY CallsTyped
    <2> QED BY <2>1, ProviderAssumption
  <1>1. d.index = Position[c] /\ Indexed
    BY FragmentInIs DEF Indexed
  <1>2. Slot(calls, d) = Position[c]
    BY <1>0, <1>1 DEF Slot
  <1>3. \A e \in CallsIn(said) : slot[e] = Position[e]
    BY <1>1 DEF Holds
  <1>4. SetIfAbsent(IdOf(c), d.id) = IdOf(c)
    BY <1>0, FragmentInIs DEF IdOf, SetIfAbsent
  <1>5. ASSUME c \notin CallsIn(said)
        PROVE  /\ Position[c] \notin DOMAIN calls
               /\ SetIfAbsent(Absent, d.id) = IdOf(c)
    <2>1. DOMAIN calls = {slot[e] : e \in CallsIn(said)}
      BY DEF Holds
    <2>2. Position[c] \notin DOMAIN calls
      BY <1>0, <1>3, <1>5, <2>1
    <2>3. d.id = IdOf(c)
      BY <1>5, FragmentInIs DEF IdOf
    <2> QED BY <2>2, <2>3 DEF SetIfAbsent
  <1> QED BY <1>0, <1>1, <1>2, <1>3, <1>4, <1>5 DEF Found1

\* By its id, which no other call has.
LEMMA SlotById ==
  ASSUME NEW said \in Seq(Frag), NEW c \in ToolCall, NEW calls,
         NEW slot, Holds(said, calls, slot), style # "nameless"
  PROVE  /\ c \in CallsIn(said) => SlotsOf(calls, c) = {slot[c]}
         /\ c \notin CallsIn(said) => SlotsOf(calls, c) = {}
         /\ \A i \in DOMAIN calls : calls[i].id \in CallsIn(said)
         /\ Absent \notin CallsIn(said)
  <1>1. DOMAIN calls = {slot[e] : e \in CallsIn(said)}
    BY DEF Holds
  <1>2. ASSUME NEW e \in CallsIn(said) PROVE calls[slot[e]].id = e
    <2>1. calls[slot[e]] = [id |-> IdOf(e), args |-> ArgsOf(said, e)]
      BY DEF Holds
    <2>2. calls[slot[e]].id = IdOf(e)
      BY <2>1
    <2> QED BY <2>2 DEF IdOf
  <1>3. \A i \in DOMAIN calls : \E e \in CallsIn(said) :
          i = slot[e] /\ calls[i].id = e
    BY <1>1, <1>2
  <1>4. Absent \notin CallsIn(said)
    <2>1. CallsIn(said) \subseteq ToolCall
      BY CallsTyped
    <2> QED BY <2>1, ProviderAssumption
  <1> QED BY <1>1, <1>2, <1>3, <1>4 DEF SlotsOf

LEMMA SlotOfZero ==
  ASSUME NEW said \in Seq(Frag), NEW c \in ToolCall, NEW args, NEW calls,
         NEW slot, Holds(said, calls, slot), NEW d,
         d = FragmentIn(said, c, args),
         style = "zero_omitted", Position[c] = 0
  PROVE  Found1(said, calls, slot, c, Slot(calls, d), d.id)
  <1>0. /\ c # Absent /\ CallsIn(said) \subseteq ToolCall
        /\ \A e \in ToolCall : Position[e] = 0 => e = c
    <2>1. CallsIn(said) \subseteq ToolCall
      BY CallsTyped
    <2> QED BY <2>1, ProviderAssumption
  <1>1. /\ d.index = Absent /\ Indexed /\ IdOf(c) = c
        /\ d.id = IF c \in CallsIn(said) THEN Absent ELSE c
    BY FragmentInIs DEF Indexed, IdOf
  <1>2. \A e \in CallsIn(said) : slot[e] = Position[e]
    BY <1>1 DEF Holds
  <1>3. CASE c \in CallsIn(said)
    <2>1. Slot(calls, d) = 0
      BY <1>1, <1>3 DEF Slot
    <2> QED BY <1>0, <1>1, <1>2, <1>3, <2>1 DEF Found1, SetIfAbsent
  <1>4. CASE c \notin CallsIn(said)
    <2>1. 0 \notin DOMAIN calls
      <3>1. DOMAIN calls = {slot[e] : e \in CallsIn(said)}
        BY DEF Holds
      <3> QED BY <1>0, <1>2, <1>4, <3>1
    <2>2. SlotsOf(calls, d.id) = {}
      BY <1>1, <1>4, SlotById
    <2>3. Slot(calls, d) = 0
      BY <1>0, <1>1, <1>4, <2>1, <2>2 DEF Slot
    <2> QED BY <1>0, <1>1, <1>4, <2>1, <2>3 DEF Found1, SetIfAbsent
  <1> QED BY <1>3, <1>4

\* The first free of n slots that are in use.
LEMMA FirstFreeIs ==
  ASSUME NEW calls, NEW n \in Nat, DOMAIN calls = 0..n - 1
  PROVE  FirstFree(calls) = n
  <1>1. Cardinality(0..n - 1) = n
    <2>1. Cardinality(0..n - 1) = IF 0 > n - 1 THEN 0 ELSE (n - 1) - 0 + 1
      BY FS_Interval
    <2> QED BY <2>1
  <1>2. FirstFree(calls) = Min(0..n \ 0..n - 1)
    BY <1>1 DEF FirstFree
  <1>3. 0..n \ 0..n - 1 = {n}
    OBVIOUS
  <1>4. Min({n}) = n
    BY DEF Min
  <1> QED BY <1>2, <1>3, <1>4

LEMMA SlotWithoutIndex ==
  ASSUME NEW said \in Seq(Frag), NEW c \in ToolCall, NEW args, NEW calls,
         NEW slot, Holds(said, calls, slot), NEW d,
         d = FragmentIn(said, c, args), style \in {"by_id", "bare"},
         style = "bare" => CallsIn(said) \subseteq {c}
  PROVE  Found1(said, calls, slot, c, Slot(calls, d), d.id)
  <1>0. c # Absent
    BY ProviderAssumption
  <1>1. /\ d.index = Absent /\ ~Indexed /\ IdOf(c) = c
        /\ style = "by_id" \/ c \notin CallsIn(said) => d.id = c
        /\ style = "bare" /\ c \in CallsIn(said) => d.id = Absent
    BY FragmentInIs DEF Indexed, IdOf
  <1>2. PICK n \in Nat : DOMAIN calls = 0..n - 1
    BY <1>1 DEF Holds
  <1>3. CASE c \in CallsIn(said)
    <2>1. Slot(calls, d) = slot[c]
      <3>1. CASE style = "by_id"
        <4>1. d.id = c /\ SlotsOf(calls, c) = {slot[c]}
          BY <1>1, <1>3, <3>1, SlotById
        <4>2. (CHOOSE j \in SlotsOf(calls, c) : TRUE) = slot[c]
          BY <4>1
        <4> QED BY <1>0, <1>1, <4>1, <4>2 DEF Slot
      <3>2. CASE style = "bare"
        <4>1. DOMAIN calls = {slot[c]}
          <5>1. CallsIn(said) = {c}
            BY <1>3, <3>2
          <5>2. DOMAIN calls = {slot[e] : e \in CallsIn(said)}
            BY DEF Holds
          <5> QED BY <5>1, <5>2
        <4>2. slot[c] = 0
          <5> DEFINE k == slot[c]
          <5>1. k \in 0..n - 1
            BY <1>2, <4>1
          <5>2. 0 \in 0..n - 1
            BY <5>1
          <5> QED BY <1>2, <4>1, <5>2
        <4>3. Slot(calls, d) = 0
          BY <1>1, <1>3, <3>2 DEF Slot
        <4> QED BY <4>2, <4>3
      <3> QED BY <3>1, <3>2
    <2>2. slot[c] \in Nat
      BY <1>3 DEF Holds
    <2> QED BY <1>0, <1>1, <1>3, <2>1, <2>2 DEF Found1, SetIfAbsent
  <1>4. CASE c \notin CallsIn(said)
    <2>1. d.id = c /\ SlotsOf(calls, c) = {}
      BY <1>1, <1>4, SlotById
    <2>2. Slot(calls, d) = n
      <3>1. CASE n = 0
        <4>1. 0 \notin DOMAIN calls
          BY <1>2, <3>1
        <4> QED BY <1>0, <1>1, <2>1, <3>1, <4>1 DEF Slot
      <3>2. CASE n # 0
        <4>1. 0 \in DOMAIN calls
          BY <1>2, <3>2
        <4>2. calls[0].id \in CallsIn(said) /\ Absent \notin CallsIn(said)
          BY <1>1, <4>1, SlotById
        <4>3. calls[0].id \notin {Absent, c}
          BY <1>4, <4>2
        <4>4. FirstFree(calls) = n
          BY <1>2, FirstFreeIs
        <4> QED BY <1>0, <1>1, <2>1, <4>1, <4>3, <4>4 DEF Slot
      <3> QED BY <3>1, <3>2
    <2>3. n \notin DOMAIN calls
      BY <1>2
    <2> QED BY <1>0, <1>1, <1>2, <1>4, <2>1, <2>2, <2>3 DEF Found1, SetIfAbsent
  <1> QED BY <1>3, <1>4

\* Every style leads to the slot of the call.
LEMMA SlotIs ==
  ASSUME NEW said \in Seq(Frag), NEW c \in ToolCall, NEW args, NEW calls,
         NEW slot, Holds(said, calls, slot), NEW d, style \in Style,
         d = FragmentIn(said, c, args),
         style = "bare" => CallsIn(said) \subseteq {c}
  PROVE  Found1(said, calls, slot, c, Slot(calls, d), d.id)
  BY SlotByIndex, SlotOfZero, SlotWithoutIndex DEF Style

\* The calls when the fragments of a chunk are added, one after another.
AddsBoth(calls, x, y) ==
  AddCalls(calls, <<x, y>>) = AddFragment(AddFragment(calls, x), y)

LEMMA AddCallsIs ==
  ASSUME NEW calls, NEW x, NEW y
  PROVE  /\ AddCalls(calls, <<>>) = calls
         /\ AddCalls(calls, <<x>>) = AddFragment(calls, x)
         /\ AddsBoth(calls, x, y)
  <1> DEFINE Step(s, g) == [k \in 0..Len(s) |->
                IF k = 0 THEN calls ELSE AddFragment(g[k - 1], s[k])]
             After(s) == CHOOSE g : g = Step(s, g)
  <1>1. ASSUME NEW s PROVE AddCalls(calls, s) = After(s)[Len(s)]
    BY DEF AddCalls
  <1>2. ASSUME NEW s \in {<<>>, <<x>>, <<x, y>>}
        PROVE  After(s) = Step(s, After(s))
    <2> DEFINE one == AddFragment(calls, s[1])
               two == AddFragment(one, s[2])
               W == [k \in 0..Len(s) |->
                       IF k = 0 THEN calls ELSE IF k = 1 THEN one ELSE two]
    <2>0. Len(s) \in 0..2
      OBVIOUS
    <2> HIDE DEF two
    <2>1. ASSUME NEW k \in 0..Len(s), k # 0
          PROVE  W[k] = AddFragment(W[k - 1], s[k])
      <3>1. CASE k = 1
        <4>1. W[k] = one /\ W[k - 1] = calls
          BY <2>0, <3>1
        <4> HIDE DEF W
        <4> QED BY <3>1, <4>1
      <3>2. CASE k = 2
        <4>1. W[k] = two /\ W[k - 1] = one
          BY <2>0, <3>2
        <4> HIDE DEF W
        <4> QED BY <3>2, <4>1 DEF two
      <3> QED BY <2>0, <2>1, <3>1, <3>2
    <2>2. W[0] = calls /\ W = [k \in 0..Len(s) |-> W[k]]
      BY <2>0
    <2> HIDE DEF W
    <2>3. W = Step(s, W)
      <3>1. \A k \in 0..Len(s) : W[k] = Step(s, W)[k]
        BY <2>1, <2>2, Zenon
      <3> QED BY <2>2, <3>1
    <2> HIDE DEF Step
    <2> QED BY <2>3
  <1> HIDE DEF After
  <1>3. AddCalls(calls, <<>>) = calls
    <2>1. Len(<<>>) = 0 /\ 0 \in 0..0
      OBVIOUS
    <2>2. After(<<>>)[0] = calls
      BY <1>2, <2>1
    <2> QED BY <1>1, <2>1, <2>2
  <1>4. ASSUME NEW s \in {<<x>>, <<x, y>>}
        PROVE  After(s)[1] = AddFragment(calls, s[1])
    <2>1. 0 \in 0..Len(s) /\ 1 \in 0..Len(s) /\ 1 - 1 = 0
      OBVIOUS
    <2>2. After(s) = Step(s, After(s))
      BY <1>2
    <2>3. After(s)[0] = calls
      BY <2>1, <2>2
    <2>4. After(s)[1] = AddFragment(After(s)[1 - 1], s[1])
      BY <2>1, <2>2
    <2> QED BY <2>1, <2>3, <2>4
  <1>5. AddCalls(calls, <<x>>) = AddFragment(calls, x)
    <2>1. Len(<<x>>) = 1 /\ <<x>>[1] = x
      OBVIOUS
    <2> QED BY <1>1, <1>4, <2>1
  <1>6. AddCalls(calls, <<x, y>>) = AddFragment(AddFragment(calls, x), y)
    <2> DEFINE s == <<x, y>>
    <2>1. Len(s) = 2 /\ s[1] = x /\ s[2] = y /\ 2 \in 0..2 /\ 2 - 1 = 1
      OBVIOUS
    <2>2. After(s) = Step(s, After(s)) /\ After(s)[1] = AddFragment(calls, x)
      BY <1>2, <1>4, <2>1
    <2> HIDE DEF s
    <2>3. After(s)[2] = AddFragment(After(s)[2 - 1], s[2])
      BY <2>1, <2>2
    <2>4. AddCalls(calls, s) = AddFragment(AddFragment(calls, x), y)
      BY <1>1, <2>1, <2>2, <2>3
    <2> QED BY <2>4 DEF s
  <1> QED BY <1>3, <1>5, <1>6 DEF AddsBoth

OneCall(said) == \A c, e \in CallsIn(said) : c = e

\* Every call is where its fragments find it, or there are two of them that
\* nothing tells apart.
CallsOK(said, calls) ==
  \/ /\ style = "bare" => OneCall(said)
     /\ \E slot : Holds(said, calls, slot)
  \/ /\ style = "bare"
     /\ IsFiniteSet(DOMAIN calls) /\ {0, 1} \subseteq DOMAIN calls

LEMMA SlotsStayTwo ==
  ASSUME NEW calls, NEW d,
         IsFiniteSet(DOMAIN calls), {0, 1} \subseteq DOMAIN calls
  PROVE  /\ IsFiniteSet(DOMAIN AddFragment(calls, d))
         /\ {0, 1} \subseteq DOMAIN AddFragment(calls, d)
  <1> DEFINE i == Slot(calls, d)
             new == AddFragment(calls, d)
  <1>1. Added(calls, d, i, new)
    BY AddFragmentIs, Zenon
  <1> HIDE DEF i, new
  <1>2. DOMAIN new = DOMAIN calls \cup {i}
    BY <1>1 DEF Added
  <1>3. IsFiniteSet(DOMAIN new)
    BY <1>2, FS_AddElement
  <1> QED BY <1>2, <1>3 DEF new

LEMMA SecondBareCall ==
  ASSUME NEW said \in Seq(Frag), NEW c \in ToolCall, NEW args, NEW calls,
         NEW slot, Holds(said, calls, slot), NEW d,
         d = FragmentIn(said, c, args), style = "bare",
         OneCall(said), c \notin CallsIn(said), CallsIn(said) # {}
  PROVE  /\ IsFiniteSet(DOMAIN AddFragment(calls, d))
         /\ {0, 1} \subseteq DOMAIN AddFragment(calls, d)
  <1> DEFINE i == Slot(calls, d)
             new == AddFragment(calls, d)
  <1>1. c # Absent /\ d.index = Absent /\ d.id = c /\ ~Indexed
    BY FragmentInIs, ProviderAssumption DEF Indexed
  <1>2. PICK e \in CallsIn(said) : CallsIn(said) = {e}
    BY DEF OneCall
  <1>3. DOMAIN calls = {slot[e]} /\ slot[e] \in Nat
    <2>1. /\ DOMAIN calls = {slot[b] : b \in CallsIn(said)}
          /\ slot \in [CallsIn(said) -> Nat]
      BY DEF Holds
    <2> QED BY <1>2, <2>1
  <1>4. PICK n \in Nat : DOMAIN calls = 0..n - 1
    BY <1>1 DEF Holds
  <1>5. DOMAIN calls = 0..1 - 1 /\ 0 \in DOMAIN calls
    <2> DEFINE k == slot[e]
    <2>1. k \in 0..n - 1 /\ 0 \in 0..n - 1
      <3>1. k \in 0..n - 1
        BY <1>3, <1>4
      <3> QED BY <1>4, <3>1
    <2>2. k = 0
      BY <1>3, <1>4, <2>1
    <2>3. DOMAIN calls = {0}
      BY <1>3, <2>2
    <2>4. 0..1 - 1 = {0}
      OBVIOUS
    <2> QED BY <2>3, <2>4
  <1>6. calls[0].id \notin {Absent, c} /\ SlotsOf(calls, c) = {}
    <2>1. style # "nameless"
      OBVIOUS
    <2>2. calls[0].id \in CallsIn(said) /\ Absent \notin CallsIn(said)
      BY <2>1, <1>5, SlotById
    <2>3. SlotsOf(calls, c) = {}
      BY <2>1, SlotById
    <2> QED BY <2>2, <2>3
  <1>7. FirstFree(calls) = 1
    BY <1>5, FirstFreeIs
  <1>8. i = 1
    BY <1>1, <1>5, <1>6, <1>7 DEF Slot
  <1>9. Added(calls, d, i, new)
    BY AddFragmentIs, Zenon
  <1> HIDE DEF i, new
  <1>10. DOMAIN new = {0, 1}
    BY <1>5, <1>8, <1>9 DEF Added
  <1>11. IsFiniteSet({0, 1})
    <2>1. 0 \in Int /\ 1 \in Int
      OBVIOUS
    <2>2. IsFiniteSet(0..1)
      BY <2>1, FS_Interval, Zenon
    <2>3. 0..1 = {0, 1}
      OBVIOUS
    <2> QED BY <2>2, <2>3
  <1> QED BY <1>10, <1>11 DEF new

\* One more fragment keeps it so.
LEMMA FragmentKeeps ==
  ASSUME NEW said \in Seq(Frag), NEW f \in Frag, NEW calls, style \in Style,
         CallsOK(said, calls), NEW d, d = FragmentIn(said, f.call, f.args)
  PROVE  CallsOK(Append(said, f), AddFragment(calls, d))
  <1> DEFINE c == f.call
             new == AddFragment(calls, d)
             more == Append(said, f)
  <1>0. c \in ToolCall /\ d.args = f.args
    BY FragmentInIs DEF Frag
  <1>1. CASE /\ style = "bare" /\ IsFiniteSet(DOMAIN calls)
             /\ {0, 1} \subseteq DOMAIN calls
    BY <1>1, SlotsStayTwo DEF CallsOK
  <1>2. CASE /\ style = "bare" => OneCall(said)
             /\ \E slot : Holds(said, calls, slot)
    <2>1. PICK slot : Holds(said, calls, slot)
      BY <1>2
    <2>2. CASE style = "bare" => CallsIn(said) \subseteq {c}
      <3> DEFINE i == Slot(calls, d)
      <3>1. Found1(said, calls, slot, c, i, d.id)
        BY <1>0, <2>1, <2>2, SlotIs
      <3>2. \E s : Holds(more, new, s)
        <4>1. CASE c \in CallsIn(said)
          <5>1. Holds(more, new, slot)
            BY <1>0, <2>1, <3>1, <4>1, HoldsOld
          <5> HIDE DEF more, new
          <5> QED BY <5>1
        <4>2. CASE c \notin CallsIn(said)
          <5>1. Holds(more, new, WithSlot(said, slot, c, i))
            BY <1>0, <2>1, <3>1, <4>2, HoldsNew
          <5> HIDE DEF more, new, i
          <5> QED BY <5>1
        <4> QED BY <4>1, <4>2
      <3>3. style = "bare" => OneCall(more)
        <4>1. CallsIn(more) = CallsIn(said) \cup {c}
          BY CallsAppend
        <4> HIDE DEF more
        <4> QED BY <2>2, <4>1 DEF OneCall
      <3> HIDE DEF more, new
      <3>4. CallsOK(more, new)
        BY <3>2, <3>3 DEF CallsOK
      <3> QED BY <3>4 DEF more, new
    <2>3. CASE ~(style = "bare" => CallsIn(said) \subseteq {c})
      <3>1. /\ style = "bare" /\ OneCall(said)
            /\ c \notin CallsIn(said) /\ CallsIn(said) # {}
        BY <1>2, <2>3 DEF OneCall
      <3> QED BY <1>0, <2>1, <3>1, SecondBareCall DEF CallsOK
    <2> QED BY <2>2, <2>3
  <1> QED BY <1>1, <1>2 DEF CallsOK

\* So do those of a chunk, which speaks of one call or of two.
ChunkCalls(said, item) ==
  \/ item.said = <<>> /\ item.chunk.calls = <<>>
  \/ \E f \in Frag :
       /\ item.said = <<f>> /\ item.chunk.choice = 0
       /\ item.chunk.calls = <<FragmentIn(said, f.call, f.args)>>
  \/ \E f, g \in Frag :
       /\ item.said = <<f, g>> /\ f.call # g.call /\ item.chunk.choice = 0
       /\ item.chunk.calls = <<FragmentIn(said, f.call, f.args),
                               FragmentIn(said, g.call, g.args)>>

LEMMA ChunkKeeps ==
  ASSUME NEW said \in Seq(Frag), NEW item, NEW calls, style \in Style,
         CallsOK(said, calls), ChunkCalls(said, item)
  PROVE  CallsOK(said \o item.said, AddCalls(calls, item.chunk.calls))
  <1>1. CASE item.said = <<>> /\ item.chunk.calls = <<>>
    <2>1. said \o item.said = said
      BY <1>1, ConcatEmptySeq
    <2>2. AddCalls(calls, item.chunk.calls) = calls
      BY <1>1, AddCallsIs
    <2> QED BY <2>1, <2>2
  <1>2. ASSUME NEW f \in Frag, item.said = <<f>>,
               item.chunk.calls = <<FragmentIn(said, f.call, f.args)>>
        PROVE  CallsOK(said \o item.said, AddCalls(calls, item.chunk.calls))
    <2> DEFINE d == FragmentIn(said, f.call, f.args)
    <2>1. CallsOK(Append(said, f), AddFragment(calls, d))
      BY FragmentKeeps
    <2> HIDE DEF d
    <2>2. said \o item.said = Append(said, f)
      BY <1>2
    <2>3. AddCalls(calls, <<d>>) = AddFragment(calls, d)
      BY AddCallsIs
    <2> QED BY <1>2, <2>1, <2>2, <2>3 DEF d
  <1>3. ASSUME NEW f \in Frag, NEW g \in Frag, item.said = <<f, g>>,
               f.call # g.call,
               item.chunk.calls = <<FragmentIn(said, f.call, f.args),
                                    FragmentIn(said, g.call, g.args)>>
        PROVE  CallsOK(said \o item.said, AddCalls(calls, item.chunk.calls))
    <2> DEFINE d == FragmentIn(said, f.call, f.args)
               e == FragmentIn(said, g.call, g.args)
               more == Append(said, f)
               one == AddFragment(calls, d)
    <2>1. more \in Seq(Frag)
      OBVIOUS
    <2>2. CallsOK(more, one)
      BY FragmentKeeps
    <2>3. e = FragmentIn(more, g.call, g.args)
      <3>1. g.call \in CallsIn(more) <=> g.call \in CallsIn(said)
        <4>1. CallsIn(more) = CallsIn(said) \cup {f.call}
          BY CallsAppend
        <4> HIDE DEF more
        <4> QED BY <1>3, <4>1
      <3> HIDE DEF more
      <3> QED BY <3>1 DEF FragmentIn
    <2>4. said \o item.said = Append(more, g)
      BY <1>3
    <2> HIDE DEF d, e, more, one
    <2>5. CallsOK(Append(more, g), AddFragment(one, e))
      BY <2>1, <2>2, <2>3, FragmentKeeps
    <2>6. AddCalls(calls, <<d, e>>) = AddFragment(one, e)
      <3>1. AddsBoth(calls, d, e)
        BY AddCallsIs, Zenon
      <3> QED BY <3>1 DEF AddsBoth, one
    <2> QED BY <1>3, <2>4, <2>5, <2>6 DEF d, e
  <1> QED BY <1>1, <1>2, <1>3 DEF ChunkCalls

-----------------------------------------------------------------------------
(* What the items say, and what the accumulator has of it.                  *)

\* Pieces q are the n pieces p and x.
OneMore(S, n, p, q, x) ==
  /\ DOMAIN p = 1..n /\ p = [i \in DOMAIN p |-> p[i]]
  /\ DOMAIN q = 1..n + 1 /\ q = [i \in DOMAIN q |-> q[i]]
  /\ q[n + 1] = x /\ \A i \in 1..n : p[i] \in Seq(S) /\ q[i] = p[i]

LEMMA FlattenMore ==
  ASSUME NEW S, NEW n \in Nat, NEW p, NEW q, NEW x \in Seq(S),
         OneMore(S, n, p, q, x)
  PROVE  FlattenSeq(q) = FlattenSeq(p) \o x /\ FlattenSeq(p) \in Seq(S)
  <1> USE DEF OneMore
  <1>1. p \in Seq(Seq(S)) /\ Len(p) = n
    BY IsASeq
  <1>2. q = Append(p, x)
    <2> DEFINE r == Append(p, x)
    <2>1. r \in Seq(Seq(S)) /\ Len(r) = n + 1
      BY <1>1
    <2>2. /\ DOMAIN r = 1..n + 1 /\ r[n + 1] = x
          /\ \A i \in 1..n : r[i] = p[i]
      BY <1>1, AppendFacts
    <2> HIDE DEF r
    <2>3. r = [i \in 1..n + 1 |-> r[i]]
      BY <2>1
    <2>4. \A i \in 1..n + 1 : r[i] = q[i]
      <3> SUFFICES ASSUME NEW i \in 1..n + 1 PROVE r[i] = q[i]
        OBVIOUS
      <3>1. i \in 1..n \/ i = n + 1
        OBVIOUS
      <3> QED BY <2>2, <3>1
    <2> QED BY <2>3, <2>4 DEF r
  <1> QED BY <1>1, <1>2, FlattenAppend

LEMMA SaidAppend ==
  ASSUME NEW items, IsSeq(items),
         \A i \in DOMAIN items : items[i].said \in Seq(Frag),
         NEW item, item.said \in Seq(Frag)
  PROVE  /\ SaidBy(Append(items, item)) = SaidBy(items) \o item.said
         /\ SaidBy(items) \in Seq(Frag)
  <1> DEFINE more == Append(items, item)
             n == Len(items)
             p == [i \in DOMAIN items |-> items[i].said]
             q == [i \in DOMAIN more |-> more[i].said]
  <1>1. /\ n \in Nat /\ DOMAIN items = 1..n /\ DOMAIN more = 1..n + 1
        /\ more[n + 1] = item /\ \A i \in 1..n : more[i] = items[i]
    BY AppendIsSeq
  <1> HIDE DEF more, n
  <1>2. OneMore(Frag, n, p, q, item.said)
    BY <1>1 DEF OneMore
  <1> HIDE DEF p, q
  <1>3. /\ FlattenSeq(q) = FlattenSeq(p) \o item.said
        /\ FlattenSeq(p) \in Seq(Frag)
    BY <1>1, <1>2, FlattenMore, Zenon
  <1> QED BY <1>3 DEF SaidBy, p, q, more

TextOf(item) == IF item.chunk.choice = 0 THEN item.chunk.content ELSE <<>>

LEMMA TextAppend ==
  ASSUME NEW items, IsSeq(items),
         \A i \in DOMAIN items : TextOf(items[i]) \in Seq(Nat),
         NEW item, TextOf(item) \in Seq(Nat)
  PROVE  /\ TextIn(Append(items, item)) = TextIn(items) \o TextOf(item)
         /\ TextIn(items) \in Seq(Nat)
  <1> DEFINE more == Append(items, item)
             n == Len(items)
             p == [i \in DOMAIN items |-> TextOf(items[i])]
             q == [i \in DOMAIN more |-> TextOf(more[i])]
  <1>1. /\ n \in Nat /\ DOMAIN items = 1..n /\ DOMAIN more = 1..n + 1
        /\ more[n + 1] = item /\ \A i \in 1..n : more[i] = items[i]
    BY AppendIsSeq
  <1> HIDE DEF more, n
  <1>2. OneMore(Nat, n, p, q, TextOf(item))
    BY <1>1 DEF OneMore
  <1> HIDE DEF p, q
  <1>3. /\ FlattenSeq(q) = FlattenSeq(p) \o TextOf(item)
        /\ FlattenSeq(p) \in Seq(Nat)
    BY <1>1, <1>2, FlattenMore
  <1> QED BY <1>3 DEF TextIn, TextOf, p, q, more

\* What items are.
Sensible(item) ==
  /\ item.said \in Seq(Frag) /\ item.chunk.content \in Seq(Nat)
  /\ item.chunk.role \in {Absent, "assistant"}
  /\ item.chunk.usage \in {Absent, "usage"}
  /\ item.chunk.choice = 0 => item.chunk.finish \in {Absent, "tool_calls"}

EndedIn(items) ==
  \E i \in DOMAIN items : /\ items[i].chunk.choice = 0
                          /\ items[i].chunk.finish = "tool_calls"

CountedIn(items) == \E i \in DOMAIN items : items[i].chunk.usage = "usage"

\* The accumulator has what the items say.
AccOK(items, a) ==
  /\ a = [role |-> a.role, content |-> a.content, calls |-> a.calls,
          finish |-> a.finish, usage |-> a.usage]
  /\ a.role \in {Absent, "assistant"}
  /\ a.content = TextIn(items)
  /\ a.finish = IF EndedIn(items) THEN "tool_calls" ELSE Absent
  /\ a.usage = IF CountedIn(items) THEN "usage" ELSE Absent
  /\ CallsOK(SaidBy(items), a.calls)

\* What Add makes of accumulator a and chunk c.
AddsChunk(a, c, b) ==
  /\ b = [role |-> b.role, content |-> b.content, calls |-> b.calls,
          finish |-> b.finish, usage |-> b.usage]
  /\ b.usage = IF c.usage # Absent THEN c.usage ELSE a.usage
  /\ c.choice # 0 => /\ b.role = a.role /\ b.content = a.content
                     /\ b.calls = a.calls /\ b.finish = a.finish
  /\ c.choice = 0 =>
       /\ b.content = a.content \o c.content
       /\ b.calls = AddCalls(a.calls, c.calls)
       /\ b.role = IF c.role # Absent THEN c.role ELSE a.role
       /\ b.finish = SetIfAbsent(a.finish, c.finish)

LEMMA AddIs ==
  ASSUME NEW a, NEW c,
         a = [role |-> a.role, content |-> a.content, calls |-> a.calls,
              finish |-> a.finish, usage |-> a.usage]
  PROVE  AddsChunk(a, c, Add(a, c))
  <1> DEFINE u == IF c.usage # Absent THEN c.usage ELSE a.usage
             b == Add(a, c)
  <1>1. [a EXCEPT !.usage = u]
          = [role |-> a.role, content |-> a.content, calls |-> a.calls,
             finish |-> a.finish, usage |-> u]
    OBVIOUS
  <1>2. CASE c.choice # 0
    <2>1. b = [role |-> a.role, content |-> a.content, calls |-> a.calls,
               finish |-> a.finish, usage |-> u]
      BY <1>1, <1>2 DEF Add
    <2> HIDE DEF b
    <2>2. AddsChunk(a, c, b)
      BY <1>2, <2>1 DEF AddsChunk
    <2> QED BY <2>2 DEF b
  <1>3. CASE c.choice = 0
    <2>1. b = [role |-> IF c.role # Absent THEN c.role ELSE a.role,
               content |-> a.content \o c.content,
               calls |-> AddCalls(a.calls, c.calls),
               finish |-> SetIfAbsent(a.finish, c.finish), usage |-> u]
      BY <1>1, <1>3 DEF Add
    <2> HIDE DEF b
    <2>2. AddsChunk(a, c, b)
      BY <1>3, <2>1 DEF AddsChunk
    <2> QED BY <2>2 DEF b
  <1> QED BY <1>2, <1>3

LEMMA EndedAppend ==
  ASSUME NEW items, IsSeq(items), NEW item
  PROVE  /\ EndedIn(Append(items, item)) <=>
              \/ EndedIn(items)
              \/ item.chunk.choice = 0 /\ item.chunk.finish = "tool_calls"
         /\ CountedIn(Append(items, item)) <=>
              CountedIn(items) \/ item.chunk.usage = "usage"
  <1> DEFINE more == Append(items, item)
             n == Len(items)
  <1>1. /\ n \in Nat /\ DOMAIN items = 1..n /\ DOMAIN more = 1..n + 1
        /\ more[n + 1] = item /\ \A i \in 1..n : more[i] = items[i]
    BY AppendIsSeq
  <1> HIDE DEF more, n
  <1>2. /\ n + 1 \in 1..n + 1 /\ \A i \in 1..n : i \in 1..n + 1
        /\ \A i \in 1..n + 1 : i \in 1..n \/ i = n + 1
    BY <1>1
  <1>3. EndedIn(more) <=>
          \/ EndedIn(items)
          \/ item.chunk.choice = 0 /\ item.chunk.finish = "tool_calls"
    <2>1. ASSUME EndedIn(more)
          PROVE  \/ EndedIn(items)
                 \/ item.chunk.choice = 0 /\ item.chunk.finish = "tool_calls"
      BY <1>1, <1>2, <2>1 DEF EndedIn
    <2>2. ASSUME \/ EndedIn(items)
                 \/ item.chunk.choice = 0 /\ item.chunk.finish = "tool_calls"
          PROVE  EndedIn(more)
      BY <1>1, <1>2, <2>2 DEF EndedIn
    <2> QED BY <2>1, <2>2
  <1>4. CountedIn(more) <=> CountedIn(items) \/ item.chunk.usage = "usage"
    BY <1>1, <1>2 DEF CountedIn
  <1> QED BY <1>3, <1>4 DEF more

\* One more item received.
LEMMA ItemIsAdded ==
  ASSUME NEW items, IsSeq(items), \A i \in DOMAIN items : Sensible(items[i]),
         NEW item, Sensible(item), NEW a, AccOK(items, a), style \in Style,
         ChunkCalls(SaidBy(items), item)
  PROVE  AccOK(Append(items, item), Add(a, item.chunk))
  <1> DEFINE more == Append(items, item)
             c == item.chunk
             b == Add(a, c)
             said == SaidBy(items)
  <1>0. "tool_calls" # Absent
    BY ProviderAssumption
  <1>1. /\ b = [role |-> b.role, content |-> b.content, calls |-> b.calls,
                finish |-> b.finish, usage |-> b.usage]
        /\ b.usage = IF c.usage # Absent THEN c.usage ELSE a.usage
        /\ c.choice # 0 => /\ b.role = a.role /\ b.content = a.content
                           /\ b.calls = a.calls /\ b.finish = a.finish
        /\ c.choice = 0 =>
             /\ b.content = a.content \o c.content
             /\ b.calls = AddCalls(a.calls, c.calls)
             /\ b.role = IF c.role # Absent THEN c.role ELSE a.role
             /\ b.finish = SetIfAbsent(a.finish, c.finish)
    <2>1. a = [role |-> a.role, content |-> a.content, calls |-> a.calls,
               finish |-> a.finish, usage |-> a.usage]
      BY DEF AccOK
    <2>2. AddsChunk(a, c, b)
      BY <2>1, AddIs, Zenon
    <2> HIDE DEF b, c
    <2> QED BY <2>2 DEF AddsChunk
  <1>2. /\ SaidBy(more) = said \o item.said /\ said \in Seq(Frag)
        /\ TextIn(more) = TextIn(items) \o TextOf(item)
        /\ TextIn(items) \in Seq(Nat)
    <2>1. /\ SaidBy(more) = said \o item.said /\ said \in Seq(Frag)
      BY SaidAppend DEF Sensible
    <2>2. <<>> \in Seq(Nat)
      OBVIOUS
    <2>3. /\ TextIn(more) = TextIn(items) \o TextOf(item)
          /\ TextIn(items) \in Seq(Nat)
      BY <2>2, TextAppend DEF Sensible, TextOf
    <2> QED BY <2>1, <2>3
  <1>3. /\ EndedIn(more) <=>
             EndedIn(items) \/ (c.choice = 0 /\ c.finish = "tool_calls")
        /\ CountedIn(more) <=> CountedIn(items) \/ c.usage = "usage"
    BY EndedAppend, Zenon
  <1> HIDE DEF more, b, said
  <1>4. b.role \in {Absent, "assistant"}
    BY <1>1 DEF Sensible, AccOK
  <1>5. b.content = TextIn(more)
    <2>1. CASE c.choice = 0
      BY <1>1, <1>2, <2>1 DEF AccOK, TextOf
    <2>2. CASE c.choice # 0
      BY <1>1, <1>2, <2>2, ConcatEmptySeq DEF AccOK, TextOf
    <2> QED BY <2>1, <2>2
  <1>6. b.finish = IF EndedIn(more) THEN "tool_calls" ELSE Absent
    <2>1. /\ a.finish = IF EndedIn(items) THEN "tool_calls" ELSE Absent
          /\ c.choice = 0 => c.finish \in {Absent, "tool_calls"}
      BY DEF AccOK, Sensible
    <2> HIDE DEF c
    <2> QED BY <1>0, <1>1, <1>3, <2>1 DEF SetIfAbsent
  <1>7. b.usage = IF CountedIn(more) THEN "usage" ELSE Absent
    BY <1>1, <1>3 DEF AccOK, Sensible
  <1>8. CallsOK(SaidBy(more), b.calls)
    <2>1. CASE c.choice = 0
      <3>1. CallsOK(said \o item.said, AddCalls(a.calls, c.calls))
        BY <1>2, ChunkKeeps DEF AccOK, said
      <3> QED BY <1>1, <1>2, <2>1, <3>1
    <2>2. CASE c.choice # 0
      <3>1. item.said = <<>>
        BY <2>2 DEF ChunkCalls
      <3>2. SaidBy(more) = said
        BY <1>2, <3>1, ConcatEmptySeq
      <3> QED BY <1>1, <2>2, <3>2 DEF AccOK, said
    <2> QED BY <2>1, <2>2
  <1> QED BY <1>1, <1>4, <1>5, <1>6, <1>7, <1>8 DEF AccOK, more, b

LEMMA NothingSaid ==
  AccOK(<<>>, NewAccumulator)
  <1>1. SaidBy(<<>>) = <<>> /\ TextIn(<<>>) = <<>>
    <2>1. FlattenSeq(<<>>) = <<>>
      BY DEF FlattenSeq
    <2> QED BY <2>1 DEF SaidBy, TextIn
  <1>2. CallsIn(<<>>) = {} /\ \A c : ArgsOf(<<>>, c) = <<>>
    <2>1. FlattenSeq(<<>>) = <<>>
      BY DEF FlattenSeq
    <2> QED BY <2>1 DEF CallsIn, ArgsOf
  <1>3. CallsOK(<<>>, <<>>)
    <2> DEFINE slot == [c \in {} |-> 0]
    <2>1. Holds(<<>>, <<>>, slot)
      <3>1. slot \in [{} -> Nat] /\ DOMAIN <<>> = {} /\ {} = 0..0 - 1
        OBVIOUS
      <3> HIDE DEF slot
      <3>2. DOMAIN <<>> = {slot[c] : c \in {}}
        BY <3>1
      <3>3. \E n \in Nat : DOMAIN <<>> = 0..n - 1
        BY <3>1
      <3> QED BY <1>2, <3>1, <3>2, <3>3 DEF Holds
    <2> HIDE DEF slot
    <2> QED BY <1>2, <2>1 DEF CallsOK, OneCall
  <1> QED BY <1>1, <1>3 DEF AccOK, NewAccumulator, EndedIn, CountedIn

-----------------------------------------------------------------------------
(* Assembling, step by step.                                               *)

\* The inductive invariant, with StreamOK.
AssembledOK ==
  /\ style \in Style
  /\ \A i \in DOMAIN sent : Sensible(sent[i])
  /\ AccOK(got, acc)
  /\ got # sent => ChunkCalls(SaidBy(got), Last(sent))

LEMMA SaidTyped ==
  ASSUME NEW items, IsSeq(items), \A i \in DOMAIN items : Sensible(items[i])
  PROVE  SaidBy(items) \in Seq(Frag)
  <1> DEFINE item == [said |-> <<>>]
  <1>1. item.said \in Seq(Frag)
    OBVIOUS
  <1>2. \A i \in DOMAIN items : items[i].said \in Seq(Frag)
    BY DEF Sensible
  <1> HIDE DEF item
  <1> QED BY <1>1, <1>2, SaidAppend

LEMMA SpokenCounts ==
  ASSUME SaidBy(sent) \in Seq(Frag), NEW c
  PROVE  /\ Spoken(c) \in Nat
         /\ Spoken(c) = 0 <=> c \notin CallsIn(SaidBy(sent))
  <1> DEFINE said == SaidBy(sent)
             T == {i \in DOMAIN said : said[i].call = c}
  <1>1. DOMAIN said = 1..Len(said) /\ Len(said) \in Nat
    OBVIOUS
  <1> HIDE DEF said
  <1>2. IsFiniteSet(T)
    <2>1. IsFiniteSet(1..Len(said))
      BY <1>1, FS_Interval
    <2> QED BY <1>1, <2>1, FS_Subset
  <1>3. Cardinality(T) \in Nat /\ (Cardinality(T) = 0 <=> T = {})
    BY <1>2, FS_CardinalityType, FS_EmptySet
  <1>4. T = {} <=> c \notin CallsIn(said)
    BY DEF CallsIn
  <1> QED BY <1>3, <1>4 DEF Spoken, said

LEMMA FragmentOfIs ==
  ASSUME SaidBy(sent) \in Seq(Frag), NEW c, NEW args
  PROVE  FragmentOf(c, args) = FragmentIn(SaidBy(sent), c, args)
  BY SpokenCounts DEF FragmentOf, FragmentIn

LEMMA PiecesAreFragments ==
  ASSUME SaidBy(sent) \in Seq(Frag), NEW c \in ToolCall, NEW f \in Pieces(c)
  PROVE  f \in Frag
  <1>1. Spoken(c) \in Nat
    BY SpokenCounts
  <1>2. PICK args : /\ f = [call |-> c, args |-> args]
                    /\ args = <<<<c, Spoken(c)>>>> \/ args = <<>>
    BY DEF Pieces
  <1>3. args \in Seq(ToolCall \X Nat)
    <2> DEFINE p == <<c, Spoken(c)>>
    <2>1. p \in ToolCall \X Nat
      BY <1>1
    <2> HIDE DEF p
    <2>2. <<p>> \in Seq(ToolCall \X Nat) /\ <<>> \in Seq(ToolCall \X Nat)
      BY <2>1
    <2> QED BY <1>2, <2>2 DEF p
  <1> QED BY <1>2, <1>3 DEF Frag

LEMMA CallItemsFit ==
  ASSUME SaidBy(sent) \in Seq(Frag), NEW item \in CallItems
  PROVE  Sensible(item) /\ ChunkCalls(SaidBy(sent), item)
  <1> DEFINE pieces ==
               UNION {Pieces(c) : c \in {d \in ToolCall : MaySpeakOf(d)}}
             F(f) == FragmentIn(SaidBy(sent), f.call, f.args)
             Of(said) == [i \in DOMAIN said |->
                            FragmentOf(said[i].call, said[i].args)]
  <1>1. \A f \in pieces : f \in Frag
    BY PiecesAreFragments
  <1> HIDE DEF pieces
  <1>2. ASSUME NEW said
        PROVE  /\ CallItem(said).said = said
               /\ CallItem(said).chunk = [Chunk EXCEPT !.calls = Of(said)]
               /\ CallItem(said).chunk.calls = Of(said)
               /\ CallItem(said).chunk.choice = 0
               /\ CallItem(said).chunk.content = <<>>
               /\ CallItem(said).chunk.role = Absent
               /\ CallItem(said).chunk.usage = Absent
               /\ CallItem(said).chunk.finish = Absent
    <2>1. CallItem(said) = Item(FALSE, [Chunk EXCEPT !.calls = Of(said)], said)
      BY DEF CallItem
    <2> HIDE DEF Of
    <2> QED BY <2>1 DEF Item, Chunk
  <1>3. ASSUME NEW said \in Seq(Frag) PROVE Sensible(CallItem(said))
    <2>1. <<>> \in Seq(Nat)
      OBVIOUS
    <2> QED BY <1>2, <2>1 DEF Sensible
  <1>4. ASSUME NEW f \in pieces, item = CallItem(<<f>>)
        PROVE  Sensible(item) /\ ChunkCalls(SaidBy(sent), item)
    <2>1. f \in Frag /\ <<f>> \in Seq(Frag)
      BY <1>1
    <2>2. Of(<<f>>) = <<F(f)>>
      <3>1. FragmentOf(f.call, f.args) = F(f)
        BY FragmentOfIs
      <3> HIDE DEF F
      <3> QED BY <3>1
    <2> HIDE DEF Of
    <2>3. /\ item.chunk.calls = <<F(f)>> /\ item.said = <<f>>
          /\ item.chunk.choice = 0
      BY <1>2, <1>4, <2>2
    <2> QED BY <1>3, <1>4, <2>1, <2>3 DEF ChunkCalls
  <1>5. ASSUME NEW f \in pieces, NEW g \in pieces, f.call # g.call,
               item = CallItem(<<f, g>>)
        PROVE  Sensible(item) /\ ChunkCalls(SaidBy(sent), item)
    <2>1. f \in Frag /\ g \in Frag /\ <<f, g>> \in Seq(Frag)
      BY <1>1
    <2>2. Of(<<f, g>>) = <<F(f), F(g)>>
      <3>1. /\ FragmentOf(f.call, f.args) = F(f)
            /\ FragmentOf(g.call, g.args) = F(g)
        BY FragmentOfIs
      <3> HIDE DEF F
      <3> QED BY <3>1
    <2> HIDE DEF Of
    <2>3. /\ item.chunk.calls = <<F(f), F(g)>> /\ item.said = <<f, g>>
          /\ item.chunk.choice = 0
      BY <1>2, <1>5, <2>2
    <2> QED BY <1>3, <1>5, <2>1, <2>3 DEF ChunkCalls
  <1>6. CASE item \in {CallItem(<<f>>) : f \in pieces}
    BY <1>4, <1>6
  <1>7. CASE item \in {CallItem(p) : p \in {q \in pieces \X pieces :
                                             q[1].call # q[2].call}}
    <2>1. PICK p \in pieces \X pieces :
            item = CallItem(p) /\ p[1].call # p[2].call
      BY <1>7
    <2>2. p = <<p[1], p[2]>> /\ p[1] \in pieces /\ p[2] \in pieces
      OBVIOUS
    <2> QED BY <1>5, <2>1, <2>2
  <1> QED BY <1>6, <1>7 DEF CallItems, pieces

Sayable == CallItems \cup TextItems \cup Endings \cup {UsageItem}

LEMMA ItemsFit ==
  ASSUME SaidBy(sent) \in Seq(Frag), Len(sent) \in Nat,
         NEW item \in Sayable
  PROVE  Sensible(item) /\ ChunkCalls(SaidBy(sent), item)
  <1>0. <<>> \in Seq(Nat) /\ <<>> \in Seq(Frag) /\ <<Len(sent)>> \in Seq(Nat)
    OBVIOUS
  <1>1. CASE item \in CallItems
    BY <1>1, CallItemsFit
  <1>2. ASSUME item.said = <<>>, item.chunk.calls = <<>>,
               item.chunk.content \in Seq(Nat),
               item.chunk.role \in {Absent, "assistant"},
               item.chunk.usage \in {Absent, "usage"},
               item.chunk.choice = 0
                 => item.chunk.finish \in {Absent, "tool_calls"}
        PROVE  Sensible(item) /\ ChunkCalls(SaidBy(sent), item)
    BY <1>0, <1>2 DEF Sensible, ChunkCalls
  <1>3. CASE item \in TextItems
    <2>1. CASE item = Plain([Chunk EXCEPT !.role = "assistant",
                                          !.content = <<Len(sent)>>])
      <3>1. /\ item.said = <<>> /\ item.chunk.calls = <<>>
            /\ item.chunk.content = <<Len(sent)>>
            /\ item.chunk.role = "assistant" /\ item.chunk.usage = Absent
            /\ item.chunk.finish = Absent
        BY <2>1 DEF Plain, Item, Chunk
      <3> QED BY <1>0, <1>2, <3>1
    <2>2. CASE item = Plain([Chunk EXCEPT !.choice = 1,
                                          !.content = <<Len(sent)>>,
                                          !.finish = "length"])
      <3>1. /\ item.said = <<>> /\ item.chunk.calls = <<>>
            /\ item.chunk.content = <<Len(sent)>>
            /\ item.chunk.role = Absent /\ item.chunk.usage = Absent
            /\ item.chunk.choice = 1
        BY <2>2 DEF Plain, Item, Chunk
      <3> QED BY <1>0, <1>2, <3>1
    <2> QED BY <1>3, <2>1, <2>2 DEF TextItems
  <1>4. CASE item \in Endings
    <2>1. CASE item = Plain([Chunk EXCEPT !.finish = "tool_calls"])
      <3>1. /\ item.said = <<>> /\ item.chunk.calls = <<>>
            /\ item.chunk.content = <<>>
            /\ item.chunk.role = Absent /\ item.chunk.usage = Absent
            /\ item.chunk.finish = "tool_calls"
        BY <2>1 DEF Plain, Item, Chunk
      <3> QED BY <1>0, <1>2, <3>1
    <2>2. CASE item = Item(TRUE, Chunk, <<>>)
      BY <1>0, <1>2, <2>2 DEF Item, Chunk
    <2> QED BY <1>4, <2>1, <2>2 DEF Endings
  <1>5. CASE item = UsageItem
    <2>1. /\ item.said = <<>> /\ item.chunk.calls = <<>>
          /\ item.chunk.content = <<>> /\ item.chunk.finish = Absent
          /\ item.chunk.role = Absent /\ item.chunk.usage = "usage"
      BY <1>5 DEF UsageItem, Plain, Item, Chunk
    <2> QED BY <1>0, <1>2, <2>1
  <1> QED BY <1>1, <1>3, <1>4, <1>5 DEF Sayable

\* A step receives nothing, or an item.
Receives(items) ==
  \/ got' = got /\ acc' = acc
  \/ \E n : /\ got' = Append(got, items[n])
            /\ acc' = Add(acc, items[n].chunk)

LEMMA RecvReceives ==
  ASSUME NEW d, NEW items, Recv(d, items),
         d.says \in {"reading", "eof", "too large", "payload"}
  PROVE  Receives(items)
  <1>1. CASE d.says = "reading"
    BY <1>1 DEF Recv, Receives
  <1>2. CASE d.says \in {"eof", "too large"}
    BY <1>2 DEF Recv, Receives
  <1>3. CASE d.says = "payload"
    <2> DEFINE n == d.payload[1].item
    <2>1. \/ got' = got /\ acc' = acc
          \/ got' = Append(got, items[n]) /\ acc' = Add(acc, items[n].chunk)
      BY <1>3 DEF Recv
    <2> HIDE DEF n
    <2> QED BY <2>1 DEF Receives
  <1> QED BY <1>1, <1>2, <1>3

LEMMA LineSays ==
  ASSUME NEW f \in {"auto", "sse", "ndjson"}, NEW data, NEW line
  PROVE  /\ NextLine(Decoder(f, data), line).says
              \in {"reading", "eof", "too large", "payload"}
         /\ AtEOF(Decoder(f, data)).says \in {"eof", "payload"}
  <1> DEFINE d == Decoder(f, data)
             Ends == {"reading", "eof", "too large", "payload"}
  <1>1. ASSUME NEW e, NEW g, e = Decoder(g, data)
        PROVE  /\ NextNDJSON(e, line).says \in Ends
               /\ NextSSE(e, line).says \in Ends
               /\ AtEOF(e).says \in {"eof", "payload"}
    <2>1. /\ e.says = "reading"
          /\ \A p : Yields(e, p).says = "payload"
          /\ \A w : Says(e, w).says = w
          /\ \A p : [e EXCEPT !.data = p].says = "reading"
      BY <1>1 DEF Decoder, Yields, Says
    <2>2. NextNDJSON(e, line).says \in Ends
      BY <2>1 DEF NextNDJSON
    <2>3. NextSSE(e, line).says \in Ends
      BY <2>1 DEF NextSSE
    <2>4. AtEOF(e).says \in {"eof", "payload"}
      BY <2>1 DEF AtEOF
    <2> QED BY <2>2, <2>3, <2>4
  <1>2. \A g : [d EXCEPT !.format = g] = Decoder(g, data)
    BY DEF Decoder
  <1>3. d.says = "reading" /\ d.format = f
    BY DEF Decoder
  <1>4. AtEOF(d).says \in {"eof", "payload"}
    BY <1>1
  <1> HIDE DEF d
  <1>5. Sniff(line) \in {"auto", "sse", "ndjson"}
    BY DEF Sniff
  <1>6. NextLine(d, line).says \in Ends
    <2> DEFINE g == IF d.format = "auto" THEN Sniff(line) ELSE d.format
    <2>1. g \in {"auto", "sse", "ndjson"}
      BY <1>3, <1>5
    <2>2. NextLine(d, line) \in {d, NextNDJSON([d EXCEPT !.format = g], line),
                                 NextSSE([d EXCEPT !.format = g], line)}
      BY <2>1 DEF NextLine
    <2> HIDE DEF g
    <2> QED BY <1>1, <1>2, <1>3, <2>2
  <1> QED BY <1>4, <1>6 DEF d

\* What any step does to what is assembled.
LEMMA Shape ==
  ASSUME StreamOK, [StreamNext]_streamVars
  PROVE  /\ style' = style
         /\ \/ sent' = sent
            \/ \E item \in Sayable :
                 got = sent /\ sent' = Append(sent, item)
         /\ Receives(sent')
  <1>0. \A line : /\ NextLine(dec, line).says
                       \in {"reading", "eof", "too large", "payload"}
                  /\ AtEOF(dec).says \in {"eof", "payload"}
    <2>1. /\ dec = Decoder(dec.format, dec.data)
          /\ dec.format \in {"auto", "sse", "ndjson"}
      BY DEF StreamOK
    <2> QED BY <2>1, LineSays
  <1>1. ASSUME NEW line, NEW items, Recv(NextLine(dec, line), items)
        PROVE  Receives(items)
    BY <1>0, <1>1, RecvReceives
  <1>2. ASSUME NEW item \in Sayable,
               NEW next, Say(item, next), phase # "done"
        PROVE  /\ style' = style
               /\ got = sent /\ sent' = Append(sent, item)
               /\ Receives(sent')
    <2>1. Waiting
      BY <1>2, MayBegin DEF Say
    <2> QED BY <1>1, <1>2, <2>1 DEF Say, fixed, Waiting
  <1>3. CASE SayMore
    <2>1. phase # "done"
      BY <1>3 DEF SayMore
    <2>2. PICK item \in Sayable, next \in {"talking", "finished"} :
            Say(item, next)
      BY <1>3 DEF SayMore, Sayable
    <2> QED BY <1>2, <2>1, <2>2
  <1>4. CASE SayUsage
    <2>1. phase # "done" /\ Say(UsageItem, "counted")
      BY <1>4 DEF SayUsage
    <2>2. UsageItem \in Sayable
      BY DEF Sayable
    <2> QED BY <1>2, <2>1, <2>2
  <1>5. CASE SayDone
    BY <1>1, <1>5 DEF SayDone, fixed
  <1>6. CASE NextOut
    BY <1>1, <1>6 DEF NextOut, fixed
  <1>7. CASE \E kind \in LineKind : Fill(kind)
    BY <1>1, <1>7 DEF Fill, fixed
  <1>8. CASE Close
    BY <1>8 DEF Close, fixed, Receives
  <1>9. CASE Tear
    <2>1. Waiting
      BY <1>9, MayBegin DEF Tear
    <2>2. sent' = Append(sent, UsageItem)
      BY <1>9 DEF Tear
    <2>3. Receives(sent')
      BY <1>1, <1>9 DEF Tear
    <2>4. UsageItem \in Sayable
      BY DEF Sayable
    <2> QED BY <1>9, <2>1, <2>2, <2>3, <2>4 DEF Tear, fixed, Waiting
  <1>10. CASE ReadEnd
    <2>1. Receives(sent)
      BY <1>0, <1>10, RecvReceives DEF ReadEnd
    <2> QED BY <1>10, <2>1 DEF ReadEnd, fixed
  <1>11. CASE UNCHANGED streamVars
    BY <1>11 DEF streamVars, Receives
  <1> QED BY <1>3, <1>4, <1>5, <1>6, <1>7, <1>8, <1>9, <1>10, <1>11
          DEF StreamNext

\* What was received is what was said, but for an item at most.
LEMMA AlmostAll ==
  ASSUME NEW all, NEW some, IsSeq(all),
         some = all \/ (all # <<>> /\ some = Front(all))
  PROVE  /\ IsSeq(some) /\ Len(all) \in Nat /\ Len(some) \in Nat
         /\ \/ some = all
            \/ Len(some) = Len(all) - 1 /\ Append(some, Last(all)) = all
  <1>1. CASE some = all
    <2>1. Len(all) \in Nat
      BY LenProperties DEF IsSeq
    <2> QED BY <1>1, <2>1
  <1>2. CASE all # <<>> /\ some = Front(all)
    <2>1. /\ Append(some, Last(all)) = all /\ Len(all) \in Nat \ {0}
          /\ DOMAIN some = 1..Len(all) - 1 /\ Len(some) = Len(all) - 1
      BY <1>2, FrontAndLast
    <2>2. IsSeq(some)
      <3> DEFINE S == {some[i] : i \in DOMAIN some}
      <3>1. some = [i \in 1..Len(some) |-> some[i]]
        <4>1. some = [i \in 1..Len(all) - 1 |-> all[i]]
          <5>1. /\ all \in [1..Len(all) -> {all[i] : i \in DOMAIN all}]
                /\ Len(all) \in Nat \ {0}
            BY <2>1 DEF IsSeq
          <5>2. Front(all) = [i \in 1..Len(all) - 1 |-> all[i]]
            BY <5>1 DEF Front, SubSeq
          <5> QED BY <1>2, <5>2
        <4> QED BY <4>1, <2>1
      <3>2. Len(some) \in Nat /\ \A i \in 1..Len(some) : some[i] \in S
        BY <2>1
      <3> HIDE DEF S
      <3>3. some \in Seq(S)
        BY <3>1, <3>2, IsASeq
      <3> QED BY <3>3 DEF S, IsSeq
    <2> QED BY <1>2, <2>1, <2>2
  <1> QED BY <1>1, <1>2

LEMMA AccOKStays ==
  ASSUME AccOK(got', acc'), style' = style
  PROVE  AccOK(got, acc)'
  BY DEF AccOK, CallsOK, Holds, Indexed, IdOf, Before

LEMMA ChunkCallsStays ==
  ASSUME ChunkCalls(SaidBy(got'), Last(sent')), style' = style
  PROVE  ChunkCalls(SaidBy(got), Last(sent))'
  BY DEF ChunkCalls, FragmentIn

LEMMA AssembledKept ==
  StreamOK /\ AssembledOK /\ [StreamNext]_streamVars => AssembledOK'
  <1> SUFFICES ASSUME StreamOK, AssembledOK, [StreamNext]_streamVars
               PROVE  AssembledOK'
    OBVIOUS
  <1>1. StreamOK'
    BY StreamInductive
  <1>2. /\ IsSeq(sent) /\ IsSeq(got) /\ Len(sent) \in Nat /\ Len(got) \in Nat
        /\ \/ got = sent
           \/ Len(got) = Len(sent) - 1 /\ Append(got, Last(sent)) = sent
    <2>1. IsSeq(sent) /\ (got = sent \/ (sent # <<>> /\ got = Front(sent)))
      BY DEF StreamOK, Underway, Waiting, Ending, Midway
    <2> QED BY <2>1, AlmostAll
  <1>3. /\ IsSeq(sent') /\ Len(sent') \in Nat
        /\ \/ got' = sent'
           \/ /\ Len(got') = Len(sent') - 1
              /\ Append(got', Last(sent')) = sent'
    <2>1. /\ IsSeq(sent')
          /\ got' = sent' \/ (sent' # <<>> /\ got' = Front(sent'))
      BY <1>1 DEF StreamOK, Underway, Waiting, Ending, Midway
    <2> QED BY <2>1, AlmostAll
  <1>4. SaidBy(sent) \in Seq(Frag)
    BY <1>2, SaidTyped DEF AssembledOK
  <1>5. /\ style' = style
        /\ \/ sent' = sent
           \/ \E item \in Sayable :
                got = sent /\ sent' = Append(sent, item)
        /\ Receives(sent')
    BY Shape
  <1>6. ASSUME NEW item \in Sayable,
               got = sent, sent' = Append(sent, item)
        PROVE  /\ Sensible(item) /\ ChunkCalls(SaidBy(got), item)
               /\ Last(sent') = item
               /\ Len(sent') = Len(got) + 1
               /\ \A i \in DOMAIN sent' : Sensible(sent'[i])
    <2>1. Sensible(item) /\ ChunkCalls(SaidBy(sent), item)
      BY <1>2, <1>4, ItemsFit
    <2>2. /\ Last(sent') = item /\ Len(sent') = Len(sent) + 1
          /\ DOMAIN sent' = 1..Len(sent) + 1 /\ DOMAIN sent = 1..Len(sent)
          /\ sent'[Len(sent) + 1] = item
          /\ \A i \in 1..Len(sent) : sent'[i] = sent[i]
      BY <1>2, <1>6, AppendIsSeq
    <2>3. \A i \in DOMAIN sent' : Sensible(sent'[i])
      <3> SUFFICES ASSUME NEW i \in DOMAIN sent' PROVE Sensible(sent'[i])
        OBVIOUS
      <3>1. i \in DOMAIN sent \/ i = Len(sent) + 1
        <4> DEFINE k == Len(sent)
        <4>1. k \in Nat /\ i \in 1..k + 1 /\ DOMAIN sent = 1..k
          BY <1>2, <2>2, Zenon
        <4> HIDE DEF k
        <4>2. i \in 1..k \/ i = k + 1
          BY <4>1
        <4> QED BY <4>1, <4>2 DEF k
      <3> QED BY <2>1, <2>2, <3>1 DEF AssembledOK
    <2> QED BY <1>6, <2>1, <2>2, <2>3
  <1>7. \A i \in DOMAIN sent' : Sensible(sent'[i])
    <2>1. CASE sent' = sent
      BY <2>1 DEF AssembledOK
    <2> QED BY <1>5, <1>6, <2>1
  <1>8. CASE got' = got /\ acc' = acc
    <2>1. AccOK(got', acc')
      BY <1>8 DEF AssembledOK
    <2>2. ASSUME got' # sent' PROVE ChunkCalls(SaidBy(got'), Last(sent'))
      <3>1. CASE sent' = sent
        BY <1>8, <2>2, <3>1 DEF AssembledOK
      <3> QED BY <1>5, <1>6, <1>8, <3>1
    <2> QED BY <1>5, <1>7, <2>1, <2>2, AccOKStays, ChunkCallsStays
            DEF AssembledOK
  <1>9. ASSUME NEW n, got' = Append(got, sent'[n]),
               acc' = Add(acc, sent'[n].chunk)
        PROVE  AssembledOK'
    <2> DEFINE item == sent'[n]
    <2>1. Len(got') = Len(got) + 1 /\ Last(got') = item /\ Front(got') = got
      BY <1>2, <1>9, AppendIsSeq
    <2>2. got' = sent'
      <3>1. CASE sent' = sent
        BY <1>2, <1>3, <2>1, <3>1
      <3>2. CASE got = sent /\ Len(sent') = Len(got) + 1
        BY <1>2, <1>3, <2>1, <3>2
      <3> QED BY <1>5, <1>6, <3>1, <3>2
    <2>3. /\ Last(sent') = item /\ Sensible(item)
          /\ ChunkCalls(SaidBy(got), item)
          /\ \A i \in DOMAIN got : Sensible(got[i])
      <3>1. Last(sent') = item
        BY <2>1, <2>2
      <3>2. /\ DOMAIN sent' = 1..Len(got) + 1 /\ DOMAIN got = 1..Len(got)
            /\ sent'[Len(got) + 1] = item
            /\ \A i \in 1..Len(got) : sent'[i] = got[i]
        <4>1. sent' = Append(got, item)
          BY <1>9, <2>2
        <4> HIDE DEF item
        <4> QED BY <1>2, <4>1, AppendIsSeq
      <3>3. /\ \A i \in 1..Len(got) : i \in 1..Len(got) + 1
            /\ Len(got) + 1 \in 1..Len(got) + 1
        BY <1>2
      <3>4. Sensible(item) /\ \A i \in DOMAIN got : Sensible(got[i])
        BY <1>7, <3>2, <3>3
      <3>5. ChunkCalls(SaidBy(got), item)
        <4>1. CASE sent' = sent
          <5>1. got # sent
            BY <1>2, <2>1, <2>2, <4>1
          <5> QED BY <3>1, <4>1, <5>1 DEF AssembledOK
        <4> QED BY <1>5, <1>6, <3>1, <4>1
      <3> QED BY <3>1, <3>4, <3>5
    <2>4. AccOK(got', acc')
      <3>1. AccOK(Append(got, item), Add(acc, item.chunk))
        <4> HIDE DEF item
        <4> QED BY <1>2, <2>3, ItemIsAdded DEF AssembledOK
      <3> QED BY <1>9, <3>1
    <2> QED BY <1>5, <1>7, <2>2, <2>4, AccOKStays DEF AssembledOK
  <1> QED BY <1>5, <1>8, <1>9 DEF Receives

LEMMA AssembledInvariance == StreamSpec => [](StreamOK /\ AssembledOK)
  <1>1. StreamInit => StreamOK /\ AssembledOK
    <2> SUFFICES ASSUME StreamInit PROVE AssembledOK
      BY StreamInitOK
    <2>1. style \in Style /\ sent = <<>> /\ got = <<>> /\ acc = NewAccumulator
      BY ProviderAssumption DEF StreamInit
    <2> QED BY <2>1, NothingSaid DEF AssembledOK
  <1>2. StreamOK /\ AssembledOK /\ [StreamNext]_streamVars
          => (StreamOK /\ AssembledOK)'
    BY StreamInductive, AssembledKept
  <1> QED BY <1>1, <1>2, PTL DEF StreamSpec

-----------------------------------------------------------------------------
(* What the response says.                                                 *)

\* The slots in order, and the calls in order.
SlotAt(T, k) == CHOOSE j \in T : Cardinality(Lower(T, j)) = k - 1

CallAt(said, k) ==
  CHOOSE c \in CallsIn(said) :
    Cardinality({e \in CallsIn(said) : Before(said, e, c)}) = k - 1

LEMMA FinalizeIs ==
  ASSUME NEW calls
  PROVE  Finalize(calls)
           = [k \in 1..Cardinality(DOMAIN calls) |->
                [calls[SlotAt(DOMAIN calls, k)] EXCEPT !.id =
                   IF @ = Absent THEN Synthesised(SlotAt(DOMAIN calls, k))
                   ELSE @]]
  BY DEF Finalize, InOrder, SlotAt, Lower

LEMMA CallsMeantIs ==
  ASSUME NEW said
  PROVE  CallsMeant(said)
           = [k \in 1..Cardinality(CallsIn(said)) |->
                [id |-> IF style = "nameless"
                        THEN Synthesised(Position[CallAt(said, k)])
                        ELSE CallAt(said, k),
                 args |-> ArgsOf(said, CallAt(said, k))]]
  BY DEF CallsMeant, InOrder, CallAt

LEMMA CallsFinite ==
  ASSUME NEW said \in Seq(Frag)
  PROVE  IsFiniteSet(CallsIn(said))
  <1> DEFINE S == DOMAIN said
             f == [i \in S |-> said[i].call]
  <1>1. IsFiniteSet(S)
    <2>1. S = 1..Len(said) /\ Len(said) \in Nat
      OBVIOUS
    <2> HIDE DEF S
    <2> QED BY <2>1, FS_Interval
  <1>2. f \in Surjection(S, CallsIn(said))
    BY DEF Surjection, CallsIn
  <1> HIDE DEF f, S
  <1> QED BY <1>1, <1>2, FS_Surjection

LEMMA SlotOfCallAt ==
  ASSUME NEW said \in Seq(Frag), NEW calls, NEW slot,
         Holds(said, calls, slot), NEW k \in 1..Cardinality(CallsIn(said))
  PROVE  /\ CallAt(said, k) \in CallsIn(said)
         /\ SlotAt(DOMAIN calls, k) = slot[CallAt(said, k)]
  <1> DEFINE S == CallsIn(said)
             T == {slot[c] : c \in S}
             less(c) == {e \in S : Before(said, e, c)}
             lower(c) == {e \in S : slot[e] < slot[c]}
             x == CHOOSE c \in S : Cardinality(lower(c)) = k - 1
  <1>1. /\ slot \in [S -> Nat] /\ IsFiniteSet(S) /\ DOMAIN calls = T
        /\ \A c, e \in S : slot[c] = slot[e] => c = e
        /\ \A c, e \in S : Before(said, c, e) <=> slot[c] < slot[e]
    BY CallsFinite DEF Holds
  <1>2. \A c \in S : less(c) = lower(c)
    BY <1>1
  <1> HIDE DEF S
  <1>3. x \in S /\ SlotAt(T, k) = slot[x]
    BY <1>1, ListedByNumber DEF SlotAt, S
  <1>4. CallAt(said, k) = x
    <2>1. CallAt(said, k) = CHOOSE c \in S : Cardinality(less(c)) = k - 1
      BY DEF CallAt, S
    <2>2. \A c \in S : Cardinality(less(c)) = k - 1
                         <=> Cardinality(lower(c)) = k - 1
      BY <1>2
    <2> HIDE DEF less, lower
    <2> QED BY <2>1, <2>2
  <1> QED BY <1>1, <1>3, <1>4 DEF S

LEMMA CallsAreMeant ==
  ASSUME NEW said \in Seq(Frag), NEW calls, NEW slot, style \in Style,
         Holds(said, calls, slot)
  PROVE  Finalize(calls) = CallsMeant(said)
  <1> DEFINE S == CallsIn(said)
             T == DOMAIN calls
  <1>1. Cardinality(T) = Cardinality(S)
    <2>1. /\ slot \in [S -> Nat] /\ IsFiniteSet(S)
          /\ T = {slot[c] : c \in S}
          /\ \A c, e \in S : slot[c] = slot[e] => c = e
      BY CallsFinite DEF Holds
    <2> HIDE DEF S, T
    <2>2. slot \in Bijection(S, T)
      BY <2>1 DEF Bijection, Injection, Surjection, IsInjective
    <2> QED BY <2>1, <2>2, FS_Bijection DEF ExistsBijection
  <1>2. ASSUME NEW k \in 1..Cardinality(S)
        PROVE  [calls[SlotAt(T, k)] EXCEPT !.id =
                  IF @ = Absent THEN Synthesised(SlotAt(T, k)) ELSE @]
               = [id |-> IF style = "nameless"
                         THEN Synthesised(Position[CallAt(said, k)])
                         ELSE CallAt(said, k),
                  args |-> ArgsOf(said, CallAt(said, k))]
    <2> DEFINE c == CallAt(said, k)
               j == SlotAt(T, k)
    <2>1. c \in S /\ j = slot[c]
      BY SlotOfCallAt
    <2> HIDE DEF c, j
    <2>2. calls[j] = [id |-> IdOf(c), args |-> ArgsOf(said, c)]
      BY <2>1 DEF Holds
    <2>3. [calls[j] EXCEPT !.id = IF @ = Absent THEN Synthesised(j) ELSE @]
            = [id |-> IF IdOf(c) = Absent THEN Synthesised(j) ELSE IdOf(c),
               args |-> ArgsOf(said, c)]
      BY <2>2
    <2>4. CASE style = "nameless"
      <3>1. IdOf(c) = Absent /\ j = Position[c]
        BY <2>1, <2>4 DEF IdOf, Holds, Indexed
      <3> QED BY <2>3, <2>4, <3>1 DEF c, j
    <2>5. CASE style # "nameless"
      <3>1. IdOf(c) = c /\ c # Absent
        BY <2>1, <2>5, CallsTyped, ProviderAssumption DEF IdOf
      <3> QED BY <2>3, <2>5, <3>1 DEF c, j
    <2> QED BY <2>4, <2>5
  <1>3. Finalize(calls)
          = [k \in 1..Cardinality(T) |->
               [calls[SlotAt(T, k)] EXCEPT !.id =
                  IF @ = Absent THEN Synthesised(SlotAt(T, k)) ELSE @]]
    BY FinalizeIs
  <1>4. CallsMeant(said)
          = [k \in 1..Cardinality(S) |->
               [id |-> IF style = "nameless"
                       THEN Synthesised(Position[CallAt(said, k)])
                       ELSE CallAt(said, k),
                args |-> ArgsOf(said, CallAt(said, k))]]
    BY CallsMeantIs
  <1> HIDE DEF S, T
  <1> QED BY <1>1, <1>2, <1>3, <1>4

\* However fragments of calls interleave and however the provider names them,
\* for any number of calls and of chunks and for any arguments: the response
\* that was assembled says what the provider meant (ToolCallAccumulator.Add and
\* Finalize, StreamAccumulator.Add, delta.go:52-303).
THEOREM ResponsesAreMeant == StreamSpec => []AssembledAsMeant
  <1>1. StreamOK /\ AssembledOK => AssembledAsMeant
    <2> SUFFICES ASSUME StreamOK, AssembledOK,
                        style # "bare" \/ Cardinality(DOMAIN acc.calls) <= 1
                 PROVE  AsMeant
      BY DEF AssembledAsMeant
    <2> DEFINE said == SaidBy(got)
               r == Response(acc)
               ended == EndedIn(got)
    <2>1. said \in Seq(Frag) /\ style \in Style
      <3>1. /\ IsSeq(sent) /\ IsSeq(got)
            /\ got = sent \/ (sent # <<>> /\ got = Front(sent))
        <4>1. /\ IsSeq(sent)
              /\ got = sent \/ (sent # <<>> /\ got = Front(sent))
          BY DEF StreamOK, Underway, Waiting, Ending, Midway
        <4> QED BY <4>1, AlmostAll
      <3>2. \A i \in DOMAIN got : Sensible(got[i])
        <4>1. CASE got = sent
          BY <4>1 DEF AssembledOK
        <4>2. CASE sent # <<>> /\ got = Front(sent)
          <5>1. /\ Len(sent) \in Nat \ {0} /\ DOMAIN sent = 1..Len(sent)
                /\ DOMAIN got = 1..Len(sent) - 1
                /\ \A i \in 1..Len(sent) - 1 : got[i] = sent[i]
            BY <3>1, <4>2, FrontAndLast
          <5>2. \A i \in 1..Len(sent) - 1 : i \in 1..Len(sent)
            BY <5>1
          <5> QED BY <5>1, <5>2 DEF AssembledOK
        <4> QED BY <3>1, <4>1, <4>2
      <3> QED BY <3>1, <3>2, SaidTyped DEF AssembledOK
    <2>2. PICK slot : Holds(said, acc.calls, slot)
      <3>1. ASSUME style = "bare", IsFiniteSet(DOMAIN acc.calls),
                   {0, 1} \subseteq DOMAIN acc.calls
            PROVE  FALSE
        <4> DEFINE D == DOMAIN acc.calls
        <4>1. IsFiniteSet(0..1) /\ Cardinality(0..1) = 2
          <5>1. 0 \in Int /\ 1 \in Int
            OBVIOUS
          <5>2. /\ IsFiniteSet(0..1)
                /\ Cardinality(0..1) = IF 0 > 1 THEN 0 ELSE 1 - 0 + 1
            BY <5>1, FS_Interval, Zenon
          <5> QED BY <5>2
        <4>2. 0..1 \in SUBSET D
          BY <3>1
        <4> HIDE DEF D
        <4>3. Cardinality(0..1) <= Cardinality(D) /\ Cardinality(D) \in Nat
          BY <3>1, <4>2, FS_Subset, FS_CardinalityType DEF D
        <4> QED BY <3>1, <4>1, <4>3 DEF D
      <3> QED BY <3>1 DEF AssembledOK, AccOK, CallsOK
    <2>3. Finalize(acc.calls) = CallsMeant(said)
      BY <2>1, <2>2, CallsAreMeant
    <2>4. /\ acc.role \in {Absent, "assistant"} /\ acc.content = TextIn(got)
          /\ acc.finish = IF ended THEN "tool_calls" ELSE Absent
          /\ acc.usage = IF CountedIn(got) THEN "usage" ELSE Absent
      BY DEF AssembledOK, AccOK
    <2> DEFINE calls == CallsMeant(said)
    <2>5. Meant = [role |-> "assistant", text |-> TextIn(got), calls |-> calls,
                   finish |-> IF calls # <<>> \/ ended THEN "tool_calls"
                              ELSE "stop",
                   usage |-> IF CountedIn(got) THEN "usage" ELSE Absent]
      BY DEF Meant, EndedIn, CountedIn
    <2>6. r = [role |-> SetIfAbsent(acc.role, "assistant"),
               content |-> IF acc.content = <<>> /\ calls # <<>> THEN "null"
                           ELSE "text",
               text |-> acc.content, calls |-> calls,
               finish |-> SetIfAbsent(acc.finish,
                            IF calls # <<>> THEN "tool_calls" ELSE "stop"),
               usage |-> acc.usage]
      BY <2>3 DEF Response
    <2> HIDE DEF calls, r, ended
    <2>7. /\ r.role = "assistant" /\ r.text = TextIn(got) /\ r.calls = calls
          /\ r.usage = IF CountedIn(got) THEN "usage" ELSE Absent
          /\ r.content = "null" <=> TextIn(got) = <<>> /\ calls # <<>>
      BY <2>4, <2>6 DEF SetIfAbsent
    <2>8. r.finish = IF calls # <<>> \/ ended THEN "tool_calls" ELSE "stop"
      BY <2>4, <2>6, ProviderAssumption DEF SetIfAbsent
    <2> QED BY <2>5, <2>7, <2>8 DEF AsMeant, r
  <1> QED BY <1>1, AssembledInvariance, PTL
=============================================================================
