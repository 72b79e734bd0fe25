-------------------------- MODULE Supervisor_proofs -------------------------
(***************************************************************************)
(* Proofs about Supervisor, for any descendants, streams, sizes of the     *)
(* window, of a read and of a pipe: what a SIGKILL leaves, that nothing is *)
(* left unreaped, that a result is true, and what a capture holds.         *)
(***************************************************************************)
EXTENDS Supervisor, TLAPS, SequenceTheorems

USE SupervisorAssumption

-----------------------------------------------------------------------------
(* The window of a drain.                                                  *)

\* What Window returns: the last Cap elements, or all of them.
LEMMA WindowShape ==
  ASSUME NEW seq \in Seq(Nat)
  PROVE  /\ Window(seq) \in Seq(Nat)
         /\ Len(Window(seq)) = IF Len(seq) <= Cap THEN Len(seq) ELSE Cap
         /\ \A i \in 1 .. Len(Window(seq)) :
              Window(seq)[i] = seq[Len(seq) - Len(Window(seq)) + i]
<1>1. Len(seq) \in Nat /\ Cap \in Nat
  BY LenProperties
<1>2. CASE Len(seq) <= Cap
  BY <1>1, <1>2 DEF Window
<1>3. CASE Len(seq) > Cap
  <2> DEFINE w == SubSeq(seq, Len(seq) - Cap + 1, Len(seq))
  <2>1. /\ w \in Seq(Nat) /\ Len(w) = Cap
        /\ \A i \in 1 .. Cap : w[i] = seq[Len(seq) - Cap + i]
    BY <1>1, <1>3, SubSeqProperties
  <2>2. Window(seq) = w
    BY <1>1, <1>3 DEF Window
  <2> QED
    BY <1>1, <1>3, <2>1, <2>2
<1> QED
  BY <1>1, <1>2, <1>3

\* One read keeps the window right and of the right type.
LEMMA ReadTail ==
  ASSUME TypeOK, TailIsKept, NEW s \in Stream, Read(s)
  PROVE  /\ total' \in [Stream -> Nat] /\ keep' \in [Stream -> Kept]
         /\ truncated' \in [Stream -> BOOLEAN]
         /\ TailIsKept' /\ total'[s] <= written[s]
<1> USE DEF TypeOK
<1>1. PICK n \in 1 .. ReadMax :
        LET seen == keep[s] \o [i \in 1 .. n |-> total[s] + i] IN
        /\ n <= InPipe(s)
        /\ total' = [total EXCEPT ![s] = @ + n]
        /\ keep' = [keep EXCEPT ![s] = Window(seen)]
        /\ truncated' = [truncated EXCEPT ![s] = @ \/ Len(seen) > Cap]
  BY DEF Read
<1> DEFINE chunk == [i \in 1 .. n |-> total[s] + i]
           seen  == keep[s] \o chunk
<1>2. n \in Nat /\ n > 0 /\ total[s] \in Nat /\ keep[s] \in Seq(Nat) /\ Len(keep[s]) \in Nat
      /\ Cap \in Nat /\ written[s] \in Nat
  BY LenProperties DEF Kept
<1>3. chunk \in Seq(Nat) /\ Len(chunk) = n /\ \A i \in 1 .. n : chunk[i] = total[s] + i
  BY <1>2
<1>4. /\ seen \in Seq(Nat) /\ Len(seen) = Len(keep[s]) + n
      /\ \A i \in 1 .. Len(seen) :
           seen[i] = IF i <= Len(keep[s]) THEN keep[s][i] ELSE chunk[i - Len(keep[s])]
  BY <1>2, <1>3, ConcatProperties
<1>5. Len(keep[s]) = IF total[s] <= Cap THEN total[s] ELSE Cap
  BY DEF TailIsKept
<1>6. \A i \in 1 .. Len(seen) : seen[i] = total[s] + n - Len(seen) + i
  <2> TAKE i \in 1 .. Len(seen)
  <2>1. CASE i <= Len(keep[s])
    BY <1>2, <1>4, <2>1 DEF TailIsKept
  <2>2. CASE i > Len(keep[s])
    <3>1. i - Len(keep[s]) \in 1 .. n
      BY <1>2, <1>4, <2>2
    <3> QED
      BY <1>2, <1>3, <1>4, <2>2, <3>1
  <2> QED
    BY <1>2, <1>4, <2>1, <2>2
<1> HIDE DEF TypeOK
<1> DEFINE w == Window(seen)
<1>8. /\ w \in Seq(Nat) /\ Len(w) \in Nat /\ Len(seen) \in Nat
      /\ Len(w) = IF Len(seen) <= Cap THEN Len(seen) ELSE Cap
      /\ \A i \in 1 .. Len(w) : w[i] = seen[Len(seen) - Len(w) + i]
  BY <1>4, WindowShape, LenProperties
<1>7. total'[s] = total[s] + n /\ keep'[s] = w
      /\ (truncated'[s] <=> (truncated[s] \/ Len(seen) > Cap))
  BY <1>1 DEF TypeOK
<1>12. \A t \in Stream : t # s => /\ total'[t] = total[t] /\ keep'[t] = keep[t]
                                  /\ truncated'[t] = truncated[t]
  BY <1>1 DEF TypeOK
<1>15. /\ total' \in [Stream -> Nat] /\ keep' \in [Stream -> Kept]
       /\ truncated' \in [Stream -> BOOLEAN]
  <2>1. [total EXCEPT ![s] = @ + n] \in [Stream -> Nat]
    BY <1>2 DEF TypeOK
  <2>2. [keep EXCEPT ![s] = w] \in [Stream -> Kept]
    <3>1. w \in Kept
      BY <1>2, <1>8 DEF Kept
    <3> QED
      BY <3>1 DEF TypeOK
  <2> QED
    BY <1>1, <2>1, <2>2 DEF TypeOK
<1>14. total'[s] <= written[s]
  BY <1>1, <1>2, <1>7 DEF InPipe
<1> HIDE DEF w, seen, chunk
<1>9. Len(keep'[s]) = IF total'[s] <= Cap THEN total'[s] ELSE Cap
  <2>1. Len(seen) = Len(keep[s]) + n /\ total'[s] = total[s] + n
    BY <1>4, <1>7
  <2>2. Len(w) = IF Len(seen) <= Cap THEN Len(seen) ELSE Cap
    BY <1>8
  <2>3. Len(w) = IF total'[s] <= Cap THEN total'[s] ELSE Cap
    BY <1>2, <1>5, <2>1, <2>2
  <2>4. keep'[s] = w
    BY <1>7
  <2> QED
    BY <2>3, <2>4
<1>10. ASSUME NEW i \in 1 .. Len(keep'[s])
       PROVE  keep'[s][i] = total'[s] - Len(keep'[s]) + i
  <2>1. i \in 1 .. Len(w) /\ Len(seen) - Len(w) + i \in 1 .. Len(seen)
    BY <1>2, <1>7, <1>8, <1>10
  <2>2. w[i] = seen[Len(seen) - Len(w) + i]
    BY <1>8, <2>1
  <2>3. seen[Len(seen) - Len(w) + i] = total[s] + n - Len(seen) + (Len(seen) - Len(w) + i)
    BY <1>6, <2>1
  <2>4. total'[s] = total[s] + n /\ keep'[s] = w
    BY <1>7
  <2>5. Len(w) \in Nat /\ Len(seen) \in Nat /\ i \in Nat
    BY <1>8, <2>1
  <2>6. w[i] = total'[s] - Len(w) + i
    BY <1>2, <2>2, <2>3, <2>4, <2>5
  <2> QED
    BY <2>4, <2>6
<1>11. truncated'[s] <=> total'[s] > Cap
  BY <1>2, <1>4, <1>5, <1>7 DEF TailIsKept
<1>13. TailIsKept'
  <2> SUFFICES ASSUME NEW t \in Stream
               PROVE  /\ Len(keep'[t]) = IF total'[t] <= Cap THEN total'[t] ELSE Cap
                      /\ \A i \in 1 .. Len(keep'[t]) :
                           keep'[t][i] = total'[t] - Len(keep'[t]) + i
                      /\ truncated'[t] <=> total'[t] > Cap
    BY DEF TailIsKept
  <2>1. CASE t = s
    BY <1>9, <1>10, <1>11, <2>1
  <2>2. CASE t # s
    BY <1>12, <2>2 DEF TailIsKept
  <2> QED
    BY <2>1, <2>2
<1> QED
  BY <1>13, <1>14, <1>15

-----------------------------------------------------------------------------
(* What the operators that end processes do.                               *)

\* Die ends exactly the dead, and nobody gets hold of a pipe.
LEMMA DieShape ==
  ASSUME TypeOK, NEW dead \in SUBSET Proc, NEW how \in Endings, Die(dead, how)
  PROVE  /\ life' \in [Proc -> Lives] /\ fate' \in Endings \union {"none"}
         /\ \A p \in dead : life'[p] = Ended(p)
         /\ \A p \in Proc \ dead : life'[p] = life[p]
         /\ fate' = IF Child \in dead THEN how ELSE fate
         /\ holds' \subseteq holds /\ writing' \subseteq holds'
BY DEF TypeOK, Die, Close, Ended, Lives

\* Killed leaves nobody of its target running or stuck without a sentence.
LEMMA KilledShape ==
  ASSUME TypeOK, NEW target \in SUBSET Proc, Killed(target)
  PROVE  /\ life' \in [Proc -> Lives] /\ fate' \in Endings \union {"none"}
         /\ \A p \in target : life'[p] = IF life[p] = "running" THEN Ended(p)
                                        ELSE IF life[p] = "wedged" THEN "doomed"
                                        ELSE life[p]
         /\ \A p \in Proc \ target : life'[p] = life[p]
         /\ fate' = IF Child \in target /\ life[Child] = "running" THEN "kill" ELSE fate
         /\ holds' \subseteq holds /\ writing' \subseteq holds'
BY DEF TypeOK, Killed, Close, Ended, Running, Lives, Proc, Endings

-----------------------------------------------------------------------------
(* The invariant is kept, action by action.                                *)
Known == TypeOK /\ GroupIsKilled /\ TreeInv /\ CallerInv /\ ReadInv

\* The steps of the caller that only wait, receive and collect.
LEMMA CallerStep ==
  ASSUME Known,
         \/ Refuse \/ SpawnFails \/ StartThreads \/ Receive \/ DeadlinePasses
         \/ GracePasses \/ ReapPasses \/ Join \/ (\E s \in Stream : Collect(s)) \/ Return
  PROVE  Known'
<1> USE DEF Known, Goto, caller, reading, tree
<1>1. CASE Refuse \/ SpawnFails
  BY <1>1 DEF NeverStarts, Refuse, SpawnFails, TypeOK, Results, Points, Outcome,
     Endings, GroupIsKilled,
     TreeInv, CallerInv, ReadInv, Waited, OutcomeOf, Held
<1>2. CASE StartThreads
  BY <1>2 DEF StartThreads, TypeOK, Results, Points, Outcome, Endings, GroupIsKilled,
     TreeInv, CallerInv, ReadInv, Waited, OutcomeOf, Held
<1>3. CASE Receive
  BY <1>3 DEF Receive, TypeOK, Results, Points, Outcome, Endings, GroupIsKilled,
     TreeInv, CallerInv, ReadInv, Waited, OutcomeOf, Held
<1>4. CASE DeadlinePasses
  BY <1>4 DEF DeadlinePasses, TypeOK, Results, Points, Outcome, Endings, GroupIsKilled,
     TreeInv, CallerInv, ReadInv, Waited, OutcomeOf, Held
<1>5. CASE GracePasses
  <2>1. TypeOK'
    BY <1>5 DEF TypeOK, Results, Points, Outcome, Endings, Lives, GracePasses
  <2>2. GroupIsKilled'
    BY <1>5 DEF TypeOK, GroupIsKilled, GracePasses
  <2>3. TreeInv'
    BY <1>5 DEF TypeOK, GroupIsKilled, TreeInv, CallerInv, GracePasses
  <2>4. CallerInv'
    BY <1>5 DEF TypeOK, Results, TreeInv, CallerInv, Waited, OutcomeOf, GracePasses
  <2>5. ReadInv'
    BY <1>5 DEF TypeOK, CallerInv, ReadInv, Held, Waited, GracePasses
  <2> QED
    BY <2>1, <2>2, <2>3, <2>4, <2>5
<1>6. CASE ReapPasses
  <2>1. TypeOK'
    BY <1>6 DEF TypeOK, Results, Points, Outcome, Endings, Lives, ReapPasses
  <2>2. GroupIsKilled'
    BY <1>6 DEF TypeOK, GroupIsKilled, ReapPasses
  <2>3. TreeInv'
    BY <1>6 DEF TypeOK, GroupIsKilled, TreeInv, CallerInv, ReapPasses
  <2>4. CallerInv'
    BY <1>6 DEF TypeOK, Results, TreeInv, CallerInv, Waited, OutcomeOf, ReapPasses
  <2>5. ReadInv'
    BY <1>6 DEF TypeOK, CallerInv, ReadInv, Held, Waited, ReapPasses
  <2> QED
    BY <2>1, <2>2, <2>3, <2>4, <2>5
<1>7. CASE Join
  BY <1>7 DEF Join, TypeOK, Results, Points, Outcome, Endings, GroupIsKilled, TreeInv,
     CallerInv, ReadInv, Waited, OutcomeOf, Held
<1>8. ASSUME NEW s \in Stream, Collect(s)
      PROVE  Known'
  BY <1>8 DEF Collect, Arrived, TypeOK, Results, Points, Outcome, Endings,
     GroupIsKilled, TreeInv, CallerInv, ReadInv, Waited, OutcomeOf, Held
<1>9. CASE Return
  BY <1>9 DEF Return, TypeOK, Results, Points, Outcome, Endings, GroupIsKilled, TreeInv,
     CallerInv, ReadInv, Waited, OutcomeOf, Held
<1> QED
  BY <1>1, <1>2, <1>3, <1>4, <1>5, <1>6, <1>7, <1>8, <1>9

\* The spawn and the two signals.
LEMMA SignalStep ==
  ASSUME Known, Spawn \/ SendTerm \/ SendKill
  PROVE  Known'
<1> USE DEF Known, Goto, caller, reading, tree
<1>1. CASE Spawn
  <2>1. TypeOK'
    BY <1>1 DEF TypeOK, TreeInv, Results, Points, Outcome, Endings, Lives, Spawn, Proc
  <2>2. GroupIsKilled'
    BY <1>1 DEF TypeOK, Results, GroupIsKilled, CallerInv, Spawn, Proc
  <2>3. TreeInv'
    BY <1>1 DEF TypeOK, GroupIsKilled, TreeInv, CallerInv, Spawn, Proc
  <2>4. CallerInv'
    BY <1>1 DEF TypeOK, Results, TreeInv, CallerInv, Waited, OutcomeOf, Spawn, Proc
  <2>5. ReadInv'
    BY <1>1 DEF TypeOK, CallerInv, ReadInv, Held, Waited, Spawn, Proc
  <2> QED
    BY <2>1, <2>2, <2>3, <2>4, <2>5
<1>2. CASE SendTerm
  <2>1. PICK dead \in SUBSET (group \intersect Running) : Die(dead, "term")
    BY <1>2 DEF SendTerm
  <2>2. /\ dead \in SUBSET Running /\ dead \in SUBSET Proc
        /\ "term" \in Endings /\ Child \in Proc
    BY DEF Proc, Running, Endings
  <2>a. /\ life' \in [Proc -> Lives] /\ fate' \in Endings \union {"none"}
        /\ \A p \in dead : life'[p] = Ended(p)
        /\ \A p \in Proc \ dead : life'[p] = life[p]
        /\ fate' = IF Child \in dead THEN "term" ELSE fate
        /\ holds' \subseteq holds /\ writing' \subseteq holds'
    BY <2>1, <2>2, DieShape
  <2>3. /\ life' \in [Proc -> Lives] /\ fate' \in Endings \union {"none"}
        /\ \A p \in dead : life'[p] = Ended(p) /\ life[p] = "running"
        /\ \A p \in Proc \ dead : life'[p] = life[p]
        /\ fate' = IF Child \in dead THEN "term" ELSE fate
        /\ holds' \subseteq holds /\ writing' \subseteq holds'
    BY <2>2, <2>a DEF Running
  <2>c. life'[Child] = IF Child \in dead THEN "zombie" ELSE life[Child]
    BY <2>2, <2>3 DEF Ended
  <2>4. TypeOK'
    BY <1>2, <2>2, <2>3 DEF TypeOK, Results, Points, Outcome, Endings, Lives,
       SendTerm, Ended
  <2>5. GroupIsKilled'
    BY <1>2, <2>2, <2>3 DEF TypeOK, GroupIsKilled, SendTerm, Ended
  <2>6. TreeInv'
    <3>0. group' = group
      BY <1>2 DEF SendTerm
    <3>g. ASSUME NEW p \in group
          PROVE  life'[p] # "none"
      <4>1. p \in Proc /\ life[p] # "none"
        BY <3>g DEF TypeOK, TreeInv
      <4>2. CASE p \in dead
        BY <2>3, <4>2 DEF Ended
      <4>3. CASE p \notin dead
        BY <2>3, <4>1, <4>3
      <4> QED
        BY <4>2, <4>3
    <3>1. group' = group /\ \A p \in group : life'[p] # "none"
      BY <3>0, <3>g
    <3>2. /\ sup' = "grace" /\ sup = "term" /\ waiter' = waiter
          /\ res'.term_sent
      BY <1>2 DEF SendTerm, Goto, Known, TypeOK, Results
    <3>3. life'[Child] # "none" /\ (waiter \in {"reaped", "sent"} => life'[Child] = "gone")
      BY <2>2, <2>3, <2>c, <3>2 DEF TreeInv
    <3>4. fate' = "none" <=> life'[Child] \notin {"zombie", "gone"}
      BY <2>2, <2>3, <2>c DEF TreeInv
    <3> QED
      BY <3>1, <3>2, <3>3, <3>4 DEF TreeInv
  <2>7. CallerInv'
    BY <1>2, <2>2, <2>3 DEF TypeOK, Results, TreeInv, CallerInv, Waited, OutcomeOf,
       SendTerm, Ended
  <2>8. ReadInv'
    BY <1>2, <2>2, <2>3 DEF TypeOK, Results, CallerInv, ReadInv, Held, Waited, SendTerm
  <2> QED
    BY <2>4, <2>5, <2>6, <2>7, <2>8
<1>3. CASE SendKill
  <2>1. Killed(group) /\ group \in SUBSET Proc /\ Child \in Proc
    BY <1>3 DEF TypeOK, SendKill, Proc
  <2>2. /\ life' \in [Proc -> Lives] /\ fate' \in Endings \union {"none"}
        /\ \A p \in group : life'[p] = IF life[p] = "running" THEN Ended(p)
                                       ELSE IF life[p] = "wedged" THEN "doomed"
                                       ELSE life[p]
        /\ \A p \in Proc \ group : life'[p] = life[p]
        /\ fate' = IF Child \in group /\ life[Child] = "running" THEN "kill" ELSE fate
        /\ holds' \subseteq holds /\ writing' \subseteq holds'
    BY <2>1, KilledShape
  <2>c. life'[Child] = IF Child \notin group THEN life[Child]
                       ELSE IF life[Child] = "running" THEN "zombie"
                       ELSE IF life[Child] = "wedged" THEN "doomed" ELSE life[Child]
    BY <2>1, <2>2 DEF Ended
  <2>g. group' = group /\ \A p \in group : life'[p] \notin {"running", "wedged", "none"}
    <3>1. group' = group
      BY <1>3 DEF SendKill
    <3>2. ASSUME NEW p \in group
          PROVE  life'[p] \notin {"running", "wedged", "none"}
      BY <2>1, <2>2, <3>2 DEF Ended, Known, TreeInv
    <3> QED
      BY <3>1, <3>2
  <2>3. TypeOK'
    BY <1>3, <2>1, <2>2 DEF TypeOK, Results, Points, Outcome, Endings, Lives,
       SendKill, Ended
  <2>4. GroupIsKilled'
    BY <1>3, <2>g DEF TypeOK, GroupIsKilled, SendKill, Ended
  <2>5. TreeInv'
    BY <1>3, <2>1, <2>2, <2>c, <2>g DEF TypeOK, GroupIsKilled, TreeInv, CallerInv,
       SendKill, Ended
  <2>6. CallerInv'
    BY <1>3, <2>1, <2>2 DEF TypeOK, Results, TreeInv, CallerInv, Waited, OutcomeOf,
       SendKill, Ended
  <2>7. ReadInv'
    BY <1>3, <2>1, <2>2 DEF TypeOK, Results, CallerInv, ReadInv, Held, Waited, SendKill
  <2> QED
    BY <2>3, <2>4, <2>5, <2>6, <2>7 DEF Known
<1> QED
  BY <1>1, <1>2, <1>3

\* The waiter and the drains.
LEMMA ThreadStep ==
  ASSUME Known, TailIsKept, Waiter \/ \E s \in Stream : Drain(s)
  PROVE  Known'
<1> USE DEF Known, caller, reading, tree
<1>1. CASE Reap
  BY <1>1 DEF Reap, TypeOK, Lives, Proc, GroupIsKilled, TreeInv, CallerInv, ReadInv,
     Waited, OutcomeOf, Held
<1>2. CASE SendStatus
  BY <1>2 DEF SendStatus, TypeOK, GroupIsKilled, TreeInv, CallerInv, ReadInv, Waited,
     OutcomeOf, Held
<1>3. ASSUME NEW s \in Stream, Read(s)
      PROVE  Known'
  <2>1. /\ total' \in [Stream -> Nat] /\ keep' \in [Stream -> Kept]
        /\ truncated' \in [Stream -> BOOLEAN]
    BY <1>3, ReadTail
  <2>2. /\ drain[s] = "reading" /\ UNCHANGED <<sup, res, waiter, drain, life, group, fate,
                                                holds, writing, written>>
        /\ \A t \in Stream : t # s => total'[t] = total[t]
    BY <1>3 DEF Read, TypeOK
  <2>3. TypeOK'
    BY <2>1, <2>2 DEF TypeOK
  <2> QED
    BY <2>2, <2>3 DEF GroupIsKilled, TreeInv, CallerInv, ReadInv, Waited, OutcomeOf, Held
<1>4. ASSUME NEW s \in Stream, Eof(s)
      PROVE  Known'
  <2>1. TypeOK'
    BY <1>4 DEF TypeOK, Results, Points, Outcome, Endings, Lives, Eof, InPipe
  <2>2. GroupIsKilled'
    BY <1>4 DEF TypeOK, GroupIsKilled, Eof, InPipe
  <2>3. TreeInv'
    BY <1>4 DEF TypeOK, GroupIsKilled, TreeInv, CallerInv, Eof, InPipe
  <2>4. CallerInv'
    BY <1>4 DEF TypeOK, Results, TreeInv, CallerInv, Waited, OutcomeOf, Eof, InPipe
  <2>e. total[s] = written[s]
    <3>1. total[s] \in Nat /\ written[s] \in Nat /\ written[s] - total[s] = 0
      BY <1>4 DEF Eof, InPipe, TypeOK
    <3> QED
      BY <3>1
  <2>5. ReadInv'
    BY <1>4, <2>e DEF TypeOK, CallerInv, ReadInv, Held, Waited, Eof, InPipe
  <2> QED
    BY <2>1, <2>2, <2>3, <2>4, <2>5
<1> QED
  BY <1>1, <1>2, <1>3, <1>4 DEF Waiter, Drain

\* Whatever the child and its descendants do.
LEMMA ProgramStep ==
  ASSUME Known, NEW p \in Proc, Program(p)
  PROVE  Known'
<1> USE DEF Known, caller, reading, tree
<1>0. Child \in Proc /\ Kid \subseteq Proc /\ Child \notin Kid
  BY DEF Proc
<1>1. ASSUME NEW k \in Kid, Fork(p, k)
      PROVE  Known'
  <2>h. holds' \subseteq Proc \X Stream /\ holds \subseteq holds'
    <3>1. holds' = holds \union {<<k, s>> : s \in {t \in Stream : <<p, t>> \in holds}}
      BY <1>1 DEF Fork
    <3>2. ASSUME NEW h \in {<<k, s>> : s \in {t \in Stream : <<p, t>> \in holds}}
          PROVE  h \in Proc \X Stream
      <4>1. PICK s \in Stream : h = <<k, s>>
        BY <3>2
      <4>2. k \in Proc
        BY <1>0
      <4> QED
        BY <4>1, <4>2
    <3> QED
      BY <3>1, <3>2 DEF TypeOK
  <2>l. life' \in [Proc -> Lives] /\ group' \subseteq Proc
    BY <1>0, <1>1 DEF TypeOK, Fork, Lives, Running
  <2>1. TypeOK'
    BY <1>1, <2>h, <2>l DEF TypeOK, Fork, Running
  <2>2. GroupIsKilled'
    BY <1>0, <1>1 DEF TypeOK, GroupIsKilled, TreeInv, Fork, Running
  <2>3. TreeInv'
    BY <1>0, <1>1 DEF TypeOK, GroupIsKilled, TreeInv, CallerInv, Fork, Running
  <2>4. CallerInv'
    BY <1>0, <1>1 DEF TypeOK, Results, TreeInv, CallerInv, Waited, OutcomeOf, Fork,
       Running
  <2>5. ReadInv'
    BY <1>0, <1>1 DEF TypeOK, CallerInv, ReadInv, Held, Waited, Fork, Running
  <2> QED
    BY <2>1, <2>2, <2>3, <2>4, <2>5
<1>2. CASE p \in Kid /\ Escape(p)
  BY <1>0, <1>2 DEF Escape, Running, TypeOK, GroupIsKilled, TreeInv, CallerInv, ReadInv,
     Waited, OutcomeOf, Held
<1>3. ASSUME NEW s \in Stream, Redirect(p, s)
      PROVE  Known'
  BY <1>3 DEF Redirect, Idle, Running, TypeOK, GroupIsKilled, TreeInv, CallerInv,
     ReadInv, Waited, OutcomeOf, Held
<1>4. ASSUME NEW s \in Stream, BeginWrite(p, s)
      PROVE  Known'
  BY <1>4 DEF BeginWrite, Running, TypeOK, GroupIsKilled, TreeInv, CallerInv, ReadInv,
     Waited, OutcomeOf, Held
<1>5. ASSUME NEW s \in Stream, Write(p, s)
      PROVE  Known'
  <2>1. TypeOK'
    BY <1>5 DEF TypeOK, Results, Points, Outcome, Endings, Lives, Write
  <2>2. GroupIsKilled'
    BY <1>5 DEF TypeOK, GroupIsKilled, Write
  <2>3. TreeInv'
    BY <1>5 DEF TypeOK, GroupIsKilled, TreeInv, CallerInv, Write
  <2>4. CallerInv'
    BY <1>5 DEF TypeOK, Results, TreeInv, CallerInv, Waited, OutcomeOf, Write
  <2>5. ReadInv'
    BY <1>5 DEF TypeOK, CallerInv, ReadInv, Held, Waited, Write
  <2> QED
    BY <2>1, <2>2, <2>3, <2>4, <2>5
<1>6. CASE Exit(p)
  <2>1. PICK how \in {"zero", "nonzero", "foreign"} : Die({p}, how)
    BY <1>6 DEF Exit
  <2>2. /\ {p} \in SUBSET Running /\ {p} \in SUBSET Proc /\ how \in Endings
        /\ life[p] = "running"
    BY <1>6 DEF Exit, Endings, Running
  <2>3. /\ life' \in [Proc -> Lives] /\ fate' \in Endings \union {"none"}
        /\ life'[p] = Ended(p) /\ life[p] = "running"
        /\ \A q \in Proc \ {p} : life'[q] = life[q]
        /\ fate' = IF Child \in {p} THEN how ELSE fate
        /\ holds' \subseteq holds /\ writing' \subseteq holds'
    BY <2>1, <2>2, DieShape
  <2>4. TypeOK'
    BY <1>0, <1>6, <2>1, <2>3 DEF TypeOK, Results, Points, Outcome, Endings, Lives,
       Exit, Ended
  <2>5. GroupIsKilled'
    BY <1>0, <1>6, <2>1, <2>3 DEF TypeOK, GroupIsKilled, Exit, Ended
  <2>6. TreeInv'
    BY <1>0, <1>6, <2>1, <2>3 DEF TypeOK, GroupIsKilled, TreeInv, CallerInv, Exit, Ended
  <2>7. CallerInv'
    BY <1>0, <1>6, <2>1, <2>3 DEF TypeOK, Results, TreeInv, CallerInv, Waited,
       OutcomeOf, Exit, Ended
  <2>8. ReadInv'
    BY <1>0, <1>6, <2>1, <2>3 DEF TypeOK, CallerInv, ReadInv, Held, Waited, Exit, Ended
  <2> QED
    BY <2>4, <2>5, <2>6, <2>7, <2>8
<1>7. CASE Wedge(p)
  BY <1>0, <1>7 DEF Wedge, Lives, Running, TypeOK, GroupIsKilled, TreeInv, CallerInv,
     ReadInv, Waited, OutcomeOf, Held
<1>8. CASE Unwedge(p)
  <2>w. life' \in [Proc -> Lives] /\ fate' \in Endings \union {"none"}
        /\ holds' \subseteq holds /\ writing' \subseteq holds'
    <3>1. CASE life[p] = "wedged" /\ life' = [life EXCEPT ![p] = "running"]
               /\ UNCHANGED <<fate, holds, writing>>
      BY <3>1 DEF TypeOK, Lives
    <3>2. CASE Die({p}, "kill")
      BY <3>2, DieShape DEF Endings
    <3> QED
      BY <1>8, <3>1, <3>2 DEF Unwedge
  <2>1. TypeOK'
    BY <1>8, <2>w DEF TypeOK, Unwedge, caller, reading, tree
  <2>2. GroupIsKilled'
    BY <1>0, <1>8 DEF TypeOK, GroupIsKilled, Unwedge, Die, Close, Ended
  <2>3. TreeInv'
    BY <1>0, <1>8 DEF TypeOK, GroupIsKilled, TreeInv, CallerInv, Unwedge, Die, Close,
       Ended
  <2>4. CallerInv'
    BY <1>0, <1>8 DEF TypeOK, Results, TreeInv, CallerInv, Waited, OutcomeOf, Unwedge,
       Die, Close, Ended
  <2>5. ReadInv'
    BY <1>0, <1>8 DEF TypeOK, CallerInv, ReadInv, Held, Waited, Unwedge, Die, Close, Ended
  <2> QED
    BY <2>1, <2>2, <2>3, <2>4, <2>5
<1> QED
  BY <1>1, <1>2, <1>3, <1>4, <1>5, <1>6, <1>7, <1>8 DEF Program
-----------------------------------------------------------------------------
(* The inductive invariant, and the properties it gives.                   *)

\* At the start nothing runs, nothing was read, nothing is known.
LEMMA InitInv == Init => IInv
<1> SUFFICES ASSUME Init
             PROVE  IInv
  OBVIOUS
<1>1. TypeOK
  <2>1. <<>> \in Kept
    BY DEF Kept
  <2> QED
    BY <2>1 DEF Init, TypeOK, Points, Results, Outcome, Endings, Lives
<1>2. TailIsKept
  <2>1. /\ Len(<<>>) = 0 /\ Cap \in Nat
        /\ \A s \in Stream : total[s] = 0 /\ keep[s] = <<>> /\ ~truncated[s]
    BY DEF Init
  <2> QED
    BY <2>1 DEF TailIsKept
<1>3. GroupIsKilled /\ TreeInv /\ CallerInv /\ ReadInv
  BY DEF Init, GroupIsKilled, TreeInv, CallerInv, ReadInv, Waited, Proc
<1> QED
  BY <1>1, <1>2, <1>3 DEF IInv

\* Only a read touches what a drain keeps.
LEMMA TailStep ==
  ASSUME IInv, Next
  PROVE  TailIsKept'
<1>1. ASSUME NEW s \in Stream, Read(s)
      PROVE  TailIsKept'
  BY <1>1, ReadTail DEF IInv
<1>2. CASE UNCHANGED <<total, keep, truncated>>
  BY <1>2 DEF IInv, TailIsKept
<1>3. Supervise => UNCHANGED <<total, keep, truncated>>
  BY DEF Supervise, NeverStarts, Refuse, SpawnFails, Spawn, StartThreads, Receive,
     DeadlinePasses, SendTerm, GracePasses, SendKill, ReapPasses, Join, Collect, Return,
     reading
<1>4. Waiter \/ (\E s \in Stream : Eof(s)) => UNCHANGED <<total, keep, truncated>>
  BY DEF Waiter, Reap, SendStatus, Eof, reading
<1>5. (\E p \in Proc : Program(p)) => UNCHANGED <<total, keep, truncated>>
  BY DEF Program, Fork, Escape, Redirect, BeginWrite, Write, Exit, Wedge, Unwedge, reading
<1> QED
  BY <1>1, <1>2, <1>3, <1>4, <1>5 DEF Next, Drain

\* Every step keeps the inductive invariant.
LEMMA StepInv == IInv /\ [Next]_vars => IInv'
<1> SUFFICES ASSUME IInv, [Next]_vars
             PROVE  IInv'
  OBVIOUS
<1>0. Known /\ TailIsKept
  BY DEF IInv, Known
<1>1. CASE Next
  <2>1. Supervise => Known'
    BY <1>0, CallerStep, SignalStep DEF Supervise
  <2>2. Waiter \/ (\E s \in Stream : Drain(s)) => Known'
    BY <1>0, ThreadStep
  <2>3. (\E p \in Proc : Program(p)) => Known'
    BY <1>0, ProgramStep
  <2> QED
    BY <1>1, <2>1, <2>2, <2>3, TailStep DEF Next, Known, IInv
<1>2. CASE UNCHANGED vars
  <2>0. /\ UNCHANGED <<sup, res, waiter, drain, total, keep, truncated>>
        /\ UNCHANGED <<life, group, fate, holds, writing, written>>
    BY <1>2 DEF vars, caller, reading, tree
  <2>1. TypeOK'
    BY <2>0 DEF IInv, TypeOK
  <2>2. GroupIsKilled'
    BY <2>0 DEF IInv, GroupIsKilled
  <2>3. TreeInv'
    BY <2>0 DEF IInv, TreeInv
  <2>4. CallerInv'
    BY <2>0 DEF IInv, CallerInv, Waited, OutcomeOf
  <2>5. ReadInv'
    BY <2>0 DEF IInv, ReadInv, Held
  <2>6. TailIsKept'
    BY <2>0 DEF IInv, TailIsKept
  <2> QED
    BY <2>1, <2>2, <2>3, <2>4, <2>5, <2>6 DEF IInv
<1> QED
  BY <1>1, <1>2

\* The invariant holds in every state of every call.
THEOREM InductiveInvariant == Spec => []IInv
<1> QED
  BY InitInv, StepInv, PTL DEF Spec

\* Every variable keeps its type; who writes to a pipe has it open.
THEOREM TypeCorrect == Spec => []TypeOK
<1>1. IInv => TypeOK
  BY DEF IInv
<1> QED
  BY <1>1, InductiveInvariant, PTL

\* Once the SIGKILL is sent no member of the group runs again, whatever the
\* tree has forked and whoever was stuck or deaf (supervisor.rs:454, 462).
THEOREM KilledGroupIsKilled == Spec => []GroupIsKilled
<1>1. IInv => GroupIsKilled
  BY DEF IInv
<1> QED
  BY <1>1, InductiveInvariant, PTL

\* A call that started a child does not return before the child was reaped
\* (supervisor.rs:18-19).
THEOREM NothingIsLeftAZombie == Spec => []NoZombie
<1>1. IInv => NoZombie
  BY DEF IInv, TreeInv, CallerInv, NoZombie
<1> QED
  BY <1>1, InductiveInvariant, PTL

\* The result agrees with the fate of the child, and a task counts as ok only
\* when its child ended with 0 unsignalled (supervisor.rs:293-310).
THEOREM ResultsAreTrue == Spec => []ResultIsTrue
<1>1. IInv => ResultIsTrue
  <2> SUFFICES ASSUME IInv, sup = "done"
               PROVE  ResultIsTrue
    BY DEF ResultIsTrue
  <2>1. CASE res.outcome \in {"Refused", "SpawnFailed"} /\ res.status = "none"
    BY <2>1 DEF ResultIsTrue, TaskOutcome
  <2>2. CASE /\ waiter = "sent" /\ res.outcome = OutcomeOf(res)
             /\ res.status # "none" \/ res.timed_out
    <3>1. /\ res.status \in Endings \union {"none"} /\ res.status \in {fate, "none"}
          /\ res.timed_out => res.term_sent
          /\ res.term_sent => res.timed_out
          /\ fate \in {"term", "kill"} => res.term_sent
      BY DEF IInv, TypeOK, Results, TreeInv, CallerInv
    <3>2. CASE res.timed_out
      BY <2>2, <3>1, <3>2 DEF ResultIsTrue, TaskOutcome, OutcomeOf
    <3>3. CASE ~res.timed_out
      BY <2>2, <3>1, <3>3 DEF ResultIsTrue, TaskOutcome, OutcomeOf, Endings
    <3> QED
      BY <3>2, <3>3
  <2> QED
    BY <2>1, <2>2 DEF IInv, CallerInv
<1> QED
  BY <1>1, InductiveInvariant, PTL

\* The capture of a stream is the last Cap bytes of it, whatever the sizes of
\* the window and of the reads (supervisor.rs:41-44, 282-285).
THEOREM TailsAreKept == Spec => []TailIsKept
<1>1. IInv => TailIsKept
  BY DEF IInv
<1> QED
  BY <1>1, InductiveInvariant, PTL

\* A stream reported complete was read to its last byte
\* (supervisor.rs:286-289).
THEOREM CompleteIsComplete == Spec => []CompleteMeansAll
<1>1. IInv => CompleteMeansAll
  BY DEF IInv, ReadInv, CompleteMeansAll
<1> QED
  BY <1>1, InductiveInvariant, PTL

\* The two together: a capture is the tail of what was read, and all of it where
\* it is called complete (supervisor.rs:282-289).
THEOREM CapturesAreTrue == Spec => []CaptureIsTrue
<1>1. TailIsKept /\ CompleteMeansAll => CaptureIsTrue
  BY DEF CaptureIsTrue
<1> QED
  BY <1>1, TailsAreKept, CompleteIsComplete, PTL
=============================================================================
