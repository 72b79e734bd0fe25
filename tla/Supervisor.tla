----------------------------- MODULE Supervisor -----------------------------
(***************************************************************************)
(* One call of `supervise` (supervisor.rs): a child in a process group of  *)
(* its own, the descendants it may leave, two pipes, and the threads of    *)
(* the parent: the caller, which waits with bounds and signals the group,  *)
(* the waiter, which reaps the child, and a drain for each pipe.           *)
(*                                                                         *)
(* Time is left out: each bounded wait may end at any moment at which what *)
(* it waits for has not arrived.  The bytes of a stream are the numbers    *)
(* 1, 2, 3, ... in the order in which they are written.                    *)
(***************************************************************************)
EXTENDS Naturals, Sequences

CONSTANTS
  Child,      \* the process that is spawned
  Kid,        \* the descendants it may have
  Stream,     \* stdout and stderr
  Cap,        \* MAX_CAPTURE_BYTES, 64 KiB in the code
  ReadMax,    \* the buffer of one read, 8 KiB in the code
  PipeCap,    \* what a pipe holds
  Wedges,     \* BOOLEAN: may a process get stuck in the kernel?
  MaxWrites   \* bound: bytes written to each stream

ASSUME SupervisorAssumption ==
  /\ Child \notin Kid
  /\ Cap \in Nat /\ ReadMax \in 1 .. (Cap - 1)
  /\ PipeCap \in Nat \ {0} /\ MaxWrites \in [Stream -> Nat]
  /\ Wedges \in BOOLEAN

Proc == Kid \union {Child}

VARIABLES
  sup,        \* where the caller is
  res,        \* the ChildResult it builds
  waiter,     \* the thread that waits for the child, and its channel
  drain,      \* the thread of each pipe, and its channel
  total,      \* bytes each drain has read
  keep,       \* the bytes it keeps of them
  truncated,  \* it has dropped some
  life,       \* each process
  group,      \* the processes of the child's group
  fate,       \* how the child ended
  holds,      \* who has which pipe open for writing
  writing,    \* who is in a write to which pipe
  written     \* bytes written to each pipe

caller  == <<sup, res>>
reading == <<drain, total, keep, truncated>>
tree    == <<life, group, fate, holds, writing>>
vars    == <<caller, waiter, reading, tree, written>>

Points  == {"preflight", "spawned", "wait", "term", "grace", "kill", "reap", "join",
            "collect", "done"}
Lives   == {"none", "running", "wedged", "doomed", "zombie", "gone"}
Endings == {"zero", "nonzero", "foreign", "term", "kill"}
Outcome == {"pending", "Exited", "TimedOut", "Signalled", "SpawnFailed", "Refused"}
Results == [outcome : Outcome, status : Endings \union {"none"}, timed_out : BOOLEAN,
            term_sent : BOOLEAN, kill_sent : BOOLEAN,
            complete : [Stream -> {"pending", "yes", "no"}]]

\* What a drain may hold in memory.
Kept == {bytes \in Seq(Nat) : Len(bytes) <= Cap}

Init ==
  /\ sup = "preflight"
  /\ res = [outcome |-> "pending", status |-> "none", timed_out |-> FALSE,
            term_sent |-> FALSE, kill_sent |-> FALSE,
            complete |-> [s \in Stream |-> "pending"]]
  /\ waiter = "off"
  /\ drain = [s \in Stream |-> "off"]
  /\ total = [s \in Stream |-> 0] /\ written = [s \in Stream |-> 0]
  /\ keep = [s \in Stream |-> <<>>] /\ truncated = [s \in Stream |-> FALSE]
  /\ life = [p \in Proc |-> "none"] /\ group = {} /\ fate = "none"
  /\ holds = {} /\ writing = {}

-----------------------------------------------------------------------------
(* Processes end, and the kernel closes what they had open.                *)
Running  == {p \in Proc : life[p] = "running"}
InPipe(s) == written[s] - total[s]
Held(s)   == \E p \in Proc : <<p, s>> \in holds
Idle(p)   == \A s \in Stream : <<p, s>> \notin writing

Ended(p) == IF p = Child THEN "zombie" ELSE "gone"
Close(dead) ==
  /\ holds' = {h \in holds : h[1] \notin dead}
  /\ writing' = {w \in writing : w[1] \notin dead}
Die(dead, how) ==
  /\ life' = [p \in Proc |-> IF p \in dead THEN Ended(p) ELSE life[p]]
  /\ fate' = IF Child \in dead THEN how ELSE fate
  /\ Close(dead)

-----------------------------------------------------------------------------
(* The caller.                                                             *)
Goto(from, to) == sup = from /\ sup' = to

\* No process was ever there.
NeverStarts(why) ==
  /\ Goto("preflight", "done")
  /\ res' = [res EXCEPT !.outcome = why]
  /\ UNCHANGED <<waiter, reading, tree, written>>
Refuse     == NeverStarts("Refused")
SpawnFails == NeverStarts("SpawnFailed")

\* spawn with process_group(0): the child leads its group before it runs.
Spawn ==
  /\ Goto("preflight", "spawned")
  /\ life' = [life EXCEPT ![Child] = "running"]
  /\ group' = {Child} /\ holds' = {Child} \X Stream
  /\ UNCHANGED <<res, waiter, reading, fate, writing, written>>

\* drain_in_background for both pipes, then the waiter.
StartThreads ==
  /\ Goto("spawned", "wait")
  /\ waiter' = "waiting" /\ drain' = [s \in Stream |-> "reading"]
  /\ UNCHANGED <<res, total, keep, truncated, tree, written>>

\* recv_timeout finds the status, in any of its three uses.
Receive ==
  /\ sup \in {"wait", "grace", "reap"} /\ sup' = "join"
  /\ waiter = "sent"
  /\ res' = [res EXCEPT !.status = fate]
  /\ UNCHANGED <<waiter, reading, tree, written>>

DeadlinePasses ==
  /\ Goto("wait", "term") /\ waiter # "sent"
  /\ res' = [res EXCEPT !.timed_out = TRUE]
  /\ UNCHANGED <<waiter, reading, tree, written>>

\* SIGTERM to the group: some die of it, others ignore it, or handle it and
\* end in their own time.
SendTerm ==
  /\ Goto("term", "grace")
  /\ res' = [res EXCEPT !.term_sent = TRUE]
  /\ \E dead \in SUBSET (group \intersect Running) : Die(dead, "term")
  /\ UNCHANGED <<waiter, reading, group, written>>

GracePasses ==
  /\ Goto("grace", "kill") /\ waiter # "sent"
  /\ UNCHANGED <<res, waiter, reading, tree, written>>

\* SIGKILL: whoever runs dies at once, whoever is stuck in the kernel when it
\* comes out.
Killed(target) ==
  /\ life' = [p \in Proc |-> IF p \notin target THEN life[p]
                             ELSE IF life[p] = "running" THEN Ended(p)
                             ELSE IF life[p] = "wedged" THEN "doomed" ELSE life[p]]
  /\ fate' = IF Child \in target \intersect Running THEN "kill" ELSE fate
  /\ Close(target \intersect Running)

\* Mutant of SendKill: the child is killed, not its group.
SendKillToChild ==
  /\ Goto("kill", "reap")
  /\ res' = [res EXCEPT !.kill_sent = TRUE]
  /\ Killed({Child})
  /\ UNCHANGED <<waiter, reading, group, written>>

SendKill ==
  /\ Goto("kill", "reap")
  /\ res' = [res EXCEPT !.kill_sent = TRUE]
  /\ Killed(group)
  /\ UNCHANGED <<waiter, reading, group, written>>

ReapPasses ==
  /\ Goto("reap", "join") /\ waiter # "sent"
  /\ UNCHANGED <<res, waiter, reading, tree, written>>

\* Mutant of OutcomeOf: a signal is looked at before the deadline.
OutcomeBySignal(r) ==
  IF r.status \in {"foreign", "term", "kill"} THEN "Signalled"
  ELSE IF r.timed_out THEN "TimedOut" ELSE "Exited"

OutcomeOf(r) ==
  IF r.timed_out THEN "TimedOut"
  ELSE IF r.status \in {"foreign", "term", "kill"} THEN "Signalled" ELSE "Exited"

\* waiter.join(), without a bound.
Join ==
  /\ Goto("join", "collect") /\ waiter = "sent"
  /\ res' = [res EXCEPT !.outcome = OutcomeOf(res)]
  /\ UNCHANGED <<waiter, reading, tree, written>>

\* Mutant of Arrived: what was read so far counts as everything.
AnyThing(s) == drain[s] # "off"

\* collect: what the drain sent, or after a while nothing of that stream.
Arrived(s) == drain[s] = "sent"

\* Mutant of Collect: the end of the stream is waited for without a bound.
CollectAll(s) ==
  /\ sup = "collect" /\ res.complete[s] = "pending" /\ Arrived(s)
  /\ res' = [res EXCEPT !.complete[s] = "yes"]
  /\ UNCHANGED <<sup, waiter, reading, tree, written>>

Collect(s) ==
  /\ sup = "collect" /\ res.complete[s] = "pending"
  /\ res' = [res EXCEPT !.complete[s] = IF Arrived(s) THEN "yes" ELSE "no"]
  /\ UNCHANGED <<sup, waiter, reading, tree, written>>

Return ==
  /\ Goto("collect", "done") /\ \A s \in Stream : res.complete[s] # "pending"
  /\ UNCHANGED <<res, waiter, reading, tree, written>>

\* interpret (external.rs): the task outcome of a result.
TaskOutcome(r) ==
  CASE r.outcome = "Exited" /\ r.status = "zero" -> "ok"
    [] r.outcome = "TimedOut" -> "timeout"
    [] r.outcome = "Refused"  -> "skipped"
    [] OTHER                  -> "failed"

-----------------------------------------------------------------------------
(* The other threads.                                                      *)
Reap ==
  /\ waiter = "waiting" /\ life[Child] = "zombie"
  /\ waiter' = "reaped" /\ life' = [life EXCEPT ![Child] = "gone"]
  /\ UNCHANGED <<caller, reading, group, fate, holds, writing, written>>

SendStatus ==
  /\ waiter = "reaped" /\ waiter' = "sent"
  /\ UNCHANGED <<caller, reading, tree, written>>

\* The last Cap bytes.
Window(seq) == IF Len(seq) <= Cap THEN seq ELSE SubSeq(seq, Len(seq) - Cap + 1, Len(seq))

\* One read of the loop in drain: n bytes, fewer than the window holds.
Read(s) ==
  /\ drain[s] = "reading"
  /\ \E n \in 1 .. ReadMax :
       LET seen == keep[s] \o [i \in 1 .. n |-> total[s] + i] IN
       /\ n <= InPipe(s)
       /\ total' = [total EXCEPT ![s] = @ + n]
       /\ keep' = [keep EXCEPT ![s] = Window(seen)]
       /\ truncated' = [truncated EXCEPT ![s] = @ \/ Len(seen) > Cap]
  /\ UNCHANGED <<caller, waiter, drain, tree, written>>

\* The pipe is empty and no process has it open.
Eof(s) ==
  /\ drain[s] = "reading" /\ InPipe(s) = 0 /\ ~Held(s)
  /\ drain' = [drain EXCEPT ![s] = "sent"]
  /\ UNCHANGED <<caller, waiter, total, keep, truncated, tree, written>>

-----------------------------------------------------------------------------
(* The child and its descendants: any program.                             *)
Fork(p, k) ==
  /\ p \in Running /\ Idle(p) /\ life[k] = "none"
  /\ life' = [life EXCEPT ![k] = "running"]
  /\ group' = IF p \in group THEN group \union {k} ELSE group
  /\ holds' = holds \union {<<k, s>> : s \in {t \in Stream : <<p, t>> \in holds}}
  /\ UNCHANGED <<caller, waiter, reading, fate, writing, written>>

\* setsid: the leader of a group cannot.
Escape(k) ==
  /\ k \in Running \intersect group /\ group' = group \ {k}
  /\ UNCHANGED <<caller, waiter, reading, life, fate, holds, writing, written>>

Redirect(p, s) ==
  /\ p \in Running /\ Idle(p) /\ <<p, s>> \in holds
  /\ holds' = holds \ {<<p, s>>}
  /\ UNCHANGED <<caller, waiter, reading, life, group, fate, writing, written>>

BeginWrite(p, s) ==
  /\ p \in Running /\ Idle(p) /\ <<p, s>> \in holds /\ written[s] < MaxWrites[s]
  /\ writing' = writing \union {<<p, s>>}
  /\ UNCHANGED <<caller, waiter, reading, life, group, fate, holds, written>>

\* A full pipe blocks the writer here.
Write(p, s) ==
  /\ p \in Running /\ <<p, s>> \in writing /\ InPipe(s) < PipeCap
  /\ written' = [written EXCEPT ![s] = @ + 1]
  /\ writing' = writing \ {<<p, s>>}
  /\ UNCHANGED <<caller, waiter, reading, life, group, fate, holds>>

\* It exits, or somebody else kills it.
Exit(p) ==
  /\ p \in Running
  /\ \E how \in {"zero", "nonzero", "foreign"} :
       (how # "foreign" => Idle(p)) /\ Die({p}, how)
  /\ UNCHANGED <<caller, waiter, reading, group, written>>

Wedge(p) ==
  /\ Wedges /\ p \in Running
  /\ life' = [life EXCEPT ![p] = "wedged"]
  /\ UNCHANGED <<caller, waiter, reading, group, fate, holds, writing, written>>

Unwedge(p) ==
  /\ \/ /\ life[p] = "wedged" /\ life' = [life EXCEPT ![p] = "running"]
        /\ UNCHANGED <<fate, holds, writing>>
     \/ life[p] = "doomed" /\ Die({p}, "kill")
  /\ UNCHANGED <<caller, waiter, reading, group, written>>

-----------------------------------------------------------------------------
Supervise ==
  \/ Refuse \/ SpawnFails \/ Spawn \/ StartThreads \/ Receive
  \/ DeadlinePasses \/ SendTerm \/ GracePasses \/ SendKill \/ ReapPasses
  \/ Join \/ (\E s \in Stream : Collect(s)) \/ Return
Waiter   == Reap \/ SendStatus
Drain(s) == Read(s) \/ Eof(s)
Program(p) ==
  \/ \E k \in Kid : Fork(p, k)
  \/ p \in Kid /\ Escape(p)
  \/ \E s \in Stream : Redirect(p, s) \/ BeginWrite(p, s) \/ Write(p, s)
  \/ Exit(p) \/ Wedge(p) \/ Unwedge(p)

Next == Supervise \/ Waiter \/ (\E s \in Stream : Drain(s)) \/ (\E p \in Proc : Program(p))

Spec == Init /\ [][Next]_vars

\* The threads of the parent are scheduled, and a bounded wait ends.  Nothing
\* is assumed of the child, of its descendants, or of the kernel.
FairSpec == Spec /\ WF_vars(Supervise) /\ WF_vars(Waiter)
                 /\ \A s \in Stream : WF_vars(Drain(s))

-----------------------------------------------------------------------------
(* Properties.                                                             *)
TypeOK ==
  /\ sup \in Points /\ res \in Results
  /\ waiter \in {"off", "waiting", "reaped", "sent"}
  /\ drain \in [Stream -> {"off", "reading", "sent"}]
  /\ total \in [Stream -> Nat] /\ written \in [Stream -> Nat]
  /\ keep \in [Stream -> Kept] /\ truncated \in [Stream -> BOOLEAN]
  /\ life \in [Proc -> Lives] /\ group \subseteq Proc
  /\ fate \in Endings \union {"none"}
  /\ holds \subseteq Proc \X Stream /\ writing \subseteq holds

\* After the SIGKILL no process of the group runs, however it was forked,
\* stuck, or deaf to SIGTERM: the group is killed, not the pid
\* (supervisor.rs:454, 462).
GroupIsKilled ==
  res.kill_sent => \A p \in group : life[p] \notin {"running", "wedged"}

\* On every path on which a child was there, it was reaped when the call
\* returns (supervisor.rs:18-19).
NoZombie ==
  sup = "done" /\ res.outcome \notin {"Refused", "SpawnFailed"} => life[Child] = "gone"

\* The result tells how the child really ended: a code it gave by itself, a
\* signal that the supervisor did not send, or a deadline; and a task is ok
\* only if its child ended with 0 before any signal (supervisor.rs:293-310).
ResultIsTrue ==
  sup = "done" =>
    /\ res.status \in {fate, "none"}
    /\ res.outcome = "Exited" => fate \in {"zero", "nonzero"} /\ res.status = fate
    /\ res.outcome = "Signalled" => fate = "foreign"
    /\ res.outcome = "TimedOut" => res.term_sent
    /\ TaskOutcome(res) = "ok" => fate = "zero" /\ ~res.term_sent

\* Of each stream exactly the last Cap bytes are kept, and truncated says
\* whether any is missing (supervisor.rs:41-44, 282-285).
TailIsKept ==
  \A s \in Stream :
    /\ Len(keep[s]) = IF total[s] <= Cap THEN total[s] ELSE Cap
    /\ \A i \in 1 .. Len(keep[s]) : keep[s][i] = total[s] - Len(keep[s]) + i
    /\ truncated[s] <=> total[s] > Cap

\* A stream is reported complete only if every byte that anyone wrote to it
\* was read and nobody can write another (supervisor.rs:286-289).
CompleteMeansAll ==
  \A s \in Stream : res.complete[s] = "yes" => total[s] = written[s] /\ ~Held(s)

\* What was captured of a stream is its last bytes, and a whole is told apart
\* from a part (supervisor.rs:41-44, 282-289).
CaptureIsTrue == TailIsKept /\ CompleteMeansAll

\* The inductive invariant of the proofs.  Who is in the group was once alive,
\* and a child that ended stays so, with one fate.
TreeInv ==
  /\ \A p \in group : life[p] # "none"
  /\ sup = "preflight" <=> life[Child] = "none" /\ sup # "done"
  /\ sup = "preflight" => holds = {}
  /\ fate = "none" <=> life[Child] \notin {"zombie", "gone"}
  /\ waiter \in {"reaped", "sent"} => life[Child] = "gone"
  /\ fate \in {"term", "kill"} \/ life[Child] = "doomed" => res.term_sent

\* What the caller has done at each of its steps, and what it knows.
Waited == {"join", "collect"}
CallerInv ==
  /\ res.timed_out => sup \notin {"preflight", "spawned", "wait"}
  /\ res.timed_out => sup = "term" \/ res.term_sent
  /\ sup \in {"term", "grace", "kill", "reap"} => res.timed_out
  /\ res.term_sent => res.timed_out
  /\ res.kill_sent => res.term_sent
  /\ res.status # "none" => fate = res.status /\ sup \in Waited \union {"done"}
  /\ sup \in Waited => res.status # "none" \/ res.timed_out
  /\ sup = "collect" => waiter = "sent" /\ res.outcome = OutcomeOf(res)
  /\ sup = "done" => \/ res.outcome \in {"Refused", "SpawnFailed"} /\ res.status = "none"
                     \/ /\ waiter = "sent" /\ res.outcome = OutcomeOf(res)
                        /\ res.status # "none" \/ res.timed_out

\* What each drain has read, and what was taken of it.
ReadInv ==
  /\ \A s \in Stream : drain[s] = "sent" => total[s] = written[s] /\ ~Held(s)
  /\ \A s \in Stream : sup \in {"preflight", "spawned"} => drain[s] = "off"
  /\ \A s \in Stream : res.complete[s] # "pending" => sup \in {"collect", "done"}
  /\ \A s \in Stream : res.complete[s] = "yes" => drain[s] = "sent"

IInv == TypeOK /\ GroupIsKilled /\ TreeInv /\ CallerInv /\ ReadInv /\ TailIsKept

\* The call returns, unless the kernel keeps a killed child
\* (supervisor.rs:389, "Always returns").
ReturnsUnlessStuck == sup = "spawned" ~> sup = "done" \/ life[Child] = "doomed"

-----------------------------------------------------------------------------
(* What comments, a test or a document say and the code does not do.       *)

\* supervisor.rs:52-54: the wait for a killed child is bounded, so the
\* supervisor itself can never hang for ever.
Returns == sup = "spawned" ~> sup = "done"
=============================================================================
