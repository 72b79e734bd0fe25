------------------------------- MODULE Outbox -------------------------------
(***************************************************************************)
(* The tray of notices in updater.db (store.py) and the flushes that empty *)
(* it (notify.py).  A run flushes under the lock when it ends; `flush` and *)
(* `revoke` at a terminal take no lock, so flushes overlap.                *)
(*                                                                         *)
(* A send runs `hermes send`: it may deliver and say so, fail, or deliver  *)
(* and then time out, which reads as a failure.  A notice in Poison is     *)
(* refused whenever it is sent.                                            *)
(***************************************************************************)
EXTENDS Naturals, FiniteSets

CONSTANTS
  Notice,         \* the dedup keys
  Poison,         \* those that the transport always refuses
  Flusher,        \* the processes that flush
  MaxAttempts,    \* of unsent(), 50 in the code
  Retries,        \* notify_retries: sends in one attempt
  MaxFaults,      \* bound: sends of other notices that fail or end late
  MaxFlushDeaths  \* bound: flushes that die

ASSUME OutboxAssumption ==
  /\ IsFiniteSet(Notice) /\ IsFiniteSet(Flusher) /\ Poison \subseteq Notice
  /\ MaxAttempts \in Nat \ {0} /\ Retries \in Nat \ {0}
  /\ MaxFaults \in Nat /\ MaxFlushDeaths \in Nat

VARIABLES
  id,        \* row of each notice, 0 if it has none
  sent,      \* rows with sent_at
  attempts,  \* of each row
  todo,      \* each flush: what is left of the rows it read
  flush,     \* where it is with the first of them
  tries,     \* sends it has made of it
  arrived,   \* copies of each notice that reached the recipient
  excuses,   \* events that justify one copy more
  faults, deaths

rows == <<id, sent, attempts>>
outboxVars == <<rows, todo, flush, tries, arrived, excuses, faults, deaths>>

OutboxInit ==
  /\ id = [n \in Notice |-> 0] /\ sent = {} /\ attempts = [n \in Notice |-> 0]
  /\ todo = [p \in Flusher |-> {}] /\ flush = [p \in Flusher |-> "idle"]
  /\ tries = [p \in Flusher |-> 0]
  /\ arrived = [n \in Notice |-> 0] /\ excuses = [n \in Notice |-> 0]
  /\ faults = 0 /\ deaths = 0

Queued == {n \in Notice : id[n] # 0}

\* A key that is already there is not queued again, whatever became of it.
Enqueue(n) ==
  /\ n \notin Queued
  /\ id' = [id EXCEPT ![n] = Cardinality(Queued) + 1]
  /\ UNCHANGED <<sent, attempts, todo, flush, tries, arrived, excuses, faults, deaths>>

\* Mutant of Unsent: sent_at is not looked at.
UnsentOrSent == {n \in Queued : attempts[n] < MaxAttempts}

Unsent == {n \in Queued \ sent : attempts[n] < MaxAttempts}

First(p, n) == n \in todo[p] /\ \A other \in todo[p] : id[n] <= id[other]

\* The rows are read once.  What another flush also holds will be sent twice.
StartFlush(p) ==
  /\ flush[p] = "idle" /\ Unsent # {}
  /\ todo' = [todo EXCEPT ![p] = Unsent]
  /\ flush' = [flush EXCEPT ![p] = "send"]
  /\ excuses' = [n \in Notice |->
       IF n \in Unsent /\ \E q \in Flusher : n \in todo[q] THEN excuses[n] + 1 ELSE excuses[n]]
  /\ UNCHANGED <<rows, tries, arrived, faults, deaths>>

\* Mutant of Tried: once more than the retries.
TriedOnceMore(p, ok) ==
  /\ tries' = [tries EXCEPT ![p] = @ + 1]
  /\ flush' = [flush EXCEPT ![p] = IF ok THEN "sent" ELSE IF tries'[p] <= Retries THEN "send" ELSE "failed"]

\* The loop over the retries ends with the first that went well, or the last.
Tried(p, ok) ==
  /\ tries' = [tries EXCEPT ![p] = @ + 1]
  /\ flush' = [flush EXCEPT ![p] = IF ok THEN "sent" ELSE IF tries'[p] < Retries THEN "send" ELSE "failed"]

Delivered(p) ==
  \E n \in Notice \ Poison :
    /\ flush[p] = "send" /\ First(p, n)
    /\ arrived' = [arrived EXCEPT ![n] = @ + 1]
    /\ Tried(p, TRUE)
    /\ UNCHANGED <<rows, todo, excuses, faults, deaths>>

SendFault(n) == IF n \in Poison THEN faults' = faults ELSE faults < MaxFaults /\ faults' = faults + 1

Refused(p) ==
  \E n \in Notice :
    /\ flush[p] = "send" /\ First(p, n) /\ SendFault(n)
    /\ Tried(p, FALSE)
    /\ UNCHANGED <<rows, todo, arrived, excuses, deaths>>

\* The 90 seconds pass after the message has left.
DeliveredLate(p) ==
  \E n \in Notice \ Poison :
    /\ flush[p] = "send" /\ First(p, n) /\ SendFault(n)
    /\ arrived' = [arrived EXCEPT ![n] = @ + 1] /\ excuses' = [excuses EXCEPT ![n] = @ + 1]
    /\ Tried(p, FALSE)
    /\ UNCHANGED <<rows, todo, deaths>>

\* On to the next row.
Advance(p, n) ==
  /\ todo' = [todo EXCEPT ![p] = @ \ {n}]
  /\ flush' = [flush EXCEPT ![p] = IF todo'[p] = {} THEN "idle" ELSE "send"]
  /\ tries' = [tries EXCEPT ![p] = 0]

MarkSent(p) ==
  \E n \in Notice :
    /\ flush[p] = "sent" /\ First(p, n) /\ Advance(p, n)
    /\ sent' = sent \union {n} /\ attempts' = [attempts EXCEPT ![n] = @ + 1]
    /\ UNCHANGED <<id, arrived, excuses, faults, deaths>>

\* Mutant of MarkFailed: each send counts as an attempt.
MarkFailedPerSend(p) ==
  \E n \in Notice :
    /\ flush[p] = "failed" /\ First(p, n) /\ Advance(p, n)
    /\ attempts' = [attempts EXCEPT ![n] = @ + tries[p]]
    /\ UNCHANGED <<id, sent, arrived, excuses, faults, deaths>>

\* Mutant of MarkFailed: the row is closed all the same.
MarkFailedAsSent(p) ==
  \E n \in Notice :
    /\ flush[p] = "failed" /\ First(p, n) /\ Advance(p, n)
    /\ sent' = sent \union {n} /\ attempts' = [attempts EXCEPT ![n] = @ + 1]
    /\ UNCHANGED <<id, arrived, excuses, faults, deaths>>

MarkFailed(p) ==
  \E n \in Notice :
    /\ flush[p] = "failed" /\ First(p, n) /\ Advance(p, n)
    /\ attempts' = [attempts EXCEPT ![n] = @ + 1]
    /\ UNCHANGED <<id, sent, arrived, excuses, faults, deaths>>

\* Between a send and its mark nobody knows that the message left.
FlushDies(p) ==
  /\ flush[p] # "idle" /\ deaths < MaxFlushDeaths /\ deaths' = deaths + 1
  /\ excuses' = [n \in Notice |->
       IF flush[p] = "sent" /\ First(p, n) THEN excuses[n] + 1 ELSE excuses[n]]
  /\ todo' = [todo EXCEPT ![p] = {}] /\ flush' = [flush EXCEPT ![p] = "idle"]
  /\ tries' = [tries EXCEPT ![p] = 0]
  /\ UNCHANGED <<rows, arrived, faults>>

Flush(p) ==
  StartFlush(p) \/ Delivered(p) \/ Refused(p) \/ DeliveredLate(p) \/ MarkSent(p) \/ MarkFailed(p)

OutboxNext ==
  \/ \E n \in Notice : Enqueue(n)
  \/ \E p \in Flusher : Flush(p) \/ FlushDies(p)

OutboxSpec == OutboxInit /\ [][OutboxNext]_outboxVars

\* The timer ends every day in a flush, and a send has a timeout.
OutboxFairness == \A p \in Flusher : WF_outboxVars(Flush(p))

-----------------------------------------------------------------------------
(* Properties.                                                             *)
OutboxTypeOK ==
  /\ id \in [Notice -> Nat] /\ sent \subseteq Queued /\ attempts \in [Notice -> Nat]
  /\ todo \in [Flusher -> SUBSET Notice]
  /\ flush \in [Flusher -> {"idle", "send", "sent", "failed"}]
  /\ tries \in [Flusher -> 0 .. Retries]
  /\ arrived \in [Notice -> Nat] /\ excuses \in [Notice -> Nat]
  /\ faults \in 0 .. MaxFaults /\ deaths \in 0 .. MaxFlushDeaths

\* The tray keeps what Delivery promises, whatever overlaps or dies: a row is
\* closed only after its message left, and none is lost (notify.py:5-8).
D == INSTANCE Delivery WITH
       accepted <- Queued, delivered <- {n \in Notice : arrived[n] > 0}, settled <- sent
ImplementsDelivery == D!Spec

\* A copy too many needs a reason each time: a death between send and mark, an
\* answer that came too late, or two flushes that read the same row
\* (notify.py:84-93).
CopiesAreExcused == \A n \in Notice : arrived[n] <= 1 + excuses[n]

\* Every notice that can be sent is sent in the end, however many the transport
\* refuses before it; one that cannot is given up (store.py:227).  While fewer
\* sends fail than one notice may make in all its attempts.
Settles ==
  \A n \in Notice : n \in Queued ~> n \in sent \/ (n \in Poison /\ attempts[n] >= MaxAttempts)
=============================================================================
