--------------------------- MODULE CommandRanking ---------------------------
(***************************************************************************)
(* Uses of commands, their decaying score and the order that one CLI       *)
(* process keeps of them (hermes_layer2/command_usage.py, cli_ranking.py). *)
(* Its threads record and rank at once, those of other processes record in *)
(* the same database; the wall clock may step back.                        *)
(*                                                                         *)
(* Time counts half-lives, and a score is a whole number of 1 / Unit.  A   *)
(* score halves at most MaxNow times for each use and once more to be read,*)
(* so that no half is ever rounded.  One surface.                          *)
(***************************************************************************)
EXTENDS Naturals

CONSTANTS
  Threads,     \* of every process
  Here,        \* those of the process whose cache it is
  NameSets,    \* sets of commands that a menu may ask to be ordered
  MaxNow,      \* bound: time
  MaxUses,     \* bound: uses
  MaxBack,     \* bound: steps back of the clock
  MaxLocked    \* bound: uses and queries that find the database locked

NoThread == "nobody"

ASSUME RankingAssumption ==
  /\ NoThread \notin Threads /\ Here \subseteq Threads
  /\ {MaxNow, MaxUses, MaxBack, MaxLocked} \subseteq Nat
  /\ \A names \in NameSets : names \subseteq Nat

VARIABLES
  now, backs,
  row,         \* stored use of each command: count, score, when
  writer,      \* thread in an IMMEDIATE transaction, or NoThread
  doing,       \* where each thread is
  mine,        \* its command or names, timestamp and what it read
  cache,       \* the cached order, what it is of, and whether it is good
  recorded,    \* uses recorded
  uses,        \* history: uses recorded of each command
  earned,      \* history: sum of 2^timestamp over them
  raced,       \* history: a use that the cached order overlooks, recorded while it was
               \* computed, or since then by another process
  blind,       \* history: the cached order was computed of rows that could not be read
  locked

tally == <<recorded, uses, earned>>
rankingVars == <<now, backs, row, writer, doing, mine, cache, tally, raced, blind, locked>>

Commands == UNION NameSets
Times == 0 .. MaxNow
Pow[n \in Nat] == IF n = 0 THEN 1 ELSE 2 * Pow[n - 1]
Unit == Pow[MaxNow * (MaxUses + 1)]

Unused == [count |-> 0, score |-> 0, last |-> 0]
NothingOfMine == [cmd |-> 0, ts |-> 0, names |-> {}, seen |-> 0, old |-> Unused,
                  order |-> {}, blind |-> FALSE]
NoOrder == [order |-> {}, of |-> {}, dirty |-> TRUE]

RankingInit ==
  /\ now = 0 /\ backs = 0
  /\ row = [c \in Commands |-> Unused] /\ writer = NoThread
  /\ doing = [t \in Threads |-> "idle"] /\ mine = [t \in Threads |-> NothingOfMine]
  /\ cache = NoOrder
  /\ recorded = 0 /\ uses = [c \in Commands |-> 0] /\ earned = [c \in Commands |-> 0]
  /\ raced = FALSE /\ blind = FALSE /\ locked = 0

-----------------------------------------------------------------------------
(* The clock.                                                              *)
Tick ==
  /\ now < MaxNow /\ now' = now + 1
  /\ UNCHANGED <<backs, row, writer, doing, mine, cache, tally, raced, blind, locked>>

StepsBack ==
  /\ backs < MaxBack /\ now > 0 /\ now' = now - 1 /\ backs' = backs + 1
  /\ UNCHANGED <<row, writer, doing, mine, cache, tally, raced, blind, locked>>

Decayed(score, from, to) == IF to > from THEN score \div Pow[to - from] ELSE score

Effective(use, when) == Decayed(use.score, use.last, when)

-----------------------------------------------------------------------------
(* record_use.                                                             *)
Does(t, from, to) == doing[t] = from /\ doing' = [doing EXCEPT ![t] = to]

\* The time is read before the transaction begins.
Use(t) ==
  /\ Does(t, "idle", "begin") /\ recorded < MaxUses
  /\ \E c \in Commands : mine' = [mine EXCEPT ![t] = [NothingOfMine EXCEPT !.cmd = c, !.ts = now]]
  /\ UNCHANGED <<now, backs, row, writer, cache, tally, raced, blind, locked>>

\* Mutant of BeginUse: a deferred transaction, which takes no lock to read.
BeginUseDeferred(t) ==
  /\ recorded < MaxUses
  /\ Does(t, "begin", "write")
  /\ mine' = [mine EXCEPT ![t].old = row[mine[t].cmd]]
  /\ UNCHANGED <<now, backs, row, writer, cache, tally, raced, blind, locked>>

BeginUse(t) ==
  /\ writer = NoThread /\ writer' = t /\ recorded < MaxUses
  /\ Does(t, "begin", "write")
  /\ mine' = [mine EXCEPT ![t].old = row[mine[t].cmd]]
  /\ UNCHANGED <<now, backs, row, cache, tally, raced, blind, locked>>

CommitUse(t) ==
  LET me == mine[t] IN
  /\ Does(t, "write", "invalidate") /\ writer' = NoThread
  /\ row' = [row EXCEPT ![me.cmd] = [count |-> me.old.count + 1,
                                     score |-> Decayed(me.old.score, me.old.last, me.ts) + Unit,
                                     last |-> me.ts]]
  /\ recorded' = recorded + 1
  /\ uses' = [uses EXCEPT ![me.cmd] = @ + 1] /\ earned' = [earned EXCEPT ![me.cmd] = @ + Pow[me.ts]]
  /\ raced' = (raced \/ (t \notin Here /\ ~cache.dirty))
  /\ UNCHANGED <<now, backs, mine, cache, blind, locked>>

\* Fail-open: the use is not recorded, and the cache stays.
UseIsLost(t) ==
  /\ locked < MaxLocked /\ locked' = locked + 1
  /\ doing[t] \in {"begin", "write"} /\ doing' = [doing EXCEPT ![t] = "idle"]
  /\ mine' = [mine EXCEPT ![t] = NothingOfMine]
  /\ writer' = IF writer = t THEN NoThread ELSE writer
  /\ UNCHANGED <<now, backs, row, cache, tally, raced, blind>>

\* Mutant of Invalidate: the use leaves the cache as it is.
InvalidateNothing(t) ==
  /\ Does(t, "invalidate", "idle") /\ mine' = [mine EXCEPT ![t] = NothingOfMine]
  /\ UNCHANGED <<now, backs, row, writer, cache, tally, raced, blind, locked>>

Invalidate(t) ==
  /\ Does(t, "invalidate", "idle") /\ mine' = [mine EXCEPT ![t] = NothingOfMine]
  /\ cache' = [cache EXCEPT !.dirty = @ \/ t \in Here]
  /\ raced' = (raced /\ ~cache'.dirty) /\ blind' = (blind /\ ~cache'.dirty)
  /\ UNCHANGED <<now, backs, row, writer, tally, locked>>

-----------------------------------------------------------------------------
(* ranked.                                                                 *)

\* rank_commands, as the set of pairs in which it puts them: by score, then by
\* last use, then as they were given.
Before(rows, c, d, when) ==
  LET cs == Effective(rows[c], when)  ds == Effective(rows[d], when) IN
  \/ cs > ds
  \/ cs = ds /\ (rows[c].last > rows[d].last \/ (rows[c].last = rows[d].last /\ c < d))
Order(rows, names, when) == {pair \in names \X names : Before(rows, pair[1], pair[2], when)}

\* _stored_rows when sqlite cannot read them.
NoRows == [c \in Commands |-> Unused]

Hit(names) == ~cache.dirty /\ cache.of = names

\* The cache does not answer, and the time is read ...
Ask(t) ==
  \E names \in NameSets :
    /\ t \in Here /\ ~Hit(names) /\ Does(t, "idle", "query")
    /\ mine' = [mine EXCEPT ![t] = [NothingOfMine EXCEPT !.names = names, !.ts = now,
                                                         !.seen = recorded]]
    /\ UNCHANGED <<now, backs, row, writer, cache, tally, raced, blind, locked>>

\* ... then the rows, without the lock; a database that cannot be read has none ...
Query(t) ==
  /\ Does(t, "query", "store")
  /\ \/ /\ mine' = [mine EXCEPT ![t].order = Order(row, mine[t].names, mine[t].ts)]
        /\ UNCHANGED locked
     \/ /\ mine' = [mine EXCEPT ![t].order = Order(NoRows, mine[t].names, mine[t].ts), ![t].blind = TRUE]
        /\ locked < MaxLocked /\ locked' = locked + 1
  /\ UNCHANGED <<now, backs, row, writer, cache, tally, raced, blind>>

\* ... or it fails, or there is no database: the names as they were given, not cached ...
QueryFails(t) ==
  /\ Does(t, "query", "idle") /\ mine' = [mine EXCEPT ![t] = NothingOfMine]
  /\ UNCHANGED <<now, backs, row, writer, cache, tally, raced, blind, locked>>

\* ... and their order is stored, and called good.
StoreOrder(t) ==
  /\ Does(t, "store", "idle") /\ mine' = [mine EXCEPT ![t] = NothingOfMine]
  /\ cache' = [order |-> mine[t].order, of |-> mine[t].names, dirty |-> FALSE]
  /\ raced' = (mine[t].seen # recorded) /\ blind' = mine[t].blind
  /\ UNCHANGED <<now, backs, row, writer, tally, locked>>

RankingNext ==
  \/ Tick \/ StepsBack
  \/ \E t \in Threads : \/ Use(t) \/ BeginUse(t) \/ CommitUse(t) \/ UseIsLost(t) \/ Invalidate(t)
                        \/ Ask(t) \/ Query(t) \/ QueryFails(t) \/ StoreOrder(t)

RankingSpec == RankingInit /\ [][RankingNext]_rankingVars

-----------------------------------------------------------------------------
(* Properties.                                                             *)
Doings == {"idle", "begin", "write", "invalidate", "query", "store"}
Rows   == [count: Nat, score: Nat, last: Times]
Mine   == [cmd: Commands \union {0}, ts: Times, names: SUBSET Commands, seen: Nat, old: Rows,
           order: SUBSET (Commands \X Commands), blind: BOOLEAN]

RankingTypeOK ==
  /\ now \in Times /\ backs \in 0 .. MaxBack
  /\ row \in [Commands -> Rows]
  /\ writer \in Threads \union {NoThread}
  /\ doing \in [Threads -> Doings] /\ mine \in [Threads -> Mine]
  /\ cache \in [order: SUBSET (Commands \X Commands), of: SUBSET Commands, dirty: BOOLEAN]
  /\ recorded \in 0 .. MaxUses /\ uses \in [Commands -> Nat] /\ earned \in [Commands -> Nat]
  /\ raced \in BOOLEAN /\ blind \in BOOLEAN /\ locked \in 0 .. MaxLocked

\* Uses at once are all counted (command_usage.py:112-114).
NoUseIsLost == \A c \in Commands : row[c].count = uses[c]

\* A score, at whatever time it is read, is no more than one point a use, nor more
\* than its uses decayed from their times, however the clock steps back and in
\* whatever order the threads commit (command_usage.py:91-100).
ScoreIsEarned ==
  \A c \in Commands : /\ Effective(row[c], now) <= uses[c] * Unit
                      /\ row[c].score * Pow[row[c].last] <= earned[c] * Unit

\* Every use counts once and for no more than it is worth.
UsesAreCounted == NoUseIsLost /\ ScoreIsEarned

\* A cached order that is called good is the one that a query would give now, however
\* long ago it was made, for all scores decay alike.  It overlooks a use recorded while
\* it was computed, or since by another process, and a clock that stepped back.  If the
\* rows could not be read, it is the order without any use, until the next one is
\* recorded here (cli_ranking.py:3-5, 60-105, command_usage.py:165-171).
CacheIsCurrent ==
  \/ cache.dirty \/ raced \/ backs # 0
  \/ \E t \in Here : doing[t] = "invalidate"
  \/ cache.order = Order(IF blind THEN NoRows ELSE row, cache.of, now)
=============================================================================
