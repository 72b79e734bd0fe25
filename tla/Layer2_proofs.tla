---------------------------- MODULE Layer2_proofs ---------------------------
(***************************************************************************)
(* Proofs about the parts of layer 2, for any number of processes, builds, *)
(* versions, threads, commands and menus.                                  *)
(***************************************************************************)
EXTENDS MCLayer2, WellFoundedInduction, TLAPS

-----------------------------------------------------------------------------
(* SchemaMigration.                                                        *)

\* What is at hand of the steps that the tables have been through: all up to the
\* version, and all up to where each call is.
SchemaInv ==
  /\ version \in Nat /\ at \in [Clients -> Nat] /\ got \in [Clients -> Nat]
  /\ call \in [Clients -> {"none", "read", "step", "done", "failed"}]
  /\ VersionIsBacked
  /\ \A p \in Clients : call[p] = "step" => 1 .. at[p] \subseteq applied
  /\ ReadyMeansMigrated

LEMMA SchemaInvInit == SchemaInit => SchemaInv
<1> SUFFICES ASSUME SchemaInit PROVE SchemaInv
  OBVIOUS
<1>1. 1 .. version \subseteq applied
  BY DEF SchemaInit
<1> QED
  BY <1>1 DEF SchemaInit, SchemaInv, VersionIsBacked, ReadyMeansMigrated

LEMMA SchemaInvNext == SchemaInv /\ [SchemaNext]_schemaVars => SchemaInv'
<1> SUFFICES ASSUME SchemaInv, [SchemaNext]_schemaVars PROVE SchemaInv'
  OBVIOUS
<1> USE SchemaAssumption DEF SchemaInv, VersionIsBacked, ReadyMeansMigrated
<1>1. ASSUME NEW p \in Clients, EnsureRegistry(p) PROVE SchemaInv'
  BY <1>1 DEF EnsureRegistry
<1>2. ASSUME NEW p \in Clients, ReadVersion(p) PROVE SchemaInv'
  <2>1. PICK v \in Installed :
          /\ call' = [call EXCEPT ![p] = IF v >= Target[p] THEN "done" ELSE "step"]
          /\ at' = [at EXCEPT ![p] = v]
          /\ got' = IF v >= Target[p] THEN [got EXCEPT ![p] = v] ELSE got
    BY <1>2 DEF ReadVersion, CallGoes
  <2>2. version' = version /\ applied' = applied /\ call[p] = "read"
    BY <1>2 DEF ReadVersion, CallGoes
  <2>3. v \in Nat /\ 1 .. v \subseteq applied /\ (v >= Target[p] => 1 .. Target[p] \subseteq applied)
    BY DEF Installed
  <2>4. /\ at' \in [Clients -> Nat] /\ got' \in [Clients -> Nat]
        /\ call' \in [Clients -> {"none", "read", "step", "done", "failed"}]
    BY <2>1, <2>3
  <2>5. \A q \in Clients : call'[q] = "step" => 1 .. at'[q] \subseteq applied
    BY <2>1, <2>3
  <2>6. \A q \in Clients : call'[q] = "done" => (1 .. Target[q]) \union (1 .. got'[q]) \subseteq applied
    BY <2>1, <2>3
  <2> QED
    BY <2>2, <2>4, <2>5, <2>6
<1>3. ASSUME NEW p \in Clients, Step(p) PROVE SchemaInv'
  <2>1. /\ at' = [at EXCEPT ![p] = at[p] + 1] /\ version' = at[p] + 1
        /\ applied' = applied \union {at[p] + 1} /\ call' = call /\ call[p] = "step" /\ got' = got
    BY <1>3 DEF Step
  <2>2. 1 .. (at[p] + 1) \subseteq applied'
    BY <2>1
  <2>3. at' \in [Clients -> Nat] /\ version' \in Nat /\ 1 .. version' \subseteq applied'
    BY <2>1, <2>2
  <2>4. \A q \in Clients : call'[q] = "step" => 1 .. at'[q] \subseteq applied'
    BY <2>1, <2>2
  <2>5. \A q \in Clients : call'[q] = "done" => (1 .. Target[q]) \union (1 .. got'[q]) \subseteq applied'
    BY <2>1
  <2> QED
    BY <2>1, <2>3, <2>4, <2>5
<1>4. ASSUME NEW p \in Clients, StepFails(p) PROVE SchemaInv'
  BY <1>4 DEF StepFails, CallGoes
<1>5. ASSUME NEW p \in Clients, ReturnVersion(p) PROVE SchemaInv'
  <2>1. /\ version' = version /\ applied' = applied /\ at' = at
        /\ call[p] = "step" /\ call' = [call EXCEPT ![p] = "done"]
    BY <1>5 DEF ReturnVersion, CallGoes
  <2>2. 1 .. Target[p] \subseteq applied
    BY <1>5, <2>1 DEF ReturnVersion, More
  <2>3. PICK v \in Installed : got' = [got EXCEPT ![p] = v]
    BY <1>5 DEF ReturnVersion
  <2>4. v \in Nat /\ 1 .. v \subseteq applied
    BY DEF Installed
  <2>5. \A q \in Clients : call'[q] = "done" => (1 .. Target[q]) \union (1 .. got'[q]) \subseteq applied
    BY <2>1, <2>2, <2>3, <2>4
  <2>6. /\ got' \in [Clients -> Nat] /\ \A q \in Clients : call'[q] = "step" => call[q] = "step"
        /\ call' \in [Clients -> {"none", "read", "step", "done", "failed"}]
    BY <2>1, <2>3, <2>4
  <2> QED
    BY <2>1, <2>5, <2>6
<1>6. CASE UNCHANGED schemaVars
  BY <1>6 DEF schemaVars
<1> QED
  BY <1>1, <1>2, <1>3, <1>4, <1>5, <1>6 DEF SchemaNext

\* However many processes of whatever builds migrate a component at once, and
\* whatever fails, a version that the registry states or a call returned stands for
\* steps that the tables have been through (state_schema.py, migrate_component).
THEOREM VersionsAreBacked == SchemaSpec => []SchemaIsBacked
<1>1. SchemaInv => SchemaIsBacked
  BY DEF SchemaInv, SchemaIsBacked
<1> QED
  BY <1>1, SchemaInvInit, SchemaInvNext, PTL DEF SchemaSpec

-----------------------------------------------------------------------------
(* Powers of two.                                                          *)

\* Induction over a set of natural numbers.
LEMMA SetInduction ==
  ASSUME NEW S, 0 \in S, \A n \in Nat : n \in S => n + 1 \in S
  PROVE  Nat \subseteq S
<1> SUFFICES ASSUME Nat \ S # {} PROVE FALSE
  OBVIOUS
<1>1. PICK m \in Nat \ S : \A k \in Nat \ S : ~(<<k, m>> \in OpToRel(<, Nat))
  BY WFMin, NatLessThanWellFounded
<1>2. m \in Nat /\ m \notin S
  OBVIOUS
<1>3. m # 0
  BY <1>2
<1>4. m - 1 \in Nat /\ m - 1 < m /\ (m - 1) + 1 = m
  BY <1>2, <1>3
<1>5. m - 1 \in S
  BY <1>1, <1>2, <1>4 DEF OpToRel
<1> QED
  BY <1>2, <1>4, <1>5

\* The first n + 1 powers.
IsPowers(g, n) == g \in [0 .. n -> Nat] /\ g[0] = 1 /\ \A i \in 1 .. n : g[i] = 2 * g[i - 1]

LEMMA PowersExist == \A n \in Nat : \E g : IsPowers(g, n)
<1> DEFINE S == {n \in Nat : \E g : IsPowers(g, n)}
<1>1. 0 \in S
  <2>1. IsPowers([i \in 0 .. 0 |-> 1], 0)
    BY DEF IsPowers
  <2> QED
    BY <2>1
<1>2. ASSUME NEW n \in S PROVE n + 1 \in S
  <2>1. PICK g : IsPowers(g, n)
    OBVIOUS
  <2> DEFINE h == [i \in 0 .. (n + 1) |-> IF i = n + 1 THEN 2 * g[n] ELSE g[i]]
  <2>2. IsPowers(h, n + 1)
    <3>1. n \in Nat
      OBVIOUS
    <3>2. g \in [0 .. n -> Nat] /\ g[0] = 1 /\ \A i \in 1 .. n : g[i] = 2 * g[i - 1]
      BY <2>1 DEF IsPowers
    <3>3. g[n] \in Nat /\ 2 * g[n] \in Nat
      BY <3>1, <3>2
    <3>4. \A i \in 0 .. (n + 1) : i = n + 1 \/ i \in 0 .. n
      BY <3>1
    <3>5. h \in [0 .. (n + 1) -> Nat]
      BY <3>2, <3>3, <3>4
    <3>6. h[n + 1] = 2 * g[n] /\ \A i \in 0 .. n : h[i] = g[i]
      BY <3>1
    <3>7. h[0] = 1
      BY <3>1, <3>2, <3>6
    <3> HIDE DEF h
    <3>8. \A i \in 1 .. (n + 1) : h[i] = 2 * h[i - 1]
      <4> SUFFICES ASSUME NEW i \in 1 .. (n + 1) PROVE h[i] = 2 * h[i - 1]
        OBVIOUS
      <4>1. CASE i = n + 1
        <5>1. i - 1 = n /\ n \in 0 .. n
          BY <3>1, <4>1
        <5> QED
          BY <3>6, <4>1, <5>1
      <4>2. CASE i # n + 1
        <5>1. i \in 1 .. n /\ i \in 0 .. n /\ i - 1 \in 0 .. n
          BY <3>1, <4>2
        <5> QED
          BY <3>2, <3>6, <5>1
      <4> QED
        BY <4>1, <4>2
    <3> QED
      BY <3>5, <3>7, <3>8 DEF IsPowers
  <2> QED
    BY <2>2
<1>3. Nat \subseteq S
  <2> HIDE DEF S
  <2> QED
    BY <1>1, <1>2, SetInduction
<1> QED
  BY <1>3

LEMMA PowersAgree ==
  ASSUME NEW n \in Nat, NEW m \in Nat, n <= m, NEW g, NEW h, IsPowers(g, n), IsPowers(h, m)
  PROVE  \A i \in 0 .. n : g[i] = h[i]
<1> DEFINE S == {i \in Nat : i <= n => g[i] = h[i]}
<1>1. 0 \in S
  BY DEF IsPowers
<1>2. ASSUME NEW i \in Nat, i \in S PROVE i + 1 \in S
  BY <1>2 DEF IsPowers
<1>3. Nat \subseteq S
  <2> HIDE DEF S
  <2> QED
    BY <1>1, <1>2, SetInduction
<1> QED
  BY <1>3

LEMMA PowIsDefined == Pow = [n \in Nat |-> IF n = 0 THEN 1 ELSE 2 * Pow[n - 1]]
<1> DEFINE G(n) == CHOOSE g : IsPowers(g, n)
           f == [n \in Nat |-> G(n)[n]]
<1>1. \A n \in Nat : IsPowers(G(n), n)
  BY PowersExist
<1> HIDE DEF G
<1>2. ASSUME NEW n \in Nat, n # 0 PROVE f[n] = 2 * f[n - 1]
  <2>1. n - 1 \in Nat /\ n - 1 <= n
    BY <1>2
  <2>2. IsPowers(G(n), n) /\ IsPowers(G(n - 1), n - 1)
    BY <1>1, <2>1
  <2>3. G(n - 1)[n - 1] = G(n)[n - 1]
    BY <2>1, <2>2, PowersAgree
  <2>4. G(n)[n] = 2 * G(n)[n - 1]
    BY <1>2, <2>2 DEF IsPowers
  <2> QED
    BY <2>1, <2>3, <2>4
<1>3. f[0] = 1
  BY <1>1 DEF IsPowers
<1>4. f = [n \in Nat |-> IF n = 0 THEN 1 ELSE 2 * f[n - 1]]
  BY <1>2, <1>3
<1> HIDE DEF f
<1> QED
  BY <1>4 DEF Pow

LEMMA PowSteps == Pow[0] = 1 /\ \A n \in Nat : Pow[n + 1] = 2 * Pow[n]
  BY PowIsDefined

LEMMA PowType == \A n \in Nat : Pow[n] \in Nat \ {0}
<1> DEFINE S == {n \in Nat : Pow[n] \in Nat \ {0}}
<1>1. 0 \in S
  BY PowSteps
<1>2. ASSUME NEW n \in Nat, n \in S PROVE n + 1 \in S
  BY <1>2, PowSteps
<1>3. Nat \subseteq S
  <2> HIDE DEF S
  <2> QED
    BY <1>1, <1>2, SetInduction
<1> QED
  BY <1>3

LEMMA PowSum == \A n, k \in Nat : Pow[n + k] = Pow[n] * Pow[k]
<1> SUFFICES ASSUME NEW n \in Nat PROVE \A k \in Nat : Pow[n + k] = Pow[n] * Pow[k]
  OBVIOUS
<1> DEFINE S == {k \in Nat : Pow[n + k] = Pow[n] * Pow[k]}
<1>1. 0 \in S
  BY PowSteps, PowType
<1>2. ASSUME NEW k \in Nat, k \in S PROVE k + 1 \in S
  <2>1. Pow[n + (k + 1)] = 2 * Pow[n + k] /\ Pow[k + 1] = 2 * Pow[k]
    <3>1. n + k \in Nat /\ n + (k + 1) = (n + k) + 1
      OBVIOUS
    <3> QED
      BY <3>1, PowSteps
  <2>2. Pow[n + k] = Pow[n] * Pow[k]
    BY <1>2
  <2>3. Pow[n] \in Nat /\ Pow[k] \in Nat
    BY PowType
  <2>4. 2 * (Pow[n] * Pow[k]) = Pow[n] * (2 * Pow[k])
    BY <2>3
  <2> QED
    BY <2>1, <2>2, <2>4
<1>3. Nat \subseteq S
  <2> HIDE DEF S
  <2> QED
    BY <1>1, <1>2, SetInduction
<1> QED
  BY <1>3
-----------------------------------------------------------------------------
(* Halving.                                                                *)

\* A smaller exponent gives a smaller power.
LEMMA PowMono == \A n, m \in Nat : n <= m => Pow[n] <= Pow[m]
<1> SUFFICES ASSUME NEW n \in Nat, NEW m \in Nat, n <= m PROVE Pow[n] <= Pow[m]
  OBVIOUS
<1>1. m - n \in Nat /\ m = n + (m - n)
  OBVIOUS
<1>2. Pow[m] = Pow[n] * Pow[m - n]
  BY <1>1, PowSum
<1>3. Pow[n] \in Nat \ {0} /\ Pow[m - n] \in Nat \ {0}
  BY <1>1, PowType
<1>4. \A a, b \in Nat \ {0} : a <= a * b
  OBVIOUS
<1> QED
  BY <1>2, <1>3, <1>4

\* Division of natural numbers rounds down.
LEMMA DivFacts ==
  ASSUME NEW a \in Nat, NEW p \in Nat \ {0}
  PROVE  a \div p \in Nat /\ (a \div p) * p <= a /\ a \div p <= a
<1>1. a \div p \in Int /\ (a \div p) * p <= a /\ a < (a \div p) * p + p
  OBVIOUS
<1>2. a \div p >= 0
  BY <1>1
<1>3. a \div p <= a
  BY <1>1, <1>2
<1> QED
  BY <1>1, <1>2, <1>3

LEMMA DivExact ==
  ASSUME NEW k \in Nat, NEW p \in Nat \ {0}
  PROVE  (k * p) \div p = k
  OBVIOUS

LEMMA TimesAssociates ==
  ASSUME NEW a \in Nat, NEW b \in Nat, NEW c \in Nat
  PROVE  a * (b * c) = (a * b) * c /\ a * b = b * a /\ (a + b) * c = a * c + b * c
  OBVIOUS

LEMMA TimesKeepsOrder ==
  ASSUME NEW a \in Nat, NEW b \in Nat, NEW p \in Nat \ {0}
  PROVE  /\ a > b <=> a * p > b * p
         /\ a = b <=> a * p = b * p
         /\ a <= b <=> a * p <= b * p
  OBVIOUS

\* A decay never adds to a score, nor to what it is worth at the time it counts from.
LEMMA DecayBounds ==
  ASSUME NEW score \in Nat, NEW from \in Nat, NEW to \in Nat
  PROVE  /\ Decayed(score, from, to) \in Nat
         /\ Decayed(score, from, to) <= score
         /\ Decayed(score, from, to) * Pow[to] <= score * Pow[from]
<1>0. Pow[from] \in Nat \ {0} /\ Pow[to] \in Nat \ {0}
  BY PowType
<1>1. CASE ~(to > from)
  <2>1. Pow[to] <= Pow[from]
    BY <1>1, PowMono
  <2>2. Pow[to] * score <= Pow[from] * score
    BY <1>0, <2>1, TimesKeepsOrder
  <2> QED
    BY <1>0, <1>1, <2>2, TimesAssociates DEF Decayed
<1>2. CASE to > from
  <2> DEFINE p == Pow[to - from]
             q == score \div p
  <2>1. to - from \in Nat /\ to = from + (to - from)
    BY <1>2
  <2>2. p \in Nat \ {0} /\ Pow[to] = Pow[from] * p
    BY <2>1, PowType, PowSum
  <2> HIDE DEF p
  <2>3. q \in Nat /\ q * p <= score /\ q <= score
    BY <2>2, DivFacts
  <2>4. Decayed(score, from, to) = q
    BY <1>2 DEF Decayed, p
  <2> HIDE DEF q
  <2>5. (q * p) * Pow[from] <= score * Pow[from]
    <3>1. q * p \in Nat
      BY <2>2, <2>3
    <3> QED
      BY <1>0, <2>3, <3>1, TimesKeepsOrder
  <2>6. q * (Pow[from] * p) = (q * p) * Pow[from]
    <3>1. Pow[from] * p = p * Pow[from]
      BY <1>0, <2>2, TimesAssociates
    <3> QED
      BY <1>0, <2>2, <2>3, <3>1, TimesAssociates
  <2> QED
    BY <2>2, <2>3, <2>4, <2>5, <2>6
<1> QED
  BY <1>1, <1>2

\* A score that is a multiple of a large enough power of two halves without rest.
LEMMA DecayIsExact ==
  ASSUME NEW k \in Nat, NEW a \in Nat
  PROVE  \A from, to \in Nat : to - from <= a =>
           /\ to > from => /\ a - (to - from) \in Nat
                           /\ Decayed(k * Pow[a], from, to) = k * Pow[a - (to - from)]
           /\ ~(to > from) => Decayed(k * Pow[a], from, to) = k * Pow[a]
           /\ from <= to => Decayed(k * Pow[a], from, to) * Pow[to] = (k * Pow[a]) * Pow[from]
<1> SUFFICES ASSUME NEW from \in Nat, NEW to \in Nat, to - from <= a
             PROVE  /\ to > from => /\ a - (to - from) \in Nat
                                    /\ Decayed(k * Pow[a], from, to) = k * Pow[a - (to - from)]
                    /\ ~(to > from) => Decayed(k * Pow[a], from, to) = k * Pow[a]
                    /\ from <= to => Decayed(k * Pow[a], from, to) * Pow[to] = (k * Pow[a]) * Pow[from]
  OBVIOUS
<1>0. Pow[a] \in Nat \ {0} /\ Pow[from] \in Nat \ {0}
  BY PowType
<1>1. CASE ~(to > from)
  <2>1. Decayed(k * Pow[a], from, to) = k * Pow[a]
    BY <1>1 DEF Decayed
  <2>2. from <= to => to = from
    BY <1>1
  <2> QED
    BY <1>1, <2>1, <2>2
<1>2. CASE to > from
  <2> DEFINE d == to - from
             r == a - d
  <2>1. d \in Nat /\ r \in Nat /\ a = r + d /\ to = from + d
    BY <1>2
  <2>2. /\ Pow[d] \in Nat \ {0} /\ Pow[r] \in Nat \ {0}
        /\ Pow[a] = Pow[r] * Pow[d] /\ Pow[to] = Pow[from] * Pow[d]
    BY <2>1, PowType, PowSum
  <2>3. Decayed(k * Pow[a], from, to) = (k * Pow[a]) \div Pow[d]
    BY <1>2 DEF Decayed
  <2> HIDE DEF d, r
  <2>4. k * Pow[r] \in Nat /\ k * Pow[a] = (k * Pow[r]) * Pow[d]
    BY <2>2, TimesAssociates
  <2>5. Decayed(k * Pow[a], from, to) = k * Pow[r]
    BY <2>2, <2>3, <2>4, DivExact
  <2>6. (k * Pow[r]) * (Pow[from] * Pow[d]) = ((k * Pow[r]) * Pow[d]) * Pow[from]
    <3>1. Pow[from] * Pow[d] = Pow[d] * Pow[from]
      BY <1>0, <2>2, TimesAssociates
    <3> QED
      BY <1>0, <2>2, <2>4, <3>1, TimesAssociates
  <2> QED
    BY <1>2, <2>1, <2>2, <2>4, <2>5, <2>6 DEF d, r
<1> QED
  BY <1>1, <1>2
-----------------------------------------------------------------------------
(* CommandRanking.                                                         *)

\* A thread that is in its transaction holds the database, and what it read of the
\* row is still there.
WriterInv ==
  /\ \A t \in Threads : doing[t] \in {"begin", "write"} => mine[t].cmd \in Commands
  /\ \A t \in Threads : doing[t] = "write"
       => writer = t /\ mine[t].old = row[mine[t].cmd] /\ recorded < MaxUses
  /\ \A c \in Commands : uses[c] <= recorded

\* What a score is a multiple of after so many uses.
Grain(n) == MaxNow * ((MaxUses + 1) - n)

\* A score is earned, and coarse enough to be halved for all uses to come.
ScoreInv ==
  \A c \in Commands :
    /\ row[c].score <= uses[c] * Unit
    /\ row[c].score * Pow[row[c].last] <= earned[c] * Unit
    /\ \E k \in Nat : row[c].score = k * Pow[Grain(uses[c])]

UsageInv == RankingTypeOK /\ NoUseIsLost /\ WriterInv /\ ScoreInv

\* A score counted from time 0: what decides between two commands whenever they are
\* compared.
Worth(c) == row[c].score * Pow[row[c].last]
Better(c, d) ==
  \/ Worth(c) > Worth(d)
  \/ /\ Worth(c) = Worth(d)
     /\ row[c].last > row[d].last \/ (row[c].last = row[d].last /\ c < d)
TrueOrder(names) == {pair \in names \X names : Better(pair[1], pair[2])}

GivenOrder(names) == {pair \in names \X names : pair[1] < pair[2]}

\* While the clock goes on: nothing was recorded later than now, what a thread has
\* asked for is right unless something was recorded since, and so is what is cached.
TimesInv ==
  /\ \A c \in Commands : row[c].last <= now
  /\ \A t \in Threads : mine[t].ts <= now
AnswerInv(t) ==
  /\ doing[t] \in {"query", "store"} => mine[t].seen <= recorded
  /\ doing[t] = "query" /\ mine[t].seen = recorded => \A c \in Commands : row[c].last <= mine[t].ts
  /\ doing[t] = "query" => ~mine[t].blind
  /\ doing[t] = "store" /\ mine[t].blind => mine[t].order = GivenOrder(mine[t].names)
  /\ doing[t] = "store" /\ mine[t].seen = recorded /\ ~mine[t].blind =>
       mine[t].order = TrueOrder(mine[t].names)
AnswersInv == \A t \in Threads : AnswerInv(t)
CacheInv ==
  \/ cache.dirty \/ raced
  \/ \E t \in Here : doing[t] = "invalidate"
  \/ cache.order = IF blind THEN GivenOrder(cache.of) ELSE TrueOrder(cache.of)
OrderInv == backs # 0 \/ (TimesInv /\ AnswersInv /\ CacheInv)

\* The first types.
LEMMA RankingTypes ==
  /\ Unused \in Rows /\ NothingOfMine \in Mine
  /\ NoOrder \in [order: SUBSET (Commands \X Commands), of: SUBSET Commands, dirty: BOOLEAN]
  /\ NothingOfMine.cmd = 0 /\ NothingOfMine.ts = 0
<1>1. Unused \in Rows
  BY RankingAssumption DEF Unused, Rows, Times
<1>2. 0 \in Times
  BY RankingAssumption DEF Times
<1> QED
  BY <1>1, <1>2 DEF NothingOfMine, Mine, NoOrder

LEMMA UnitType == Unit \in Nat \ {0}
<1>1. MaxNow * (MaxUses + 1) \in Nat
  BY RankingAssumption
<1> QED
  BY <1>1, PowType DEF Unit

LEMMA UsageInvInit == RankingInit => UsageInv
<1> SUFFICES ASSUME RankingInit PROVE UsageInv
  OBVIOUS
<1> USE RankingAssumption DEF RankingInit
<1>1. RankingTypeOK
  <2>1. now \in Times /\ backs \in 0 .. MaxBack /\ locked \in 0 .. MaxLocked /\ recorded \in 0 .. MaxUses
    BY DEF Times
  <2>2. row \in [Commands -> Rows] /\ mine \in [Threads -> Mine]
    BY RankingTypes
  <2>3. doing \in [Threads -> Doings]
    BY DEF Doings
  <2> QED
    BY <2>1, <2>2, <2>3, RankingTypes DEF RankingTypeOK
<1>2. NoUseIsLost /\ WriterInv
  BY DEF NoUseIsLost, WriterInv, Unused
<1>3. ScoreInv
  <2> SUFFICES ASSUME NEW c \in Commands
               PROVE  /\ row[c].score <= uses[c] * Unit
                      /\ row[c].score * Pow[row[c].last] <= earned[c] * Unit
                      /\ \E k \in Nat : row[c].score = k * Pow[Grain(uses[c])]
    BY DEF ScoreInv
  <2>1. row[c].score = 0 /\ row[c].last = 0 /\ uses[c] = 0 /\ earned[c] = 0
    BY DEF Unused
  <2>2. Pow[0] \in Nat /\ Unit \in Nat
    BY PowType, UnitType
  <2>3. Pow[Grain(0)] \in Nat
    BY PowType DEF Grain
  <2> QED
    BY <2>1, <2>2, <2>3
<1> QED
  BY <1>1, <1>2, <1>3 DEF UsageInv

\* Nothing of a row or its tally changes.
RowsStay == UNCHANGED <<row, tally>>
LEMMA ScoresStay == UsageInv /\ RowsStay => NoUseIsLost' /\ ScoreInv'
  BY DEF UsageInv, RowsStay, tally, NoUseIsLost, ScoreInv, Grain

\* The one step that writes a row.
LEMMA CommitScores ==
  ASSUME UsageInv, NEW t \in Threads, CommitUse(t)
  PROVE  row' \in [Commands -> Rows] /\ earned' \in [Commands -> Nat] /\ ScoreInv'
<1> USE RankingAssumption
<1> DEFINE c   == mine[t].cmd
           ts  == mine[t].ts
           was == row[c]
           u   == uses[c]
           e   == earned[c]
           s   == Decayed(was.score, was.last, ts)
<1>1. /\ c \in Commands /\ ts \in Times /\ was \in Rows /\ u \in Nat /\ e \in Nat
      /\ mine[t].old = was /\ u <= recorded /\ recorded \in Nat /\ recorded < MaxUses
  BY DEF UsageInv, RankingTypeOK, WriterInv, CommitUse, Does, Mine
<1>2. /\ was.score \in Nat /\ was.last \in Nat /\ was.last <= MaxNow
      /\ ts \in Nat /\ ts <= MaxNow /\ was.count \in Nat
  BY <1>1 DEF Rows, Times
<1>3. PICK k \in Nat : was.score = k * Pow[Grain(u)]
  BY <1>1 DEF UsageInv, ScoreInv
<1>4. /\ row' = [row EXCEPT ![c] = [count |-> was.count + 1, score |-> s + Unit, last |-> ts]]
      /\ uses' = [uses EXCEPT ![c] = u + 1] /\ earned' = [earned EXCEPT ![c] = e + Pow[ts]]
  BY <1>1 DEF CommitUse
<1>5. s \in Nat /\ s <= was.score /\ s * Pow[ts] <= was.score * Pow[was.last]
  BY <1>2, DecayBounds
<1>6. Unit \in Nat /\ Pow[ts] \in Nat \ {0} /\ Pow[was.last] \in Nat \ {0}
  BY <1>2, UnitType, PowType
<1>7. s + Unit <= (u + 1) * Unit
  <2>1. was.score <= u * Unit
    BY <1>1 DEF UsageInv, ScoreInv
  <2>2. (u + 1) * Unit = u * Unit + Unit /\ u * Unit \in Nat
    BY <1>1, <1>6
  <2> QED
    BY <1>2, <1>5, <1>6, <2>1, <2>2
<1>8. (s + Unit) * Pow[ts] <= (e + Pow[ts]) * Unit
  <2>1. was.score * Pow[was.last] <= e * Unit
    BY <1>1 DEF UsageInv, ScoreInv
  <2>2. (s + Unit) * Pow[ts] = s * Pow[ts] + Unit * Pow[ts]
    BY <1>5, <1>6, TimesAssociates
  <2>3. (e + Pow[ts]) * Unit = e * Unit + Unit * Pow[ts]
    BY <1>1, <1>6, TimesAssociates
  <2>4. /\ s * Pow[ts] \in Nat /\ Unit * Pow[ts] \in Nat /\ e * Unit \in Nat
        /\ was.score * Pow[was.last] \in Nat
    BY <1>1, <1>2, <1>5, <1>6
  <2> QED
    BY <1>5, <2>1, <2>2, <2>3, <2>4
<1>9. \E n \in Nat : s + Unit = n * Pow[Grain(u + 1)]
  <2> DEFINE a == Grain(u)
             b == Grain(u + 1)
             r == IF ts > was.last THEN a - (ts - was.last) ELSE a
  <2>1. /\ a \in Nat /\ b \in Nat /\ a = b + MaxNow
        /\ MaxNow * (MaxUses + 1) \in Nat /\ MaxNow * (MaxUses + 1) - b \in Nat
    <3>1. PICK w \in Nat : MaxUses = u + 1 + w
      <4>1. MaxUses - (u + 1) \in Nat /\ MaxUses = u + 1 + (MaxUses - (u + 1))
        BY <1>1
      <4> QED
        BY <4>1
    <3>2. (MaxUses + 1) - u = w + 2 /\ (MaxUses + 1) - (u + 1) = w + 1 /\ MaxUses + 1 = (w + 1) + (u + 1)
      BY <1>1, <3>1
    <3>3. a = MaxNow * (w + 2) /\ b = MaxNow * (w + 1)
      BY <3>2 DEF Grain
    <3>4. /\ MaxNow * (w + 2) = MaxNow * (w + 1) + MaxNow
          /\ MaxNow * ((w + 1) + (u + 1)) = MaxNow * (w + 1) + MaxNow * (u + 1)
          /\ MaxNow * (w + 1) \in Nat /\ MaxNow * (u + 1) \in Nat
      BY <1>1
    <3> QED
      BY <3>2, <3>3, <3>4
  <2> HIDE DEF a, b
  <2>2. ts - was.last <= a
    BY <1>2, <2>1
  <2>3. r \in Nat /\ s = k * Pow[r]
    <3>1. was.score = k * Pow[a]
      BY <1>3 DEF a
    <3>2. \A from, to \in Nat : to - from <= a =>
            /\ to > from => /\ a - (to - from) \in Nat
                            /\ Decayed(k * Pow[a], from, to) = k * Pow[a - (to - from)]
            /\ ~(to > from) => Decayed(k * Pow[a], from, to) = k * Pow[a]
            /\ from <= to => Decayed(k * Pow[a], from, to) * Pow[to] = (k * Pow[a]) * Pow[from]
      BY <2>1, DecayIsExact
    <3>3. s = Decayed(k * Pow[a], was.last, ts)
      BY <3>1
    <3> HIDE DEF s
    <3>4. CASE ts > was.last
      <4>1. r = a - (ts - was.last)
        BY <3>4
      <4> QED
        BY <1>2, <2>2, <3>2, <3>3, <3>4, <4>1
    <3>5. CASE ~(ts > was.last)
      <4>1. r = a
        BY <3>5
      <4> QED
        BY <1>2, <2>1, <2>2, <3>2, <3>3, <3>5, <4>1
    <3> QED
      BY <3>4, <3>5
  <2>4. r - b \in Nat /\ r = b + (r - b)
    BY <1>2, <2>1, <2>3
  <2> DEFINE n == MaxNow * (MaxUses + 1) - b
  <2>5. Unit = Pow[b] * Pow[n] /\ Pow[r] = Pow[b] * Pow[r - b]
    <3>1. n \in Nat /\ b + n = MaxNow * (MaxUses + 1)
      BY <2>1
    <3> HIDE DEF n
    <3>2. Pow[b + n] = Pow[b] * Pow[n] /\ Pow[b + (r - b)] = Pow[b] * Pow[r - b]
      BY <2>1, <2>4, <3>1, PowSum
    <3> QED
      BY <2>4, <3>1, <3>2 DEF Unit
  <2>6. Pow[b] \in Nat /\ Pow[n] \in Nat /\ Pow[r - b] \in Nat
    BY <2>1, <2>4, PowType
  <2> HIDE DEF n, r
  <2>7. k * (Pow[b] * Pow[r - b]) + Pow[b] * Pow[n] = (k * Pow[r - b] + Pow[n]) * Pow[b]
    BY <2>6, TimesAssociates
  <2>8. k * Pow[r - b] + Pow[n] \in Nat
    BY <2>6
  <2> QED
    BY <2>3, <2>5, <2>7, <2>8 DEF b
<1> HIDE DEF s
<1>10. row' \in [Commands -> Rows] /\ earned' \in [Commands -> Nat]
  <2>1. [count |-> was.count + 1, score |-> s + Unit, last |-> ts] \in Rows
    BY <1>1, <1>2, <1>5, <1>6 DEF Rows
  <2> QED
    BY <1>1, <1>4, <1>6, <2>1 DEF UsageInv, RankingTypeOK
<1>11. ScoreInv'
  <2> SUFFICES ASSUME NEW d \in Commands
               PROVE  /\ row'[d].score <= uses'[d] * Unit
                      /\ row'[d].score * Pow[row'[d].last] <= earned'[d] * Unit
                      /\ \E n \in Nat : row'[d].score = n * Pow[Grain(uses'[d])]
    BY DEF ScoreInv, Grain
  <2>1. CASE d # c
    <3>1. row'[d] = row[d] /\ uses'[d] = uses[d] /\ earned'[d] = earned[d]
      BY <1>4, <2>1 DEF UsageInv, RankingTypeOK
    <3> QED
      BY <3>1 DEF UsageInv, ScoreInv
  <2>2. CASE d = c
    <3>1. row'[d].score = s + Unit /\ row'[d].last = ts /\ uses'[d] = u + 1 /\ earned'[d] = e + Pow[ts]
      BY <1>4, <2>2 DEF UsageInv, RankingTypeOK
    <3> QED
      BY <1>7, <1>8, <1>9, <3>1
  <2> QED
    BY <2>1, <2>2
<1> QED
  BY <1>10, <1>11

LEMMA UsageInvNext == UsageInv /\ [RankingNext]_rankingVars => UsageInv'
<1> SUFFICES ASSUME UsageInv, [RankingNext]_rankingVars
             PROVE  UsageInv'
  OBVIOUS
<1> USE RankingAssumption DEF UsageInv
<1>0. RankingTypeOK
  OBVIOUS
<1>a. \A t \in Threads : /\ mine[t] \in Mine /\ doing[t] \in Doings
                         /\ mine[t].cmd \in Commands \union {0} /\ mine[t].ts \in Times
  BY <1>0 DEF RankingTypeOK, Mine
<1>b. now \in Times /\ now \in Nat /\ recorded \in Nat
  BY <1>0 DEF RankingTypeOK, Times
<1>1. ASSUME Tick \/ StepsBack PROVE UsageInv'
  <2>1. now' \in Times /\ backs' \in 0 .. MaxBack
    BY <1>0, <1>1 DEF RankingTypeOK, Tick, StepsBack, Times
  <2>2. UNCHANGED <<row, writer, doing, mine, cache, tally, raced, blind, locked>>
    BY <1>1 DEF Tick, StepsBack
  <2>3. RankingTypeOK' /\ WriterInv'
    BY <1>0, <2>1, <2>2 DEF RankingTypeOK, WriterInv, tally
  <2> QED
    BY <2>2, <2>3, ScoresStay DEF RowsStay
<1>2. ASSUME NEW t \in Threads, Use(t) PROVE UsageInv'
  <2>1. PICK c \in Commands : mine' = [mine EXCEPT ![t] = [NothingOfMine EXCEPT !.cmd = c, !.ts = now]]
    BY <1>2 DEF Use
  <2>2. [NothingOfMine EXCEPT !.cmd = c, !.ts = now] \in Mine
    BY <1>b, RankingTypes DEF NothingOfMine, Mine
  <2>3. doing' = [doing EXCEPT ![t] = "begin"]
        /\ UNCHANGED <<now, backs, row, writer, cache, tally, raced, blind, locked>>
    BY <1>2 DEF Use, Does
  <2>4. RankingTypeOK'
    BY <1>0, <2>1, <2>2, <2>3 DEF RankingTypeOK, tally, Doings
  <2>5. WriterInv'
    <3>1. mine'[t].cmd = c
      BY <1>0, <2>1 DEF RankingTypeOK, NothingOfMine
    <3> QED
      BY <1>0, <2>1, <2>3, <3>1 DEF RankingTypeOK, WriterInv, tally
  <2> QED
    BY <2>3, <2>4, <2>5, ScoresStay DEF RowsStay
<1>3. ASSUME NEW t \in Threads, BeginUse(t) PROVE UsageInv'
  <2>1. /\ mine' = [mine EXCEPT ![t].old = row[mine[t].cmd]] /\ writer' = t
        /\ doing[t] = "begin" /\ doing' = [doing EXCEPT ![t] = "write"] /\ recorded < MaxUses
        /\ UNCHANGED <<now, backs, row, cache, tally, raced, blind, locked>>
        /\ writer = NoThread
    BY <1>3 DEF BeginUse, Does
  <2>2. mine[t].cmd \in Commands
    BY <2>1 DEF WriterInv
  <2>3. [mine[t] EXCEPT !.old = row[mine[t].cmd]] \in Mine
    <3>1. row[mine[t].cmd] \in Rows
      BY <1>0, <2>2 DEF RankingTypeOK
    <3> QED
      BY <1>a, <3>1 DEF Mine
  <2>4. RankingTypeOK'
    BY <1>0, <2>1, <2>3 DEF RankingTypeOK, tally, Doings
  <2>5. WriterInv'
    <3>1. \A u \in Threads : doing[u] # "write"
      BY <2>1 DEF WriterInv
    <3>2. mine'[t].cmd = mine[t].cmd /\ mine'[t].old = row[mine[t].cmd]
      BY <1>0, <1>a, <2>1 DEF RankingTypeOK, Mine
    <3> QED
      BY <1>0, <2>1, <2>2, <3>1, <3>2 DEF RankingTypeOK, WriterInv, tally
  <2> QED
    BY <2>1, <2>4, <2>5, ScoresStay DEF RowsStay
<1>4. ASSUME NEW t \in Threads, CommitUse(t) PROVE UsageInv'
  <2> DEFINE c == mine[t].cmd
  <2>1. /\ doing[t] = "write" /\ doing' = [doing EXCEPT ![t] = "invalidate"] /\ writer' = NoThread
        /\ recorded' = recorded + 1 /\ uses' = [uses EXCEPT ![c] = @ + 1]
        /\ raced' = (raced \/ (t \notin Here /\ ~cache.dirty))
        /\ UNCHANGED <<now, backs, mine, cache, blind, locked>>
    BY <1>4 DEF CommitUse, Does
  <2>2. c \in Commands /\ writer = t /\ mine[t].old = row[c] /\ recorded < MaxUses
    BY <2>1 DEF WriterInv
  <2>3. row' \in [Commands -> Rows] /\ earned' \in [Commands -> Nat] /\ ScoreInv'
    BY <1>4, CommitScores
  <2>4. RankingTypeOK'
    <3>1. recorded' \in 0 .. MaxUses
      BY <1>0, <2>1, <2>2 DEF RankingTypeOK
    <3>2. uses' \in [Commands -> Nat]
      BY <1>0, <2>1, <2>2 DEF RankingTypeOK
    <3>3. doing' \in [Threads -> Doings] /\ writer' \in Threads \union {NoThread}
      BY <1>0, <2>1 DEF RankingTypeOK, Doings
    <3> QED
      BY <1>0, <2>1, <2>3, <3>1, <3>2, <3>3 DEF RankingTypeOK
  <2>5. WriterInv'
    <3>1. \A u \in Threads : doing'[u] # "write"
      BY <1>0, <2>1, <2>2 DEF RankingTypeOK, WriterInv
    <3>2. \A d \in Commands : uses'[d] <= recorded'
      BY <1>0, <1>b, <2>1 DEF RankingTypeOK, WriterInv
    <3> QED
      BY <1>0, <2>1, <3>1, <3>2 DEF RankingTypeOK, WriterInv
  <2>6. NoUseIsLost'
    <3>1. row' = [row EXCEPT ![c] = [row'[c] EXCEPT !.count = row[c].count + 1]]
      BY <1>0, <1>4, <2>2 DEF RankingTypeOK, CommitUse
    <3>2. row'[c].count = row[c].count + 1 /\ \A d \in Commands \ {c} : row'[d] = row[d]
      BY <1>0, <1>4, <2>2 DEF RankingTypeOK, CommitUse
    <3> QED
      BY <1>0, <2>1, <2>2, <3>2 DEF RankingTypeOK, NoUseIsLost
  <2> QED
    BY <2>3, <2>4, <2>5, <2>6
<1>5. ASSUME NEW t \in Threads, UseIsLost(t) PROVE UsageInv'
  <2>1. /\ doing[t] \in {"begin", "write"} /\ doing' = [doing EXCEPT ![t] = "idle"]
        /\ mine' = [mine EXCEPT ![t] = NothingOfMine]
        /\ writer' = IF writer = t THEN NoThread ELSE writer
        /\ locked < MaxLocked /\ locked' = locked + 1
        /\ UNCHANGED <<now, backs, row, cache, tally, raced, blind>>
    BY <1>5 DEF UseIsLost
  <2>2. RankingTypeOK'
    BY <1>0, <2>1, RankingTypes DEF RankingTypeOK, tally, Doings
  <2>3. WriterInv'
    BY <1>0, <2>1 DEF RankingTypeOK, WriterInv, tally
  <2> QED
    BY <2>1, <2>2, <2>3, ScoresStay DEF RowsStay
<1>6. ASSUME NEW t \in Threads, Invalidate(t) PROVE UsageInv'
  <2>1. /\ doing[t] = "invalidate" /\ doing' = [doing EXCEPT ![t] = "idle"]
        /\ mine' = [mine EXCEPT ![t] = NothingOfMine]
        /\ cache' = [cache EXCEPT !.dirty = @ \/ t \in Here]
        /\ raced' = (raced /\ ~cache'.dirty) /\ blind' = (blind /\ ~cache'.dirty)
        /\ UNCHANGED <<now, backs, row, writer, tally, locked>>
    BY <1>6 DEF Invalidate, Does
  <2>2. RankingTypeOK'
    BY <1>0, <2>1, RankingTypes DEF RankingTypeOK, tally, Doings
  <2>3. WriterInv'
    BY <1>0, <2>1 DEF RankingTypeOK, WriterInv, tally
  <2> QED
    BY <2>1, <2>2, <2>3, ScoresStay DEF RowsStay
<1>7. ASSUME NEW t \in Threads, Ask(t) PROVE UsageInv'
  <2>1. PICK names \in NameSets :
          mine' = [mine EXCEPT ![t] = [NothingOfMine EXCEPT !.names = names, !.ts = now,
                                                            !.seen = recorded]]
    BY <1>7 DEF Ask
  <2>2. doing[t] = "idle" /\ doing' = [doing EXCEPT ![t] = "query"]
        /\ UNCHANGED <<now, backs, row, writer, cache, tally, raced, blind, locked>>
    BY <1>7 DEF Ask, Does
  <2>3. [NothingOfMine EXCEPT !.names = names, !.ts = now, !.seen = recorded] \in Mine
    <3>1. names \subseteq Commands
      BY DEF Commands
    <3> QED
      BY <1>b, <3>1, RankingTypes DEF NothingOfMine, Mine
  <2>4. RankingTypeOK'
    BY <1>0, <2>1, <2>2, <2>3 DEF RankingTypeOK, tally, Doings
  <2>5. WriterInv'
    BY <1>0, <2>1, <2>2 DEF RankingTypeOK, WriterInv, tally
  <2> QED
    BY <2>2, <2>4, <2>5, ScoresStay DEF RowsStay
<1>8. ASSUME NEW t \in Threads, Query(t) PROVE UsageInv'
  <2>1. /\ doing[t] = "query" /\ doing' = [doing EXCEPT ![t] = "store"]
        /\ UNCHANGED <<now, backs, row, writer, cache, tally, raced, blind>>
    BY <1>8 DEF Query, Does
  <2>2. mine' \in [Threads -> Mine] /\ \A u \in Threads \ {t} : mine'[u] = mine[u]
    <3> DEFINE known == Order(row, mine[t].names, mine[t].ts)
               given == Order(NoRows, mine[t].names, mine[t].ts)
    <3>1. known \subseteq Commands \X Commands /\ given \subseteq Commands \X Commands
      BY <1>a DEF Order, Mine
    <3> HIDE DEF known, given
    <3>2. [mine[t] EXCEPT !.order = known] \in Mine
      BY <1>a, <3>1 DEF Mine
    <3>3. [mine[t] EXCEPT !.order = given, !.blind = TRUE] \in Mine
      BY <1>a, <3>1 DEF Mine
    <3>4. CASE mine' = [mine EXCEPT ![t].order = known]
      BY <1>0, <3>2, <3>4 DEF RankingTypeOK
    <3>5. CASE mine' = [mine EXCEPT ![t].order = given, ![t].blind = TRUE]
      <4>1. mine' = [mine EXCEPT ![t] = [mine[t] EXCEPT !.order = given, !.blind = TRUE]]
        BY <1>0, <3>5 DEF RankingTypeOK
      <4> QED
        BY <1>0, <3>3, <4>1 DEF RankingTypeOK
    <3> QED
      BY <1>8, <3>4, <3>5 DEF Query, known, given
  <2>4. locked' \in 0 .. MaxLocked
    BY <1>0, <1>8 DEF RankingTypeOK, Query
  <2>5. RankingTypeOK'
    BY <1>0, <2>1, <2>2, <2>4 DEF RankingTypeOK, tally, Doings
  <2>6. WriterInv'
    BY <1>0, <2>1, <2>2 DEF RankingTypeOK, WriterInv, tally
  <2> QED
    BY <2>1, <2>5, <2>6, ScoresStay DEF RowsStay
<1>11. ASSUME NEW t \in Threads, QueryFails(t) PROVE UsageInv'
  <2>1. /\ doing[t] = "query" /\ doing' = [doing EXCEPT ![t] = "idle"]
        /\ mine' = [mine EXCEPT ![t] = NothingOfMine]
        /\ UNCHANGED <<now, backs, row, writer, cache, tally, raced, blind, locked>>
    BY <1>11 DEF QueryFails, Does
  <2>2. RankingTypeOK'
    BY <1>0, <2>1, RankingTypes DEF RankingTypeOK, tally, Doings
  <2>3. WriterInv'
    BY <1>0, <2>1 DEF RankingTypeOK, WriterInv, tally
  <2> QED
    BY <2>1, <2>2, <2>3, ScoresStay DEF RowsStay
<1>9. ASSUME NEW t \in Threads, StoreOrder(t) PROVE UsageInv'
  <2>1. /\ doing[t] = "store" /\ doing' = [doing EXCEPT ![t] = "idle"]
        /\ mine' = [mine EXCEPT ![t] = NothingOfMine]
        /\ cache' = [order |-> mine[t].order, of |-> mine[t].names, dirty |-> FALSE]
        /\ raced' = (mine[t].seen # recorded) /\ blind' = mine[t].blind
        /\ UNCHANGED <<now, backs, row, writer, tally, locked>>
    BY <1>9 DEF StoreOrder, Does
  <2>2. /\ mine[t].order \subseteq Commands \X Commands /\ mine[t].names \subseteq Commands
        /\ mine[t].blind \in BOOLEAN
    BY <1>a DEF Mine
  <2>3. RankingTypeOK'
    BY <1>0, <2>1, <2>2, RankingTypes DEF RankingTypeOK, tally, Doings
  <2>4. WriterInv'
    BY <1>0, <2>1 DEF RankingTypeOK, WriterInv, tally
  <2> QED
    BY <2>1, <2>3, <2>4, ScoresStay DEF RowsStay
<1>10. ASSUME UNCHANGED rankingVars PROVE UsageInv'
  BY <1>10 DEF rankingVars, RankingTypeOK, WriterInv, NoUseIsLost, ScoreInv, Grain, tally
<1> QED
  BY <1>1, <1>2, <1>3, <1>4, <1>5, <1>6, <1>7, <1>8, <1>9, <1>10, <1>11 DEF RankingNext

\* Commands whose last use is not in the future of the time they are ranked at are in
\* their true order.
LEMMA OrderIsTrue ==
  ASSUME UsageInv, NEW names \in SUBSET Commands, NEW when \in Times,
         \A c \in names : row[c].last <= when
  PROVE  Order(row, names, when) = TrueOrder(names)
<1> USE RankingAssumption
<1>1. when \in Nat /\ when <= MaxNow /\ Pow[when] \in Nat \ {0}
  BY PowType DEF Times
<1>2. ASSUME NEW c \in names
      PROVE  /\ Effective(row[c], when) \in Nat /\ Worth(c) \in Nat
             /\ Effective(row[c], when) * Pow[when] = Worth(c)
  <2>1. /\ row[c] \in Rows /\ uses[c] \in Nat /\ uses[c] <= recorded /\ recorded \in 0 .. MaxUses
        /\ row[c].last <= when
    BY DEF UsageInv, RankingTypeOK, WriterInv
  <2>2. row[c].score \in Nat /\ row[c].last \in Nat /\ Pow[row[c].last] \in Nat
    BY <2>1, PowType DEF Rows, Times
  <2>3. PICK k \in Nat : row[c].score = k * Pow[Grain(uses[c])]
    BY DEF UsageInv, ScoreInv
  <2>4. Grain(uses[c]) \in Nat /\ when - row[c].last <= Grain(uses[c])
    <3>1. PICK w \in Nat : (MaxUses + 1) - uses[c] = w + 1
      <4>1. MaxUses - uses[c] \in Nat /\ (MaxUses + 1) - uses[c] = (MaxUses - uses[c]) + 1
        BY <2>1
      <4> QED
        BY <4>1
    <3>2. Grain(uses[c]) = MaxNow * (w + 1)
      BY <3>1 DEF Grain
    <3>3. MaxNow * (w + 1) = MaxNow * w + MaxNow /\ MaxNow * w \in Nat
      BY <3>1
    <3> QED
      BY <1>1, <2>2, <3>2, <3>3
  <2> DEFINE a == Grain(uses[c])
  <2>5. \A from, to \in Nat : from <= to /\ to - from <= a =>
          Decayed(k * Pow[a], from, to) * Pow[to] = (k * Pow[a]) * Pow[from]
    <3>1. a \in Nat
      BY <2>4
    <3> HIDE DEF a
    <3> QED
      BY <3>1, DecayIsExact
  <2>6. Decayed(k * Pow[a], row[c].last, when) * Pow[when] = (k * Pow[a]) * Pow[row[c].last]
    BY <1>1, <2>1, <2>2, <2>4, <2>5
  <2>7. Effective(row[c], when) \in Nat
    BY <1>1, <2>2, DecayBounds DEF Effective
  <2> QED
    BY <2>2, <2>3, <2>6, <2>7 DEF Effective, Worth
<1>3. ASSUME NEW c \in names, NEW d \in names
      PROVE  Before(row, c, d, when) <=> Better(c, d)
  <2>1. /\ Effective(row[c], when) > Effective(row[d], when) <=> Worth(c) > Worth(d)
        /\ Effective(row[c], when) = Effective(row[d], when) <=> Worth(c) = Worth(d)
    <3>1. \A a, b \in Nat : /\ a > b <=> a * Pow[when] > b * Pow[when]
                            /\ a = b <=> a * Pow[when] = b * Pow[when]
      BY <1>1, TimesKeepsOrder
    <3>2. /\ Effective(row[c], when) \in Nat /\ Effective(row[c], when) * Pow[when] = Worth(c)
          /\ Effective(row[d], when) \in Nat /\ Effective(row[d], when) * Pow[when] = Worth(d)
      BY <1>2
    <3> QED
      BY <3>1, <3>2
  <2> QED
    BY <2>1 DEF Before, Better
<1> QED
  BY <1>3 DEF Order, TrueOrder

\* Without rows they are in the order in which they were given.
LEMMA OrderOfNoRows ==
  ASSUME NEW names \in SUBSET Commands, NEW when \in Times
  PROVE  Order(NoRows, names, when) = GivenOrder(names)
<1>1. Effective(Unused, when) \in Nat
  BY RankingAssumption, DecayBounds DEF Effective, Unused, Times
<1>2. ASSUME NEW c \in names, NEW d \in names
      PROVE  Before(NoRows, c, d, when) <=> c < d
  <2>1. NoRows[c] = Unused /\ NoRows[d] = Unused
    BY DEF NoRows
  <2> QED
    BY <1>1, <2>1 DEF Before, Unused
<1> QED
  BY <1>2 DEF Order, GivenOrder

LEMMA OrderInvInit == RankingInit => OrderInv
<1> USE RankingAssumption DEF RankingInit
<1>1. ASSUME RankingInit PROVE OrderInv
  BY <1>1, RankingTypes DEF OrderInv, TimesInv, AnswersInv, AnswerInv, CacheInv, NoOrder, Unused
<1> QED
  BY <1>1

\* A step that writes no row keeps what the rows are worth.
LEMMA OrdersStay ==
  ASSUME row' = row
  PROVE  /\ \A t \in Threads : mine'[t] = mine[t]
              => TrueOrder(mine[t].names)' = TrueOrder(mine[t].names)
         /\ cache' = cache => TrueOrder(cache.of)' = TrueOrder(cache.of)
  BY DEF TrueOrder, Better, Worth

\* A thread that does nothing keeps its answer, one that is not ranking has none.
LEMMA AnswerStays ==
  ASSUME row' = row, recorded' = recorded, AnswersInv, NEW t \in Threads,
         \/ mine'[t] = mine[t] /\ doing'[t] = doing[t]
         \/ doing'[t] \notin {"query", "store"}
  PROVE  AnswerInv(t)'
<1>1. CASE doing'[t] \notin {"query", "store"}
  BY <1>1 DEF AnswerInv
<1>2. CASE mine'[t] = mine[t] /\ doing'[t] = doing[t]
  BY <1>2, OrdersStay DEF AnswersInv, AnswerInv, TrueOrder, GivenOrder, Better, Worth
<1> QED
  BY <1>1, <1>2

\* A step that only writes no row, nor the cache, and invalidates nothing.
LEMMA CacheStays ==
  ASSUME row' = row, cache' = cache, raced' = raced, blind' = blind, CacheInv,
         \A u \in Threads : doing[u] = "invalidate" => doing'[u] = "invalidate"
  PROVE  CacheInv'
  BY OrdersStay, RankingAssumption DEF CacheInv, GivenOrder

LEMMA OrderInvNext == UsageInv /\ OrderInv /\ [RankingNext]_rankingVars => OrderInv'
<1> SUFFICES ASSUME UsageInv, OrderInv, [RankingNext]_rankingVars
             PROVE  OrderInv'
  OBVIOUS
<1> USE RankingAssumption
<1>0. RankingTypeOK
  BY DEF UsageInv
<1>a. backs # 0 => backs' # 0
  <2>1. backs \in Nat
    BY <1>0 DEF RankingTypeOK
  <2>2. CASE Tick \/ UNCHANGED rankingVars
    BY <2>2 DEF Tick, rankingVars
  <2>3. CASE StepsBack
    BY <2>1, <2>3 DEF StepsBack
  <2>4. ASSUME NEW t \in Threads, Use(t) \/ BeginUse(t) \/ CommitUse(t) \/ UseIsLost(t)
        PROVE  backs' = backs
    BY <2>4 DEF Use, BeginUse, CommitUse, UseIsLost
  <2>5. ASSUME NEW t \in Threads, Invalidate(t) \/ Ask(t) \/ Query(t) \/ QueryFails(t) \/ StoreOrder(t)
        PROVE  backs' = backs
    BY <2>5 DEF Invalidate, Ask, Query, QueryFails, StoreOrder
  <2> QED
    BY <2>2, <2>3, <2>4, <2>5 DEF RankingNext
<1> SUFFICES ASSUME backs = 0 PROVE OrderInv'
  BY <1>a DEF OrderInv
<1>b. TimesInv /\ AnswersInv /\ CacheInv
  BY DEF OrderInv
<1>c. \A t \in Threads : /\ mine[t] \in Mine /\ mine[t].ts \in Nat /\ mine[t].ts \in Times
                         /\ mine[t].names \in SUBSET Commands /\ mine[t].seen \in Nat
                         /\ mine[t].blind \in BOOLEAN
  BY <1>0 DEF RankingTypeOK, Mine, Times
<1>d. now \in Nat /\ recorded \in Nat /\ \A c \in Commands : row[c] \in Rows /\ row[c].last \in Nat
  BY <1>0 DEF RankingTypeOK, Times, Rows
<1>1. ASSUME Tick PROVE OrderInv'
  <2>1. now' = now + 1 /\ UNCHANGED <<row, doing, mine, cache, recorded, raced, blind>>
    BY <1>1 DEF Tick, tally
  <2>2. TimesInv'
    BY <1>b, <1>c, <1>d, <2>1 DEF TimesInv
  <2>3. AnswersInv'
    BY <1>b, <2>1, AnswerStays DEF AnswersInv
  <2>4. CacheInv'
    BY <1>b, <2>1, CacheStays
  <2> QED
    BY <2>2, <2>3, <2>4 DEF OrderInv
<1>2. ASSUME StepsBack PROVE OrderInv'
  BY <1>0, <1>2 DEF StepsBack, OrderInv, RankingTypeOK
<1>3. ASSUME NEW t \in Threads, Use(t) PROVE OrderInv'
  <2>1. /\ doing[t] = "idle" /\ doing' = [doing EXCEPT ![t] = "begin"]
        /\ UNCHANGED <<now, row, cache, recorded, raced, blind>>
        /\ \E c \in Commands : mine' = [mine EXCEPT ![t] = [NothingOfMine EXCEPT !.cmd = c, !.ts = now]]
    BY <1>3 DEF Use, Does, tally
  <2>2. mine'[t].ts = now /\ \A u \in Threads \ {t} : mine'[u] = mine[u]
    BY <1>0, <2>1 DEF RankingTypeOK, NothingOfMine
  <2>3. TimesInv'
    BY <1>b, <1>d, <2>1, <2>2 DEF TimesInv
  <2>4. AnswersInv'
    <3>1. doing'[t] \notin {"query", "store"} /\ \A u \in Threads \ {t} : doing'[u] = doing[u]
      BY <1>0, <2>1 DEF RankingTypeOK
    <3> QED
      BY <1>b, <2>1, <2>2, <3>1, AnswerStays DEF AnswersInv
  <2>5. CacheInv'
    BY <1>0, <1>b, <2>1, CacheStays DEF RankingTypeOK
  <2> QED
    BY <2>3, <2>4, <2>5 DEF OrderInv
<1>4. ASSUME NEW t \in Threads, BeginUse(t) PROVE OrderInv'
  <2>1. /\ doing[t] = "begin" /\ doing' = [doing EXCEPT ![t] = "write"]
        /\ UNCHANGED <<now, row, cache, recorded, raced, blind>>
        /\ mine' = [mine EXCEPT ![t].old = row[mine[t].cmd]]
    BY <1>4 DEF BeginUse, Does, tally
  <2>2. mine'[t].ts = mine[t].ts /\ \A u \in Threads \ {t} : mine'[u] = mine[u]
    BY <1>0, <1>c, <2>1 DEF RankingTypeOK, Mine
  <2>3. TimesInv'
    BY <1>b, <2>1, <2>2 DEF TimesInv
  <2>4. AnswersInv'
    <3>1. doing'[t] \notin {"query", "store"} /\ \A u \in Threads \ {t} : doing'[u] = doing[u]
      BY <1>0, <2>1 DEF RankingTypeOK
    <3> QED
      BY <1>b, <2>1, <2>2, <3>1, AnswerStays DEF AnswersInv
  <2>5. CacheInv'
    BY <1>0, <1>b, <2>1, CacheStays DEF RankingTypeOK
  <2> QED
    BY <2>3, <2>4, <2>5 DEF OrderInv
<1>5. ASSUME NEW t \in Threads, CommitUse(t) PROVE OrderInv'
  <2>1. /\ doing[t] = "write" /\ doing' = [doing EXCEPT ![t] = "invalidate"]
        /\ recorded' = recorded + 1 /\ raced' = (raced \/ (t \notin Here /\ ~cache.dirty))
        /\ UNCHANGED <<now, mine, cache>>
    BY <1>5 DEF CommitUse, Does
  <2>2. mine[t].cmd \in Commands
    BY <2>1 DEF UsageInv, WriterInv
  <2>3. row'[mine[t].cmd].last = mine[t].ts /\ \A c \in Commands \ {mine[t].cmd} : row'[c] = row[c]
    BY <1>0, <1>5, <2>2 DEF RankingTypeOK, CommitUse
  <2>4. TimesInv'
    BY <1>b, <2>1, <2>2, <2>3 DEF TimesInv
  <2>5. AnswersInv'
    <3>1. \A u \in Threads : doing'[u] \in {"query", "store"}
            => mine'[u].seen <= recorded' /\ mine'[u].seen # recorded'
      BY <1>0, <1>b, <1>c, <1>d, <2>1 DEF RankingTypeOK, AnswersInv, AnswerInv
    <3>2. \A u \in Threads : /\ doing'[u] = "query" => ~mine'[u].blind
                             /\ doing'[u] = "store" /\ mine'[u].blind =>
                                  mine'[u].order = GivenOrder(mine'[u].names)
      BY <1>0, <1>b, <2>1 DEF RankingTypeOK, AnswersInv, AnswerInv
    <3> QED
      BY <3>1, <3>2 DEF AnswersInv, AnswerInv, GivenOrder
  <2>6. CacheInv'
    <3>1. CASE t \in Here
      BY <1>0, <2>1, <3>1 DEF RankingTypeOK, CacheInv
    <3>2. CASE t \notin Here
      BY <2>1, <3>2 DEF CacheInv
    <3> QED
      BY <3>1, <3>2
  <2> QED
    BY <2>4, <2>5, <2>6 DEF OrderInv
<1>6. ASSUME NEW t \in Threads, UseIsLost(t) PROVE OrderInv'
  <2>1. /\ doing[t] \in {"begin", "write"} /\ doing' = [doing EXCEPT ![t] = "idle"]
        /\ UNCHANGED <<now, row, cache, recorded, raced, blind>>
        /\ mine' = [mine EXCEPT ![t] = NothingOfMine]
    BY <1>6 DEF UseIsLost, tally
  <2>2. mine'[t].ts = 0 /\ \A u \in Threads \ {t} : mine'[u] = mine[u]
    BY <1>0, <2>1 DEF RankingTypeOK, NothingOfMine
  <2>3. TimesInv'
    BY <1>b, <1>d, <2>1, <2>2 DEF TimesInv
  <2>4. AnswersInv'
    <3>1. doing'[t] \notin {"query", "store"} /\ \A u \in Threads \ {t} : doing'[u] = doing[u]
      BY <1>0, <2>1 DEF RankingTypeOK
    <3> QED
      BY <1>b, <2>1, <2>2, <3>1, AnswerStays DEF AnswersInv
  <2>5. CacheInv'
    BY <1>0, <1>b, <2>1, CacheStays DEF RankingTypeOK
  <2> QED
    BY <2>3, <2>4, <2>5 DEF OrderInv
<1>7. ASSUME NEW t \in Threads, Invalidate(t) PROVE OrderInv'
  <2>1. /\ doing' = [doing EXCEPT ![t] = "idle"] /\ cache' = [cache EXCEPT !.dirty = @ \/ t \in Here]
        /\ raced' = (raced /\ ~cache'.dirty) /\ blind' = (blind /\ ~cache'.dirty)
        /\ UNCHANGED <<now, row, recorded>>
        /\ mine' = [mine EXCEPT ![t] = NothingOfMine]
    BY <1>7 DEF Invalidate, Does, tally
  <2>2. mine'[t].ts = 0 /\ \A u \in Threads \ {t} : mine'[u] = mine[u]
    BY <1>0, <2>1 DEF RankingTypeOK, NothingOfMine
  <2>3. TimesInv'
    BY <1>b, <1>d, <2>1, <2>2 DEF TimesInv
  <2>4. AnswersInv'
    <3>1. doing'[t] \notin {"query", "store"} /\ \A u \in Threads \ {t} : doing'[u] = doing[u]
      BY <1>0, <2>1 DEF RankingTypeOK
    <3> QED
      BY <1>b, <2>1, <2>2, <3>1, AnswerStays DEF AnswersInv
  <2>5. CacheInv'
    <3>1. CASE t \in Here
      <4>1. cache'.dirty
        BY <1>0, <2>1, <3>1 DEF RankingTypeOK
      <4> QED
        BY <4>1 DEF CacheInv
    <3>2. CASE t \notin Here
      <4>1. cache'.dirty = cache.dirty /\ cache'.order = cache.order /\ cache'.of = cache.of
        BY <1>0, <2>1, <3>2 DEF RankingTypeOK
      <4>2. \A u \in Here : doing'[u] = doing[u]
        BY <1>0, <2>1, <3>2 DEF RankingTypeOK
      <4> QED
        BY <1>b, <2>1, <4>1, <4>2 DEF CacheInv, GivenOrder, TrueOrder, Better, Worth
    <3> QED
      BY <3>1, <3>2
  <2> QED
    BY <2>3, <2>4, <2>5 DEF OrderInv
<1>8. ASSUME NEW t \in Threads, Ask(t) PROVE OrderInv'
  <2>1. PICK names \in NameSets :
          mine' = [mine EXCEPT ![t] = [NothingOfMine EXCEPT !.names = names, !.ts = now,
                                                            !.seen = recorded]]
    BY <1>8 DEF Ask
  <2>2. /\ doing[t] = "idle" /\ doing' = [doing EXCEPT ![t] = "query"]
        /\ UNCHANGED <<now, row, cache, recorded, raced, blind>>
    BY <1>8 DEF Ask, Does, tally
  <2>3. /\ mine'[t].ts = now /\ mine'[t].seen = recorded /\ ~mine'[t].blind /\ doing'[t] = "query"
        /\ \A u \in Threads \ {t} : mine'[u] = mine[u] /\ doing'[u] = doing[u]
    BY <1>0, <2>1, <2>2 DEF RankingTypeOK, NothingOfMine
  <2>4. TimesInv'
    BY <1>b, <1>d, <2>2, <2>3 DEF TimesInv
  <2>5. AnswersInv'
    <3>1. \A u \in Threads \ {t} : AnswerInv(u)'
      BY <1>b, <2>2, <2>3, AnswerStays
    <3>2. AnswerInv(t)'
      BY <1>b, <1>d, <2>2, <2>3 DEF TimesInv, AnswerInv
    <3> QED
      BY <1>b, <2>2, <2>3, <3>1, <3>2 DEF AnswersInv
  <2>6. CacheInv'
    BY <1>0, <1>b, <2>2, CacheStays DEF RankingTypeOK
  <2> QED
    BY <2>4, <2>5, <2>6 DEF OrderInv
<1>9. ASSUME NEW t \in Threads, Query(t) PROVE OrderInv'
  <2>1. /\ doing[t] = "query" /\ doing' = [doing EXCEPT ![t] = "store"]
        /\ UNCHANGED <<now, row, cache, recorded, raced, blind>>
    BY <1>9 DEF Query, Does, tally
  <2>2. /\ doing'[t] = "store" /\ DOMAIN mine' = DOMAIN mine
        /\ mine'[t].ts = mine[t].ts /\ mine'[t].seen = mine[t].seen /\ mine'[t].names = mine[t].names
        /\ \A u \in Threads \ {t} : mine'[u] = mine[u] /\ doing'[u] = doing[u]
    <3>1. /\ doing'[t] = "store" /\ \A u \in Threads \ {t} : doing'[u] = doing[u]
      BY <1>0, <2>1 DEF RankingTypeOK
    <3>2. CASE mine' = [mine EXCEPT ![t].order = Order(row, mine[t].names, mine[t].ts)]
      BY <1>0, <1>c, <3>1, <3>2 DEF RankingTypeOK, Mine
    <3>3. CASE mine' = [mine EXCEPT ![t].order = Order(NoRows, mine[t].names, mine[t].ts),
                                    ![t].blind = TRUE]
      BY <1>0, <1>c, <3>1, <3>3 DEF RankingTypeOK, Mine
    <3> QED
      BY <1>9, <3>2, <3>3 DEF Query
  <2>3. TimesInv'
    BY <1>b, <2>1, <2>2 DEF TimesInv
  <2>4. AnswerInv(t)'
    <3>1. mine[t].seen <= recorded
      BY <1>b, <2>1 DEF AnswersInv, AnswerInv
    <3>2. CASE mine' = [mine EXCEPT ![t].order = Order(row, mine[t].names, mine[t].ts)]
      <4>1. mine'[t].order = Order(row, mine[t].names, mine[t].ts) /\ mine'[t].blind = mine[t].blind
        BY <1>0, <1>c, <3>2 DEF RankingTypeOK, Mine
      <4>2. mine[t].seen = recorded => mine'[t].order = TrueOrder(mine[t].names)
        <5> HAVE mine[t].seen = recorded
        <5>1. \A c \in mine[t].names : row[c].last <= mine[t].ts
          BY <1>b, <1>c, <2>1 DEF AnswersInv, AnswerInv
        <5> QED
          BY <1>c, <4>1, <5>1, OrderIsTrue
      <4>3. ~mine[t].blind
        BY <1>b, <2>1 DEF AnswersInv, AnswerInv
      <4> QED
        BY <2>1, <2>2, <3>1, <4>1, <4>2, <4>3 DEF AnswerInv, TrueOrder, Better, Worth
    <3>3. CASE mine' = [mine EXCEPT ![t].order = Order(NoRows, mine[t].names, mine[t].ts),
                                    ![t].blind = TRUE]
      <4>1. mine'[t].order = Order(NoRows, mine[t].names, mine[t].ts) /\ mine'[t].blind = TRUE
        BY <1>0, <1>c, <3>3 DEF RankingTypeOK, Mine
      <4>2. mine'[t].order = GivenOrder(mine'[t].names)
        BY <1>c, <2>2, <4>1, OrderOfNoRows
      <4> QED
        BY <2>1, <2>2, <3>1, <4>1, <4>2 DEF AnswerInv, GivenOrder
    <3> QED
      BY <1>9, <3>2, <3>3 DEF Query
  <2>5. AnswersInv'
    <3>1. \A u \in Threads \ {t} : AnswerInv(u)'
      BY <1>b, <2>1, <2>2, AnswerStays
    <3> QED
      BY <2>4, <3>1 DEF AnswersInv
  <2>6. CacheInv'
    BY <1>0, <1>b, <2>1, CacheStays, RankingAssumption DEF RankingTypeOK
  <2> QED
    BY <2>3, <2>5, <2>6 DEF OrderInv
<1>12. ASSUME NEW t \in Threads, QueryFails(t) PROVE OrderInv'
  <2>1. /\ doing[t] = "query" /\ doing' = [doing EXCEPT ![t] = "idle"]
        /\ UNCHANGED <<now, row, cache, recorded, raced, blind>>
        /\ mine' = [mine EXCEPT ![t] = NothingOfMine]
    BY <1>12 DEF QueryFails, Does, tally
  <2>2. mine'[t].ts = 0 /\ \A u \in Threads \ {t} : mine'[u] = mine[u]
    BY <1>0, <2>1 DEF RankingTypeOK, NothingOfMine
  <2>3. TimesInv'
    BY <1>b, <1>d, <2>1, <2>2 DEF TimesInv
  <2>4. AnswersInv'
    <3>1. doing'[t] \notin {"query", "store"} /\ \A u \in Threads \ {t} : doing'[u] = doing[u]
      BY <1>0, <2>1 DEF RankingTypeOK
    <3> QED
      BY <1>b, <2>1, <2>2, <3>1, AnswerStays DEF AnswersInv
  <2>5. CacheInv'
    BY <1>0, <1>b, <2>1, CacheStays DEF RankingTypeOK
  <2> QED
    BY <2>3, <2>4, <2>5 DEF OrderInv
<1>10. ASSUME NEW t \in Threads, StoreOrder(t) PROVE OrderInv'
  <2>1. /\ doing[t] = "store" /\ doing' = [doing EXCEPT ![t] = "idle"]
        /\ mine' = [mine EXCEPT ![t] = NothingOfMine]
        /\ cache' = [order |-> mine[t].order, of |-> mine[t].names, dirty |-> FALSE]
        /\ raced' = (mine[t].seen # recorded) /\ blind' = mine[t].blind
        /\ UNCHANGED <<now, row, recorded>>
    BY <1>10 DEF StoreOrder, Does, tally
  <2>2. mine'[t].ts = 0 /\ \A u \in Threads \ {t} : mine'[u] = mine[u]
    BY <1>0, <2>1 DEF RankingTypeOK, NothingOfMine
  <2>3. TimesInv'
    BY <1>b, <1>d, <2>1, <2>2 DEF TimesInv
  <2>4. AnswersInv'
    <3>1. doing'[t] \notin {"query", "store"} /\ \A u \in Threads \ {t} : doing'[u] = doing[u]
      BY <1>0, <2>1 DEF RankingTypeOK
    <3> QED
      BY <1>b, <2>1, <2>2, <3>1, AnswerStays DEF AnswersInv
  <2>5. CacheInv'
    <3>1. /\ mine[t].blind => mine[t].order = GivenOrder(mine[t].names)
          /\ mine[t].seen = recorded /\ ~mine[t].blind => mine[t].order = TrueOrder(mine[t].names)
      BY <1>b, <2>1 DEF AnswersInv, AnswerInv
    <3> QED
      BY <2>1, <3>1 DEF CacheInv, GivenOrder, TrueOrder, Better, Worth
  <2> QED
    BY <2>3, <2>4, <2>5 DEF OrderInv
<1>11. ASSUME UNCHANGED rankingVars PROVE OrderInv'
  BY <1>b, <1>11 DEF rankingVars, tally, OrderInv, TimesInv, AnswersInv, AnswerInv, CacheInv, GivenOrder, TrueOrder, Better, Worth
<1> QED
  BY <1>1, <1>2, <1>3, <1>4, <1>5, <1>6, <1>7, <1>8, <1>9, <1>10, <1>11, <1>12 DEF RankingNext

\* Both hold always.
LEMMA UsageInvariant == RankingSpec => [](UsageInv /\ OrderInv)
<1>1. RankingInit => UsageInv /\ OrderInv
  BY UsageInvInit, OrderInvInit
<1>2. (UsageInv /\ OrderInv) /\ [RankingNext]_rankingVars => (UsageInv /\ OrderInv)'
  BY UsageInvNext, OrderInvNext
<1> QED
  BY <1>1, <1>2, PTL DEF RankingSpec

\* A use of a command is counted once and its score never exceeds what its uses earned,
\* however many threads record, and however the clock steps (UsesAreCounted,
\* command_usage.py:91-114).
THEOREM EveryUseIsCounted == RankingSpec => []UsesAreCounted
<1>1. UsageInv => UsesAreCounted
  <2> SUFFICES ASSUME UsageInv, NEW c \in Commands
               PROVE  /\ Effective(row[c], now) <= uses[c] * Unit
                      /\ row[c].score * Pow[row[c].last] <= earned[c] * Unit
    BY DEF UsesAreCounted, UsageInv, ScoreIsEarned
  <2>1. /\ row[c] \in Rows /\ now \in Nat /\ uses[c] \in Nat
    BY RankingAssumption DEF UsageInv, RankingTypeOK, Times
  <2>2. row[c].score \in Nat /\ row[c].last \in Nat
    BY <2>1, RankingAssumption DEF Rows, Times
  <2>3. Effective(row[c], now) \in Nat /\ Effective(row[c], now) <= row[c].score
    BY <2>1, <2>2, DecayBounds DEF Effective
  <2>4. /\ row[c].score <= uses[c] * Unit
        /\ row[c].score * Pow[row[c].last] <= earned[c] * Unit
    BY DEF UsageInv, ScoreInv
  <2>5. uses[c] * Unit \in Nat
    BY <2>1, UnitType
  <2> QED
    BY <2>2, <2>3, <2>4, <2>5
<1> QED
  BY <1>1, UsageInvariant, PTL

\* A cached order that is called good is the one that a query would give now, whatever
\* the time that has passed, but for a use recorded while it was computed or by another
\* process, or a clock that stepped back; and the order without any use when its query
\* could not read the rows (CacheIsCurrent; cli_ranking.py:60-105,
\* command_usage.py:165-197).
THEOREM TheCacheIsCurrent == RankingSpec => []CacheIsCurrent
<1>1. UsageInv /\ OrderInv => CacheIsCurrent
  <2> SUFFICES ASSUME UsageInv, OrderInv, backs = 0,
                      cache.order = IF blind THEN GivenOrder(cache.of) ELSE TrueOrder(cache.of)
               PROVE  cache.order = Order(IF blind THEN NoRows ELSE row, cache.of, now)
    BY DEF OrderInv, CacheInv, CacheIsCurrent
  <2>1. cache.of \in SUBSET Commands /\ now \in Times
    BY DEF UsageInv, RankingTypeOK
  <2>2. \A c \in cache.of : row[c].last <= now
    BY <2>1 DEF OrderInv, TimesInv
  <2>3. CASE blind
    BY <2>1, <2>3, OrderOfNoRows
  <2>4. CASE ~blind
    BY <2>1, <2>2, <2>4, OrderIsTrue
  <2> QED
    BY <2>3, <2>4
<1> QED
  BY <1>1, UsageInvariant, PTL

-----------------------------------------------------------------------------
(* TelegramMenu.                                                           *)

\* Where the gateway is tells which of the record and the chat is ahead.
MenuInv ==
  /\ menu \in {"idle", "publish", "mark"}
  /\ menu = "mark" => shown = sending
  /\ RecordedIsShown

LEMMA MenuInvNext == MenuInv /\ [MenuNext]_menuVars => MenuInv'
<1> SUFFICES ASSUME MenuInv, [MenuNext]_menuVars PROVE MenuInv'
  OBVIOUS
<1> USE DEF MenuInv, RecordedIsShown
<1>1. CASE MenuTick \/ MenuChanges \/ UNCHANGED menuVars
  BY <1>1 DEF MenuTick, MenuChanges, menuVars
<1>2. CASE Evaluate \/ EvaluateBlindly
  BY <1>2 DEF Evaluate, EvaluateBlindly
<1>3. CASE Confirmed
  BY <1>3 DEF Confirmed
<1>4. CASE Rejected
  BY <1>4 DEF Rejected
<1>5. CASE MarkPublished
  BY <1>5 DEF MarkPublished
<1>6. CASE MarkIsLost
  BY <1>6 DEF MarkIsLost
<1> QED
  BY <1>1, <1>2, <1>3, <1>4, <1>5, <1>6 DEF MenuNext

\* For any menus and any cooldown, the record is what Telegram shows unless a publish
\* went unrecorded since the last that was (telegram_menu.py, mark_published).
THEOREM RecordsAreShown == MenuSpec => []RecordedIsShown
<1>1. MenuInit => MenuInv
  <2>1. NoRecord.of = NoMenu
    BY DEF NoRecord
  <2> QED
    BY <2>1 DEF MenuInit, MenuInv, RecordedIsShown
<1>2. MenuInv => RecordedIsShown
  BY DEF MenuInv
<1> QED
  BY <1>1, <1>2, MenuInvNext, PTL DEF MenuSpec

-----------------------------------------------------------------------------
(* Types, in each part and in the composition that the run checks.         *)

LEMMA SchemaTypesInit == SchemaInit => SchemaTypeOK
<1> SUFFICES ASSUME SchemaInit PROVE SchemaTypeOK
  OBVIOUS
<1>1. /\ call \in [Clients -> {"none", "read", "step", "done", "failed"}]
      /\ at \in [Clients -> Nat] /\ got \in [Clients -> Nat]
  BY DEF SchemaInit
<1>2. registry \in BOOLEAN /\ version \in Nat /\ applied = {} /\ schemaFaults \in Nat
  BY DEF SchemaInit
<1> QED
  BY <1>1, <1>2 DEF SchemaTypeOK

LEMMA SchemaTypesNext == SchemaTypeOK /\ [SchemaNext]_schemaVars => SchemaTypeOK'
<1> SUFFICES ASSUME SchemaTypeOK, [SchemaNext]_schemaVars PROVE SchemaTypeOK'
  OBVIOUS
<1> USE SchemaAssumption DEF SchemaTypeOK
<1>1. ASSUME NEW p \in Clients, EnsureRegistry(p) PROVE SchemaTypeOK'
  BY <1>1 DEF EnsureRegistry
<1>2. ASSUME NEW p \in Clients, ReadVersion(p) PROVE SchemaTypeOK'
  <2>1. PICK v \in Installed :
          /\ call' = [call EXCEPT ![p] = IF v >= Target[p] THEN "done" ELSE "step"]
          /\ at' = [at EXCEPT ![p] = v]
          /\ got' = IF v >= Target[p] THEN [got EXCEPT ![p] = v] ELSE got
    BY <1>2 DEF ReadVersion, CallGoes
  <2>2. v \in Nat
    BY DEF Installed
  <2> QED
    BY <1>2, <2>1, <2>2 DEF ReadVersion
<1>3. ASSUME NEW p \in Clients, Step(p) PROVE SchemaTypeOK'
  <2>1. /\ at[p] \in Nat /\ at[p] < Target[p] /\ Target[p] \in Nat
        /\ at' = [at EXCEPT ![p] = @ + 1]
    BY <1>3 DEF Step, More
  <2>2. at'[p] = at[p] + 1 /\ at'[p] # 0 /\ at'[p] <= Target[p] /\ at'[p] \in Nat
    BY <2>1
  <2> QED
    BY <1>3, <2>1, <2>2 DEF Step
<1>4. ASSUME NEW p \in Clients, StepFails(p) PROVE SchemaTypeOK'
  BY <1>4 DEF StepFails, SchemaFault, CallGoes
<1>6. ASSUME NEW p \in Clients, ReturnVersion(p) PROVE SchemaTypeOK'
  <2>1. PICK v \in Installed : got' = [got EXCEPT ![p] = v]
    BY <1>6 DEF ReturnVersion
  <2>2. v \in Nat
    BY DEF Installed
  <2> QED
    BY <1>6, <2>1, <2>2 DEF ReturnVersion, CallGoes
<1>5. CASE UNCHANGED schemaVars
  BY <1>5 DEF schemaVars
<1> QED
  BY <1>1, <1>2, <1>3, <1>4, <1>5, <1>6 DEF SchemaNext

LEMMA MenuTypesInit == MenuInit => MenuTypeOK
<1> SUFFICES ASSUME MenuInit PROVE MenuTypeOK
  OBVIOUS
<1>1. 0 \in 0 .. MaxMenuTime /\ 0 \in 0 .. MaxMenuFaults
  BY MenuAssumption
<1>2. record \in [of : Payloads \union {NoMenu}, at : 0 .. MaxMenuTime]
  BY <1>1 DEF MenuInit, NoRecord
<1> QED
  BY <1>1, <1>2 DEF MenuInit, MenuTypeOK

LEMMA MenuTypesNext == MenuInv /\ MenuTypeOK /\ [MenuNext]_menuVars => MenuTypeOK'
<1> SUFFICES ASSUME MenuInv, MenuTypeOK, [MenuNext]_menuVars PROVE MenuTypeOK'
  OBVIOUS
<1> USE MenuAssumption DEF MenuTypeOK
<1>1. CASE MenuTick \/ MenuChanges \/ UNCHANGED menuVars
  BY <1>1 DEF MenuTick, MenuChanges, menuVars
<1>2. CASE Evaluate \/ EvaluateBlindly
  BY <1>2 DEF Evaluate, EvaluateBlindly, MenuFault
<1>3. CASE Confirmed \/ Rejected
  BY <1>3 DEF Confirmed, Rejected
<1>4. CASE MarkPublished
  BY <1>4 DEF MarkPublished
<1>5. CASE MarkIsLost
  BY <1>5 DEF MarkIsLost, MenuFault
<1> QED
  BY <1>1, <1>2, <1>3, <1>4, <1>5 DEF MenuNext

LEMMA Layer2Parts == Spec => SchemaSpec /\ RankingSpec /\ MenuSpec
<1>1. Init => SchemaInit /\ RankingInit /\ MenuInit
  BY DEF Init
<1>2. [Next]_vars => [SchemaNext]_schemaVars /\ [RankingNext]_rankingVars /\ [MenuNext]_menuVars
  BY DEF Next, vars
<1> QED
  BY <1>1, <1>2, PTL DEF Spec, SchemaSpec, RankingSpec, MenuSpec

\* In every state that layer 2 reaches, each of its variables has its type; no step
\* of a migration is one that no build knows.
THEOREM Layer2KeepsItsTypes == Spec => []Layer2TypeOK
<1>1. SchemaSpec => []SchemaTypeOK
  BY SchemaTypesInit, SchemaTypesNext, PTL DEF SchemaSpec
<1>2. MenuSpec => [](MenuInv /\ MenuTypeOK)
  <2>1. MenuInit => MenuInv
    BY DEF MenuInit, MenuInv, RecordedIsShown, NoRecord
  <2> QED
    BY <2>1, MenuInvNext, MenuTypesInit, MenuTypesNext, PTL DEF MenuSpec
<1>3. UsageInv /\ SchemaTypeOK /\ MenuTypeOK => Layer2TypeOK
  BY DEF UsageInv, Layer2TypeOK
<1> QED
  BY <1>1, <1>2, <1>3, UsageInvariant, Layer2Parts, PTL
=============================================================================
