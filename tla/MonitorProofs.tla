--------------------------- MODULE MonitorProofs ---------------------------
(***************************************************************************)
(* What the monitor promises for every configuration, reading and table of *)
(* incidents: screens, digest and incidents tell the same (Observations),  *)
(* a discovery loses sight of nothing and counts what it saw (Inventory),  *)
(* and the logs that it writes keep to their limits (Retention).           *)
(*                                                                         *)
(* A pass is folded over a list of observations, and the lists are         *)
(* flattened from others.  The first part below therefore proves induction *)
(* over the natural numbers, as a fact about sets of numbers: a subset of  *)
(* Nat with 0 and with every successor is Nat, because the intervals below *)
(* its complement would have no smallest one.  With it the folds and the   *)
(* flattened lists are shown to be what they look like: the last of a      *)
(* sequence of states, each an operation on the one before.                *)
(***************************************************************************)
EXTENDS Observations, Inventory, Retention,
        FiniteSetTheorems, SequenceTheorems, WellFoundedInduction, TLAPS

-----------------------------------------------------------------------------
(***************************************************************************)
(* Numbers, lists, and one pass over the table of incidents.               *)
(***************************************************************************)

\* Some of the finite sets of a family are minimal.
LEMMA HasMinimal ==
    ASSUME NEW R, IsFiniteSet(R), NEW F \in SUBSET SUBSET R, F # {}
    PROVE  \E A \in F : \A B \in F : B \subseteq A => B = A
<1>1. F \subseteq FiniteSubsetsOf(R)
  BY FS_FiniteSubsetsOfFinite
<1>2. PICK A \in F : \A B \in F : ~ (<<B, A>> \in StrictSubsetOrdering(R))
  BY <1>1, FS_StrictSubsetOrderingWellFounded, WFMin
<1>3. QED
  BY <1>2 DEF StrictSubsetOrdering

\* A set of natural numbers has a smallest one: the intervals up to its members have a
\* minimal one, since only finitely many are below any of them.
LEMMA Smallest ==
    ASSUME NEW T \in SUBSET Nat, T # {}
    PROVE  \E m \in T : \A n \in T : m <= n
<1>1. PICK t \in T : TRUE
  OBVIOUS
<1> DEFINE F == {0 .. n : n \in {k \in T : k <= t}}
<1>2. F \in SUBSET SUBSET (0 .. t) /\ F # {}
  BY <1>1
<1>3. IsFiniteSet(0 .. t)
  BY <1>1, FS_Interval
<1> HIDE DEF F
<1>4. PICK A \in F : \A B \in F : B \subseteq A => B = A
  <2> DEFINE R == 0 .. t
  <2>1. F \in SUBSET SUBSET R /\ F # {} /\ IsFiniteSet(R)
    BY <1>2, <1>3
  <2> HIDE DEF R
  <2> QED
    BY <2>1, HasMinimal
<1>5. PICK m \in T : m <= t /\ A = 0 .. m
  BY DEF F
<1>6. ASSUME NEW n \in T, n < m PROVE FALSE
  <2>1. 0 .. n \in F
    BY <1>5, <1>6, <1>1 DEF F
  <2>2. 0 .. n \subseteq A
    BY <1>5, <1>6
  <2>3. 0 .. n = 0 .. m
    BY <2>1, <2>2, <1>4, <1>5
  <2>4. m \in 0 .. n
    BY <2>3
  <2> QED
    BY <2>4, <1>6
<1> QED
  BY <1>6

\* Induction, over a set of numbers.
LEMMA Induction ==
    ASSUME NEW P \in SUBSET Nat, 0 \in P, \A n \in P : n + 1 \in P
    PROVE  P = Nat
<1> SUFFICES ASSUME Nat \ P # {} PROVE FALSE
  OBVIOUS
<1>1. PICK m \in Nat \ P : \A n \in Nat \ P : m <= n
  BY Smallest
<1>2. m # 0
  OBVIOUS
<1>3. m - 1 \in Nat /\ m = (m - 1) + 1
  BY <1>2
<1>4. m - 1 \in P
  BY <1>1, <1>3
<1> QED
  BY <1>3, <1>4

\* A set of numbers up to n has a largest one, which Max picks.
LEMMA Largest ==
    ASSUME NEW n \in Nat, NEW S \in SUBSET (1 .. n), S # {}
    PROVE  Max(S) \in S /\ \A m \in S : m <= Max(S)
<1> DEFINE T == {k \in Nat : \E m \in S : k = n - m}
<1>1. PICK k \in T : \A j \in T : k <= j
  <2>1. T # {}
    <3>1. PICK m \in S : TRUE
      OBVIOUS
    <3>2. n - m \in T
      BY <3>1
    <3> QED
      BY <3>2
  <2> HIDE DEF T
  <2>2. T \in SUBSET Nat
    BY DEF T
  <2> QED
    BY <2>1, <2>2, Smallest
<1>2. PICK m \in S : k = n - m
  OBVIOUS
<1>3. \A j \in S : j <= m
  <2> TAKE j \in S
  <2>1. n - j \in T
    OBVIOUS
  <2> QED
    BY <2>1, <1>1, <1>2
<1>4. \E x \in S : \A y \in S : x >= y
  BY <1>3
<1> QED
  BY <1>4 DEF Max

\* A pass is a sequence of tables, each with one more observation.  The proof solves
\* the equation of the recursive function that FoldLeft stands for, for longer and
\* longer lists.
LEMMA ObserveFold ==
  ASSUME NEW S, NEW observed \in Seq(S), NEW table
  PROVE  \E g : /\ g[0] = table
                /\ \A i \in 1 .. Len(observed) : g[i] = Observe(g[i - 1], observed[i])
                /\ FoldLeft(Observe, table, observed) = g[Len(observed)]
<1> DEFINE N == Len(observed)
           Step(iter, s) == IF s = {} THEN table ELSE Observe(iter[s \ {Max(s)}], observed[Max(s)])
           Solves(iter, n) == iter = [s \in SUBSET (1 .. n) |-> Step(iter, s)]
<1>0. N \in Nat /\ DOMAIN observed = 1 .. N
  OBVIOUS
<1>1. \E iter : Solves(iter, 0)
  <2>1. 1 .. 0 = {} /\ SUBSET (1 .. 0) = {{}}
    OBVIOUS
  <2>2. Solves([s \in {{}} |-> table], 0)
    BY <2>1
  <2> QED
    BY <2>2
<1>2. ASSUME NEW n \in Nat, NEW iter, Solves(iter, n)
      PROVE  \E next : Solves(next, n + 1)
  <2> DEFINE next == [s \in SUBSET (1 .. n + 1) |->
                        IF n + 1 \in s THEN Observe(iter[s \ {n + 1}], observed[n + 1]) ELSE iter[s]]
  <2>1. ASSUME NEW s \in SUBSET (1 .. n + 1) PROVE next[s] = Step(next, s)
    <3>1. CASE s = {}
      BY <3>1, <1>2
    <3>2. CASE n + 1 \in s
      <4>1. Max(s) = n + 1
        <5>1. n + 1 \in Nat /\ s # {}
          BY <3>2
        <5>2. Max(s) \in s /\ n + 1 <= Max(s)
          BY <3>2, <5>1, Largest
        <5>3. Max(s) \in 1 .. n + 1
          BY <5>2
        <5> QED
          BY <5>2, <5>3
      <4>2. s \ {n + 1} \in SUBSET (1 .. n + 1) /\ n + 1 \notin s \ {n + 1}
        OBVIOUS
      <4>3. next[s \ {n + 1}] = iter[s \ {n + 1}]
        BY <4>2
      <4>4. next[s] = Observe(iter[s \ {n + 1}], observed[n + 1])
        BY <3>2
      <4>5. Step(next, s) = Observe(next[s \ {n + 1}], observed[n + 1])
        BY <4>1, <3>2
      <4> QED
        BY <4>3, <4>4, <4>5
    <3>3. CASE s # {} /\ n + 1 \notin s
      <4>1. s \in SUBSET (1 .. n)
        BY <3>3
      <4>2. Max(s) \in s
        BY <4>1, <3>3, Largest
      <4>3. s \ {Max(s)} \in SUBSET (1 .. n + 1) /\ n + 1 \notin s \ {Max(s)}
        BY <3>3
      <4>4. next[s \ {Max(s)}] = iter[s \ {Max(s)}]
        BY <4>3
      <4>5. next[s] = iter[s]
        BY <3>3
      <4>6. iter[s] = Step(iter, s)
        BY <1>2, <4>1
      <4> QED
        BY <4>4, <4>5, <4>6, <3>3
    <3> QED
      BY <3>1, <3>2, <3>3
  <2>2. next = [s \in SUBSET (1 .. n + 1) |-> Step(next, s)]
    <3> HIDE DEF Step
    <3>1. next = [s \in SUBSET (1 .. n + 1) |-> next[s]]
      OBVIOUS
    <3> HIDE DEF next
    <3> QED
      BY <2>1, <3>1
  <2> HIDE DEF next
  <2> QED
    BY <2>2
<1>3. \E iter : Solves(iter, N)
  <2> HIDE DEF Solves
  <2> DEFINE P == {n \in Nat : \E iter : Solves(iter, n)}
  <2>1. 0 \in P /\ \A n \in P : n + 1 \in P
    BY <1>1, <1>2
  <2> HIDE DEF P
  <2>2. P = Nat
    <3>1. P \in SUBSET Nat
      BY DEF P
    <3> QED
      BY <2>1, <3>1, Induction
  <2> QED
    BY <2>2, <1>0 DEF P
<1> DEFINE Iter == CHOOSE iter : Solves(iter, N)
<1>4. Solves(Iter, N)
  <2> HIDE DEF Solves
  <2> QED
    BY <1>3
<1>5. FoldLeft(Observe, table, observed) = Iter[1 .. N]
  BY <1>0 DEF FoldLeft, MapThenFoldSet
<1> DEFINE g == [i \in 0 .. N |-> Iter[1 .. i]]
<1> HIDE DEF Step
<1>6. g[0] = table /\ g[N] = Iter[1 .. N]
  <2>1. 1 .. 0 = {} /\ {} \in SUBSET (1 .. N)
    OBVIOUS
  <2>2. Iter[{}] = table
    BY <1>4, <2>1 DEF Step
  <2>3. 0 \in 0 .. N /\ N \in 0 .. N
    BY <1>0
  <2> HIDE DEF N
  <2> QED
    BY <2>1, <2>2, <2>3
<1>7. ASSUME NEW i \in 1 .. N PROVE g[i] = Observe(g[i - 1], observed[i])
  <2> HIDE DEF N
  <2>1. 1 .. i \in SUBSET (1 .. N) /\ 1 .. i # {} /\ i \in Nat /\ i - 1 \in 0 .. N /\ i \in 0 .. N
    BY <1>0
  <2>2. Max(1 .. i) = i
    <3>0. \E T \in SUBSET (1 .. i) : T = 1 .. i
      OBVIOUS
    <3>1. Max(1 .. i) \in 1 .. i /\ \A m \in 1 .. i : m <= Max(1 .. i)
      BY <2>1, <3>0, Largest
    <3> QED
      BY <3>1, <2>1
  <2>3. (1 .. i) \ {i} = 1 .. (i - 1)
    BY <2>1
  <2>4. Iter[1 .. i] = Step(Iter, 1 .. i)
    BY <2>1, <1>4
  <2>5. Step(Iter, 1 .. i) = Observe(Iter[1 .. (i - 1)], observed[i])
    BY <2>1, <2>2, <2>3 DEF Step
  <2>6. g[i] = Iter[1 .. i] /\ g[i - 1] = Iter[1 .. (i - 1)]
    BY <2>1
  <2> QED
    BY <2>4, <2>5, <2>6
<1> HIDE DEF g
<1> QED
  BY <1>5, <1>6, <1>7

\* The severities and the keys of a list of observations.
Keys(observed) == {observed[i].key : i \in DOMAIN observed}
\* How bad the observations of one key are.
SeveritiesOf(observed, k) == {observed[i].severity : i \in {j \in DOMAIN observed : observed[j].key = k}}

\* One observation adds its key, gives it its severity, and leaves the other rows alone.
LEMMA ObserveDoes ==
  ASSUME NEW table, NEW o
  PROVE  /\ DOMAIN Observe(table, o) = DOMAIN table \cup {o.key}
         /\ \A k \in DOMAIN table \ {o.key} : Observe(table, o)[k] = table[k]
         /\ Observe(table, o)[o.key].severity = o.severity
<1>1. DOMAIN Observe(table, o) = DOMAIN table \cup {o.key}
  BY Zenon DEF Observe
<1>2. ASSUME NEW k \in DOMAIN table \ {o.key}
      PROVE  Observe(table, o)[k] = table[k]
  BY DEF Observe
<1>3. Observe(table, o)[o.key].severity = o.severity
  BY DEF Observe
<1> QED
  BY <1>1, <1>2, <1>3

\* A pass adds the keys that it observes, gives each the severity of one of its
\* observations, and leaves the other rows alone.
LEMMA PassRows ==
  ASSUME NEW S, NEW observed \in Seq(S), NEW table
  PROVE  LET updated == FoldLeft(Observe, table, observed)
         IN  /\ DOMAIN updated = DOMAIN table \cup Keys(observed)
             /\ \A k \in DOMAIN table \ Keys(observed) : updated[k] = table[k]
             /\ \A k \in Keys(observed) : updated[k].severity \in SeveritiesOf(observed, k)
<1> DEFINE N == Len(observed)
           seen(i) == {observed[j].key : j \in 1 .. i}
           Good(h, i) ==
             /\ DOMAIN h = DOMAIN table \cup seen(i)
             /\ \A k \in DOMAIN table \ seen(i) : h[k] = table[k]
             /\ \A k \in seen(i) : h[k].severity \in SeveritiesOf(observed, k)
<1>0. N \in Nat /\ DOMAIN observed = 1 .. N
  OBVIOUS
<1>1. PICK g : /\ g[0] = table
               /\ \A i \in 1 .. N : g[i] = Observe(g[i - 1], observed[i])
               /\ FoldLeft(Observe, table, observed) = g[N]
  BY ObserveFold
<1> HIDE DEF N
<1>2. Good(g[0], 0)
  <2>1. seen(0) = {}
    OBVIOUS
  <2> HIDE DEF seen
  <2> QED
    BY <1>1, <2>1
<1>3. ASSUME NEW i \in Nat, i + 1 <= N, Good(g[i], i)
      PROVE  Good(g[i + 1], i + 1)
  <2> DEFINE o == observed[i + 1]
  <2>1. i + 1 \in 1 .. N /\ (i + 1) - 1 = i
    BY <1>3, <1>0
  <2>2. g[i + 1] = Observe(g[i], o)
    BY <2>1, <1>1
  <2>3. seen(i + 1) = seen(i) \cup {o.key}
    BY <2>1
  <2>4. o.severity \in SeveritiesOf(observed, o.key)
    BY <2>1, <1>0 DEF SeveritiesOf
  <2> HIDE DEF seen, o
  <2>5. /\ DOMAIN g[i + 1] = DOMAIN g[i] \cup {o.key}
        /\ \A k \in DOMAIN g[i] \ {o.key} : g[i + 1][k] = g[i][k]
        /\ g[i + 1][o.key].severity = o.severity
    <3>1. /\ DOMAIN Observe(g[i], o) = DOMAIN g[i] \cup {o.key}
          /\ \A k \in DOMAIN g[i] \ {o.key} : Observe(g[i], o)[k] = g[i][k]
          /\ Observe(g[i], o)[o.key].severity = o.severity
      BY ObserveDoes, Zenon
    <3> QED
      BY <2>2, <3>1, Zenon
  <2>6. DOMAIN g[i + 1] = DOMAIN table \cup seen(i + 1)
    BY <1>3, <2>3, <2>5
  <2>7. \A k \in DOMAIN table \ seen(i + 1) : g[i + 1][k] = table[k]
    BY <1>3, <2>3, <2>5
  <2>8. \A k \in seen(i + 1) : g[i + 1][k].severity \in SeveritiesOf(observed, k)
    <3> SUFFICES ASSUME NEW k \in seen(i + 1)
                 PROVE  g[i + 1][k].severity \in SeveritiesOf(observed, k)
      OBVIOUS
    <3>1. CASE k = o.key
      BY <2>4, <2>5, <3>1
    <3>2. CASE k # o.key
      BY <1>3, <2>3, <2>5, <3>2
    <3> QED
      BY <3>1, <3>2
  <2> QED
    BY <2>6, <2>7, <2>8
<1> DEFINE P == {i \in Nat : i <= N => Good(g[i], i)}
<1>4. P = Nat
  <2>1. 0 \in P /\ \A i \in P : i + 1 \in P
    <3> HIDE DEF Good
    <3> QED
      BY <1>0, <1>2, <1>3
  <2> HIDE DEF P
  <2>2. P \in SUBSET Nat
    BY DEF P
  <2> QED
    BY <2>1, <2>2, Induction
<1>5. Good(g[N], N)
  <2> HIDE DEF Good
  <2> QED
    BY <1>0, <1>4
<1>6. seen(N) = Keys(observed)
  BY <1>0 DEF Keys
<1> QED
  BY <1>1, <1>5, <1>6

\* The table after a pass: the observed keys and what lies outside the scope.
Reconciled(next, table, observed, scope) ==
  /\ DOMAIN next = Keys(observed) \cup {k \in DOMAIN table : k[1] \notin scope}
  /\ \A k \in DOMAIN next \ Keys(observed) : next[k] = table[k]
  /\ \A k \in Keys(observed) : next[k].severity \in SeveritiesOf(observed, k)

\* Reconcile does that, whatever is observed.
LEMMA ReconciledRows ==
  ASSUME NEW S, NEW observed \in Seq(S), NEW table, NEW scope
  PROVE  Reconciled(Reconcile(table, observed, scope), table, observed, scope)
<1> DEFINE updated == FoldLeft(Observe, table, observed)
           next == Reconcile(table, observed, scope)
<1>1. next = [k \in {j \in DOMAIN updated : j[1] \in scope => j \in Keys(observed)} |-> updated[k]]
  BY DEF Reconcile, Restrict, Keys
<1>2. /\ DOMAIN updated = DOMAIN table \cup Keys(observed)
      /\ \A k \in DOMAIN table \ Keys(observed) : updated[k] = table[k]
      /\ \A k \in Keys(observed) : updated[k].severity \in SeveritiesOf(observed, k)
  BY PassRows
<1> HIDE DEF updated, next
<1>3. DOMAIN next = {j \in DOMAIN updated : j[1] \in scope => j \in Keys(observed)}
  BY <1>1
<1>4. \A k \in DOMAIN next : next[k] = updated[k]
  BY <1>1, <1>3
<1>5. DOMAIN next = Keys(observed) \cup {k \in DOMAIN table : k[1] \notin scope}
  BY <1>2, <1>3
<1> QED
  BY <1>2, <1>4, <1>5 DEF next, Reconciled

\* What is left of it when a collector is reconciled.
OthersKept(next, table, collector, failed) ==
  /\ DOMAIN next = {k \in DOMAIN table : k[1] # collector} \cup (IF failed THEN {<<collector>>} ELSE {})
  /\ \A k \in DOMAIN next \ {<<collector>>} : next[k] = table[k]

\* ReconcileCollector touches no row but that of its collector.
LEMMA ReconciledCollector ==
  ASSUME NEW table, NEW collector, NEW failed \in BOOLEAN
  PROVE  OthersKept(ReconcileCollector(table, collector, failed), table, collector, failed)
<1> DEFINE observed == PushIf(failed, <<collector>>, "warning")
           S == {Observation(<<collector>>, "warning")}
           scope == {collector}
<1>1. observed \in Seq(S) /\ Keys(observed) = IF failed THEN {<<collector>>} ELSE {}
  <2>1. CASE failed
    <3>1. observed = <<Observation(<<collector>>, "warning")>>
      BY <2>1 DEF PushIf
    <3> HIDE DEF observed
    <3>2. observed \in Seq(S) /\ DOMAIN observed = {1}
      BY <3>1
    <3>3. observed[1].key = <<collector>>
      BY <3>1 DEF Observation
    <3> QED
      BY <2>1, <3>2, <3>3 DEF Keys
  <2>2. CASE ~failed
    BY <2>2 DEF PushIf, Keys
  <2> QED
    BY <2>1, <2>2
<1>2. ReconcileCollector(table, collector, failed) = Reconcile(table, observed, scope)
  BY DEF ReconcileCollector
<1> HIDE DEF observed, S, scope
<1>3. Reconciled(Reconcile(table, observed, scope), table, observed, scope)
  BY <1>1, ReconciledRows
<1> QED
  BY <1>1, <1>2, <1>3 DEF scope, Reconciled, OthersKept
\* What is left of the table after a pass of a collector that worked.
Collected(next, table, observed, scope, collector) ==
  /\ DOMAIN next = Keys(observed) \cup {k \in DOMAIN table : k[1] \notin scope /\ k[1] # collector}
  /\ \A k \in DOMAIN next \ Keys(observed) : next[k] = table[k]
  /\ \A k \in Keys(observed) : next[k].severity \in SeveritiesOf(observed, k)

\* A collector that works reconciles its observations, then its own row.
LEMMA CollectedRows ==
  ASSUME NEW S, NEW observed \in Seq(S), NEW table, NEW scope, NEW collector, collector \notin scope,
         \A k \in Keys(observed) : k[1] \in scope
  PROVE  Collected(ReconcileCollector(Reconcile(table, observed, scope), collector, FALSE),
                   table, observed, scope, collector)
<1> DEFINE middle == Reconcile(table, observed, scope)
           next == ReconcileCollector(middle, collector, FALSE)
<1>1. Reconciled(middle, table, observed, scope)
  BY ReconciledRows
<1> HIDE DEF middle
<1>2. /\ DOMAIN next = {k \in DOMAIN middle : k[1] # collector}
      /\ \A k \in DOMAIN next \ {<<collector>>} : next[k] = middle[k]
  <2>1. OthersKept(next, middle, collector, FALSE)
    BY ReconciledCollector
  <2> HIDE DEF next
  <2> QED
    BY <2>1 DEF OthersKept
<1>3. \A k \in DOMAIN next : k # <<collector>>
  <2>1. <<collector>>[1] = collector
    OBVIOUS
  <2> QED
    BY <1>2, <2>1
<1> HIDE DEF next
<1>4. \A k \in Keys(observed) : k \in DOMAIN next
  BY <1>1, <1>2 DEF Reconciled
<1> QED
  BY <1>1, <1>2, <1>3, <1>4 DEF Collected, Reconciled, middle, next

\* Two lists, one after the other, hold what they hold.
LEMMA RangeOfConcat ==
  ASSUME NEW S, NEW s \in Seq(S), NEW t \in Seq(S)
  PROVE  s \o t \in Seq(S) /\ Range(s \o t) = Range(s) \cup Range(t)
<1> DEFINE u == s \o t
<1>1. u \in Seq(S) /\ Len(u) = Len(s) + Len(t)
  OBVIOUS
<1>2. \A i \in 1 .. Len(s) : i \in DOMAIN u /\ u[i] = s[i]
  OBVIOUS
<1>3. \A i \in 1 .. Len(t) : Len(s) + i \in DOMAIN u /\ u[Len(s) + i] = t[i]
  OBVIOUS
<1>4. \A i \in DOMAIN u : i \in 1 .. Len(s) \/ \E j \in 1 .. Len(t) : i = Len(s) + j
  <2> TAKE i \in DOMAIN u
  <2>1. i \in 1 .. Len(s) + Len(t)
    BY <1>1
  <2>2. CASE i > Len(s)
    <3>1. i - Len(s) \in 1 .. Len(t) /\ i = Len(s) + (i - Len(s))
      BY <2>1, <2>2
    <3> QED
      BY <3>1
  <2> QED
    BY <2>1, <2>2
<1>5. DOMAIN s = 1 .. Len(s) /\ DOMAIN t = 1 .. Len(t)
  OBVIOUS
<1> HIDE DEF u
<1>6. Range(u) = Range(s) \cup Range(t)
  BY <1>2, <1>3, <1>4, <1>5 DEF Range
<1> QED
  BY <1>1, <1>6 DEF u

\* What the lists of a list hold.
Elements(lists) == UNION {Range(lists[i]) : i \in DOMAIN lists}

\* A list is flattened by a sequence of lists, each with one more appended.
LEMMA FlattenPrefixes ==
  ASSUME NEW S, NEW lists \in Seq(Seq(S))
  PROVE  \E g : /\ g[0] = <<>>
                /\ \A i \in 1 .. Len(lists) : g[i] = g[i - 1] \o lists[i]
                /\ FlattenSeq(lists) = g[Len(lists)]
<1> DEFINE N == Len(lists)
           Solves(f, n) == f = [i \in 1 .. n |-> IF i = 1 THEN lists[i] ELSE f[i - 1] \o lists[i]]
<1>0. N \in Nat /\ DOMAIN lists = 1 .. N
  OBVIOUS
<1>1. \E f : Solves(f, 0)
  <2>1. 1 .. 0 = {}
    OBVIOUS
  <2>2. Solves([i \in {} |-> <<>>], 0)
    BY <2>1
  <2> QED
    BY <2>2
<1>2. ASSUME NEW n \in Nat, NEW f, Solves(f, n)
      PROVE  \E next : Solves(next, n + 1)
  <2> DEFINE next == [i \in 1 .. n + 1 |->
                        IF i <= n THEN f[i] ELSE IF i = 1 THEN lists[i] ELSE f[i - 1] \o lists[i]]
             Value(h, i) == IF i = 1 THEN lists[i] ELSE h[i - 1] \o lists[i]
  <2>1. ASSUME NEW i \in 1 .. n + 1 PROVE next[i] = Value(next, i)
    <3>1. i = 1 \/ (i - 1 \in 1 .. n /\ i - 1 \in 1 .. n + 1)
      OBVIOUS
    <3>2. i # 1 => next[i - 1] = f[i - 1]
      BY <3>1
    <3>3. CASE i <= n
      <4>1. i \in 1 .. n
        BY <3>3
      <4>2. f[i] = Value(f, i)
        BY <4>1, <1>2
      <4> QED
        BY <4>2, <3>2, <3>3
    <3>4. CASE ~(i <= n)
      BY <3>2, <3>4
    <3> QED
      BY <3>3, <3>4
  <2>2. next = [i \in 1 .. n + 1 |-> Value(next, i)]
    <3> HIDE DEF Value
    <3>1. next = [i \in 1 .. n + 1 |-> next[i]]
      OBVIOUS
    <3> HIDE DEF next
    <3> QED
      BY <2>1, <3>1
  <2> HIDE DEF next
  <2> QED
    BY <2>2
<1>3. \E f : Solves(f, N)
  <2> HIDE DEF Solves
  <2> DEFINE P == {n \in Nat : \E f : Solves(f, n)}
  <2>1. 0 \in P /\ \A n \in P : n + 1 \in P
    BY <1>1, <1>2
  <2>2. P \in SUBSET Nat
    OBVIOUS
  <2> HIDE DEF P
  <2>3. P = Nat
    BY <2>1, <2>2, Induction
  <2> QED
    BY <2>3, <1>0 DEF P
<1> DEFINE flat == CHOOSE f : Solves(f, N)
<1>4. Solves(flat, N)
  <2> HIDE DEF Solves
  <2> QED
    BY <1>3
<1>5. FlattenSeq(lists) = IF N = 0 THEN lists ELSE flat[N]
  BY DEF FlattenSeq
<1> HIDE DEF flat
<1> DEFINE g == [i \in 0 .. N |-> IF i = 0 THEN <<>> ELSE flat[i]]
<1> HIDE DEF N
<1>6. g[0] = <<>> /\ FlattenSeq(lists) = g[N]
  <2>1. N = 0 => lists = <<>>
    BY <1>0 DEF N
  <2> QED
    BY <1>0, <1>5, <2>1
<1>7. ASSUME NEW i \in 1 .. N PROVE g[i] = g[i - 1] \o lists[i]
  <2>1. i \in 0 .. N /\ i - 1 \in 0 .. N /\ i # 0 /\ lists[i] \in Seq(S)
    BY <1>0
  <2>2. flat[i] = IF i = 1 THEN lists[i] ELSE flat[i - 1] \o lists[i]
    BY <1>4
  <2>3. CASE i = 1
    <3>1. g[i - 1] = <<>> /\ g[i] = lists[i]
      BY <2>1, <2>2, <2>3
    <3>2. <<>> \o lists[i] = lists[i]
      BY <2>1
    <3> QED
      BY <3>1, <3>2
  <2>4. CASE i # 1
    <3>1. i - 1 # 0
      BY <2>1, <2>4
    <3>2. g[i] = flat[i] /\ g[i - 1] = flat[i - 1]
      BY <2>1, <3>1
    <3> HIDE DEF g, Solves
    <3> QED
      BY <2>2, <2>4, <3>2
  <2> QED
    BY <2>3, <2>4
<1> HIDE DEF g
<1> QED
  BY <1>6, <1>7 DEF N

\* The flattened list holds what its lists hold.
LEMMA RangeOfFlatten ==
  ASSUME NEW S, NEW lists \in Seq(Seq(S))
  PROVE  FlattenSeq(lists) \in Seq(S) /\ Range(FlattenSeq(lists)) = Elements(lists)
<1> DEFINE N == Len(lists)
           inside(i) == UNION {Range(lists[j]) : j \in 1 .. i}
<1>0. N \in Nat /\ DOMAIN lists = 1 .. N
  OBVIOUS
<1>1. PICK g : /\ g[0] = <<>>
               /\ \A i \in 1 .. N : g[i] = g[i - 1] \o lists[i]
               /\ FlattenSeq(lists) = g[N]
  BY FlattenPrefixes
<1> HIDE DEF N
<1>2. g[0] \in Seq(S) /\ Range(g[0]) = inside(0)
  BY <1>1 DEF Range
<1>3. ASSUME NEW i \in Nat, i + 1 <= N, g[i] \in Seq(S), Range(g[i]) = inside(i)
      PROVE  g[i + 1] \in Seq(S) /\ Range(g[i + 1]) = inside(i + 1)
  <2>1. i + 1 \in 1 .. N /\ (i + 1) - 1 = i
    BY <1>3, <1>0
  <2>2. g[i + 1] = g[i] \o lists[i + 1]
    BY <2>1, <1>1
  <2>2a. lists[i + 1] \in Seq(S)
    BY <2>1, <1>0
  <2>3. inside(i + 1) = inside(i) \cup Range(lists[i + 1])
    <3>1. 1 .. i + 1 = (1 .. i) \cup {i + 1}
      OBVIOUS
    <3> QED
      BY <3>1
  <2> HIDE DEF inside
  <2>4. g[i + 1] \in Seq(S) /\ Range(g[i + 1]) = Range(g[i]) \cup Range(lists[i + 1])
    BY <2>2, <2>2a, <1>3, RangeOfConcat
  <2> QED
    BY <2>3, <2>4, <1>3
<1> DEFINE P == {i \in Nat : i <= N => g[i] \in Seq(S) /\ Range(g[i]) = inside(i)}
<1>4. P = Nat
  <2> HIDE DEF inside
  <2>1. 0 \in P /\ \A i \in P : i + 1 \in P
    BY <1>0, <1>2, <1>3
  <2>2. P \in SUBSET Nat
    OBVIOUS
  <2> HIDE DEF P
  <2> QED
    BY <2>1, <2>2, Induction
<1>5. g[N] \in Seq(S) /\ Range(g[N]) = inside(N)
  <2> HIDE DEF inside
  <2> QED
    BY <1>0, <1>4
<1> QED
  BY <1>0, <1>1, <1>5 DEF Elements

\* One conditional push is a list with that observation, or an empty one.
LEMMA PushedOne ==
  ASSUME NEW S, NEW c \in BOOLEAN, NEW k, NEW v, Observation(k, v) \in S
  PROVE  /\ PushIf(c, k, v) \in Seq(S)
         /\ Range(PushIf(c, k, v)) = IF c THEN {Observation(k, v)} ELSE {}
<1> DEFINE o == Observation(k, v)
<1>1. CASE c
  <2>1. PushIf(c, k, v) = <<o>>
    BY <1>1 DEF PushIf
  <2>2. o \in S
    OBVIOUS
  <2> HIDE DEF o
  <2>3. <<o>> \in Seq(S) /\ DOMAIN <<o>> = {1} /\ <<o>>[1] = o
    BY <2>2
  <2>4. Range(<<o>>) = {o}
    BY <2>3 DEF Range
  <2> QED
    BY <1>1, <2>1, <2>3, <2>4 DEF o
<1>2. CASE ~c
  BY <1>2 DEF PushIf, Range
<1> QED
  BY <1>1, <1>2

\* A row's count, 0 if there is none.
Count(table, k) == IF k \in DOMAIN table THEN table[k].count ELSE 0

\* A row that has reached the confirmation count has been announced.
Counted(row) == row.count \in 0 .. Confirmation /\ (row.count = Confirmation => row.emitted)

\* The rows of a table.
Counts(table) == \A k \in DOMAIN table : Counted(table[k])

\* Where a key is observed.
Places(observed, k) == {i \in DOMAIN observed : observed[i].key = k}

\* An observation adds one to the count of its row and to no other.
LEMMA ObserveCounts ==
  ASSUME NEW table, Counts(table), NEW o
  PROVE  /\ Counts(Observe(table, o))
         /\ Count(Observe(table, o), o.key) = Saturating(Count(table, o.key))
         /\ \A k : k # o.key => Count(Observe(table, o), k) = Count(table, k)
<1> DEFINE next == Observe(table, o)
           old == IF o.key \in DOMAIN table THEN table[o.key] ELSE NewRow
<1>0. Confirmation \in Nat /\ Confirmation >= 1
  BY ConfirmationAssumption
<1>1. old.count = Count(table, o.key) /\ old.count \in 0 .. Confirmation
  BY <1>0 DEF NewRow, Count, Counts, Counted
<1> DEFINE c == Saturating(old.count)
           Row(k) == IF k = o.key
                     THEN [severity |-> o.severity, count |-> c, emitted |-> old.emitted \/ c = Confirmation]
                     ELSE table[k]
<1>2. next = [k \in DOMAIN table \cup {o.key} |-> Row(k)]
  BY DEF Observe
<1>3. c = Saturating(Count(table, o.key)) /\ c \in 0 .. Confirmation
  BY <1>0, <1>1 DEF Saturating
<1>4. Row(o.key).count = c /\ (c = Confirmation => Row(o.key).emitted)
  OBVIOUS
<1>4a. \A k : k # o.key => Row(k) = table[k]
  OBVIOUS
<1> HIDE DEF next, Row, c, old
<1>5. DOMAIN next = DOMAIN table \cup {o.key} /\ \A k \in DOMAIN next : next[k] = Row(k)
  BY <1>2
<1>6. next[o.key].count = c /\ Counted(next[o.key])
  BY <1>3, <1>4, <1>5 DEF Counted
<1>7. \A k \in DOMAIN next : k # o.key => next[k] = table[k] /\ k \in DOMAIN table
  BY <1>4a, <1>5
<1> QED
  BY <1>3, <1>5, <1>6, <1>7 DEF next, Count, Counts

\* A pass adds at least one to the count of an observed key, and at most one for each
\* place at which it is observed.
LEMMA CountedRows ==
  ASSUME NEW S, NEW observed \in Seq(S), NEW table, Counts(table)
  PROVE  LET updated == FoldLeft(Observe, table, observed)
         IN  /\ Counts(updated)
             /\ \A k : /\ Count(updated, k) <= Count(table, k) + Cardinality(Places(observed, k))
                       /\ k \in Keys(observed) => Count(updated, k) >= Saturating(Count(table, k))
<1> DEFINE N == Len(observed)
           places(i, k) == {j \in 1 .. i : observed[j].key = k}
           Good(h, i) ==
             /\ Counts(h)
             /\ \A k : /\ IsFiniteSet(places(i, k))
                       /\ Count(h, k) <= Count(table, k) + Cardinality(places(i, k))
                       /\ Count(h, k) >= Count(table, k)
                       /\ places(i, k) # {} => Count(h, k) >= Saturating(Count(table, k))
<1>0. N \in Nat /\ DOMAIN observed = 1 .. N
  OBVIOUS
<1>c. Confirmation \in Nat /\ Confirmation >= 1
  BY ConfirmationAssumption
<1>1. PICK g : /\ g[0] = table
               /\ \A i \in 1 .. N : g[i] = Observe(g[i - 1], observed[i])
               /\ FoldLeft(Observe, table, observed) = g[N]
  BY ObserveFold
<1> HIDE DEF N
<1>t. \A h : Counts(h) => \A k : Count(h, k) \in 0 .. Confirmation
  BY <1>c DEF Counts, Counted, Count
<1>2. Good(g[0], 0)
  <2>1. \A k : places(0, k) = {}
    OBVIOUS
  <2> HIDE DEF places
  <2>2. IsFiniteSet({}) /\ Cardinality({}) = 0
    BY FS_EmptySet
  <2>3. \A k : Count(table, k) \in 0 .. Confirmation
    BY <1>t
  <2>4. g[0] = table
    BY <1>1
  <2>5. ASSUME NEW k
        PROVE  /\ IsFiniteSet(places(0, k))
               /\ Count(g[0], k) <= Count(table, k) + Cardinality(places(0, k))
               /\ Count(g[0], k) >= Count(table, k)
               /\ places(0, k) # {} => Count(g[0], k) >= Saturating(Count(table, k))
    <3>1. Count(table, k) \in 0 .. Confirmation
      BY <2>3
    <3>2. places(0, k) = {}
      BY <2>1
    <3>3. Count(g[0], k) = Count(table, k)
      BY <2>4
    <3>4. IsFiniteSet(places(0, k)) /\ Cardinality(places(0, k)) = 0
      BY <3>2, <2>2
    <3>5. \A c \in Nat : c <= c + 0
      OBVIOUS
    <3>6. Count(g[0], k) \in Nat
      BY <3>1, <3>3, <1>c
    <3> QED
      BY <3>2, <3>3, <3>4, <3>5, <3>6, <1>c
  <2> QED
    BY <2>4, <2>5
<1>3. ASSUME NEW i \in Nat, i + 1 <= N, Good(g[i], i)
      PROVE  Good(g[i + 1], i + 1)
  <2> DEFINE o == observed[i + 1]
  <2>1. i + 1 \in 1 .. N /\ (i + 1) - 1 = i
    BY <1>3, <1>0
  <2>2. g[i + 1] = Observe(g[i], o)
    BY <2>1, <1>1
  <2>3. \A k : places(i + 1, k) = IF o.key = k THEN places(i, k) \cup {i + 1} ELSE places(i, k)
    BY <2>1
  <2>4. \A k : i + 1 \notin places(i, k)
    OBVIOUS
  <2> HIDE DEF places, o
  <2>5. /\ Counts(g[i + 1])
        /\ Count(g[i + 1], o.key) = Saturating(Count(g[i], o.key))
        /\ \A k : k # o.key => Count(g[i + 1], k) = Count(g[i], k)
    BY <2>2, <1>3, ObserveCounts
  <2>6. ASSUME NEW k
        PROVE  /\ IsFiniteSet(places(i + 1, k))
               /\ Count(g[i + 1], k) <= Count(table, k) + Cardinality(places(i + 1, k))
               /\ Count(g[i + 1], k) >= Count(table, k)
               /\ places(i + 1, k) # {} => Count(g[i + 1], k) >= Saturating(Count(table, k))
    <3>1. Count(table, k) \in 0 .. Confirmation /\ Count(g[i], k) \in 0 .. Confirmation
      BY <1>t, <1>3
    <3>2. IsFiniteSet(places(i, k)) /\ Cardinality(places(i, k)) \in Nat
      BY <1>3, FS_CardinalityType
    <3>3. CASE o.key = k
      <4>1. /\ IsFiniteSet(places(i + 1, k))
            /\ Cardinality(places(i + 1, k)) = Cardinality(places(i, k)) + 1
        <5> DEFINE before == places(i, k)
                   x == i + 1
        <5>1. places(x, k) = before \cup {x} /\ ~(x \in before)
          BY <2>3, <2>4, <3>3
        <5>2. IsFiniteSet(before)
          BY <3>2
        <5> HIDE DEF before, x
        <5> QED
          BY <5>1, <5>2, FS_AddElement DEF before, x
      <4>2. Count(g[i + 1], k) = Saturating(Count(g[i], k))
        BY <2>5, <3>3
      <4>3. Count(g[i], k) <= Count(table, k) + Cardinality(places(i, k)) /\ Count(g[i], k) >= Count(table, k)
        BY <1>3
      <4> QED
        BY <4>1, <4>2, <4>3, <3>1, <3>2, <1>c DEF Saturating
    <3>4. CASE o.key # k
      <4>1. places(i + 1, k) = places(i, k) /\ Count(g[i + 1], k) = Count(g[i], k)
        BY <2>3, <2>5, <3>4
      <4> QED
        BY <4>1, <1>3
    <3> QED
      BY <3>3, <3>4
  <2> QED
    BY <2>5, <2>6
<1> DEFINE P == {i \in Nat : i <= N => Good(g[i], i)}
<1>4. P = Nat
  <2>1. 0 \in P /\ \A i \in P : i + 1 \in P
    <3> HIDE DEF Good
    <3> QED
      BY <1>0, <1>2, <1>3
  <2> HIDE DEF P
  <2>2. P \in SUBSET Nat
    BY DEF P
  <2> QED
    BY <2>1, <2>2, Induction
<1>5. Good(g[N], N)
  <2> HIDE DEF Good
  <2> QED
    BY <1>0, <1>4
<1>6. \A k : places(N, k) = Places(observed, k)
  BY <1>0 DEF Places
<1>7. \A k \in Keys(observed) : Places(observed, k) # {}
  BY DEF Keys, Places
<1> HIDE DEF places
<1> QED
  BY <1>1, <1>5, <1>6, <1>7

\* The same of a whole pass, which also drops rows.
LEMMA CountedPass ==
  ASSUME NEW S, NEW observed \in Seq(S), NEW table, Counts(table), NEW scope,
         NEW collector, collector \notin scope,
         \A k \in Keys(observed) : k[1] \in scope
  PROVE  LET next == ReconcileCollector(Reconcile(table, observed, scope), collector, FALSE)
         IN  /\ Counts(next)
             /\ \A k \in Keys(observed) :
                  /\ Count(next, k) <= Count(table, k) + Cardinality(Places(observed, k))
                  /\ Count(next, k) >= Saturating(Count(table, k))
<1> DEFINE updated == FoldLeft(Observe, table, observed)
           middle == Reconcile(table, observed, scope)
           next == ReconcileCollector(middle, collector, FALSE)
<1>1. /\ Counts(updated)
      /\ \A k : /\ Count(updated, k) <= Count(table, k) + Cardinality(Places(observed, k))
                /\ k \in Keys(observed) => Count(updated, k) >= Saturating(Count(table, k))
  BY CountedRows
<1>2. middle = [k \in {j \in DOMAIN updated : j[1] \in scope => j \in Keys(observed)} |-> updated[k]]
  BY DEF Reconcile, Restrict, Keys
<1>3. DOMAIN updated = DOMAIN table \cup Keys(observed)
  BY PassRows
<1>4. /\ DOMAIN next = {k \in DOMAIN middle : k[1] # collector}
      /\ \A k \in DOMAIN next : next[k] = middle[k]
  <2>1. OthersKept(next, middle, collector, FALSE)
    BY ReconciledCollector
  <2>2. <<collector>>[1] = collector
    OBVIOUS
  <2> HIDE DEF next, middle
  <2>3. DOMAIN next = {k \in DOMAIN middle : k[1] # collector}
    BY <2>1 DEF OthersKept
  <2> QED
    BY <2>1, <2>2, <2>3 DEF OthersKept
<1> HIDE DEF next, middle, updated
<1>5. /\ DOMAIN middle \subseteq DOMAIN updated
      /\ \A k \in DOMAIN middle : middle[k] = updated[k]
      /\ Keys(observed) \subseteq DOMAIN middle
  BY <1>2, <1>3
<1>6. Keys(observed) \subseteq DOMAIN next
  BY <1>4, <1>5
<1>7. \A k \in DOMAIN next : k \in DOMAIN updated /\ next[k] = updated[k]
  BY <1>4, <1>5
<1>8. \A k \in Keys(observed) : Count(next, k) = Count(updated, k)
  BY <1>6, <1>7 DEF Count
<1>9. Counts(next)
  BY <1>1, <1>7 DEF Counts
<1> QED
  BY <1>1, <1>8, <1>9 DEF next, middle

\* The row about the collector counts like any other.
LEMMA CollectorCounts ==
  ASSUME NEW table, Counts(table), NEW collector
  PROVE  Counted(ReconcileCollector(table, collector, TRUE)[<<collector>>])
<1> DEFINE o == Observation(<<collector>>, "warning")
           observed == <<o>>
           updated == FoldLeft(Observe, table, observed)
           next == Reconcile(table, observed, {collector})
           own == <<collector>>
<1>1. ReconcileCollector(table, collector, TRUE) = next
  BY DEF ReconcileCollector, PushIf
<1>2. observed \in Seq({o})
  OBVIOUS
<1>3. Keys(observed) = {own}
  BY DEF Keys, Observation
<1>4. Counts(updated)
  BY <1>2, CountedRows
<1>5. next = [k \in {j \in DOMAIN updated : j[1] \in {collector} => j \in Keys(observed)} |-> updated[k]]
  BY DEF Reconcile, Restrict, Keys
<1>6. DOMAIN updated = DOMAIN table \cup Keys(observed)
  BY <1>2, PassRows
<1> HIDE DEF updated, next, own, observed
<1>7. own \in DOMAIN updated /\ next[own] = updated[own]
  BY <1>3, <1>5, <1>6
<1> QED
  BY <1>1, <1>4, <1>7 DEF own, Counts

\* A collector that fails leaves the counts of all other rows.
LEMMA FailureCounts ==
  ASSUME NEW table, Counts(table), NEW collector
  PROVE  LET next == ReconcileCollector(table, collector, TRUE)
         IN  Counts(next) /\ \A k : k[1] # collector => Count(next, k) = Count(table, k)
<1> DEFINE next == ReconcileCollector(table, collector, TRUE)
           own == <<collector>>
<1>1. OthersKept(next, table, collector, TRUE)
  BY ReconciledCollector
<1>2. /\ DOMAIN next = {k \in DOMAIN table : k[1] # collector} \cup {own}
      /\ \A k \in DOMAIN next \ {own} : next[k] = table[k]
  BY <1>1 DEF OthersKept
<1>3. own[1] = collector
  OBVIOUS
<1>4. Counted(next[own])
  BY CollectorCounts
<1> HIDE DEF next, own
<1>5. Counts(next)
  BY <1>2, <1>4 DEF Counts
<1>6. \A k : k[1] # collector => k # own
  BY <1>3
<1>7. \A k : k[1] # collector => Count(next, k) = Count(table, k)
  BY <1>2, <1>6 DEF Count
<1> QED
  BY <1>5, <1>7 DEF next

-----------------------------------------------------------------------------
(***************************************************************************)
(* Observations.  The readings are whatever the thresholds and sysinfo     *)
(* allow.  SInv says of what the table holds: the rows of a collector that *)
(* works are those of its last reading, with the severity it had there.    *)
(***************************************************************************)

\* The icon of the first line is the last of a sequence of icons, each with one more
\* disk.  (ObserveFold for another operator: the provers cannot instantiate a lemma
\* about all of them.)
LEMMA IconFold ==
  ASSUME NEW S, NEW usages \in Seq(S), NEW base
  PROVE  \E g : /\ g[0] = base
                /\ \A i \in 1 .. Len(usages) : g[i] = NextIcon(g[i - 1], usages[i])
                /\ FoldLeft(NextIcon, base, usages) = g[Len(usages)]
<1> DEFINE N == Len(usages)
           Step(iter, s) == IF s = {} THEN base ELSE NextIcon(iter[s \ {Max(s)}], usages[Max(s)])
           Solves(iter, n) == iter = [s \in SUBSET (1 .. n) |-> Step(iter, s)]
<1>0. N \in Nat /\ DOMAIN usages = 1 .. N
  OBVIOUS
<1>1. \E iter : Solves(iter, 0)
  <2>1. 1 .. 0 = {} /\ SUBSET (1 .. 0) = {{}}
    OBVIOUS
  <2>2. Solves([s \in {{}} |-> base], 0)
    BY <2>1
  <2> QED
    BY <2>2
<1>2. ASSUME NEW n \in Nat, NEW iter, Solves(iter, n)
      PROVE  \E next : Solves(next, n + 1)
  <2> DEFINE next == [s \in SUBSET (1 .. n + 1) |->
                        IF n + 1 \in s THEN NextIcon(iter[s \ {n + 1}], usages[n + 1]) ELSE iter[s]]
  <2>1. ASSUME NEW s \in SUBSET (1 .. n + 1) PROVE next[s] = Step(next, s)
    <3>1. CASE s = {}
      BY <3>1, <1>2
    <3>2. CASE n + 1 \in s
      <4>1. Max(s) = n + 1
        <5>1. n + 1 \in Nat /\ s # {}
          BY <3>2
        <5>2. Max(s) \in s /\ n + 1 <= Max(s)
          BY <3>2, <5>1, Largest
        <5>3. Max(s) \in 1 .. n + 1
          BY <5>2
        <5> QED
          BY <5>2, <5>3
      <4>2. s \ {n + 1} \in SUBSET (1 .. n + 1) /\ n + 1 \notin s \ {n + 1}
        OBVIOUS
      <4>3. next[s \ {n + 1}] = iter[s \ {n + 1}]
        BY <4>2
      <4>4. next[s] = NextIcon(iter[s \ {n + 1}], usages[n + 1])
        BY <3>2
      <4>5. Step(next, s) = NextIcon(next[s \ {n + 1}], usages[n + 1])
        BY <4>1, <3>2
      <4> QED
        BY <4>3, <4>4, <4>5
    <3>3. CASE s # {} /\ n + 1 \notin s
      <4>1. s \in SUBSET (1 .. n)
        BY <3>3
      <4>2. Max(s) \in s
        BY <4>1, <3>3, Largest
      <4>3. s \ {Max(s)} \in SUBSET (1 .. n + 1) /\ n + 1 \notin s \ {Max(s)}
        BY <3>3
      <4>4. next[s \ {Max(s)}] = iter[s \ {Max(s)}]
        BY <4>3
      <4>5. next[s] = iter[s]
        BY <3>3
      <4>6. iter[s] = Step(iter, s)
        BY <1>2, <4>1
      <4> QED
        BY <4>4, <4>5, <4>6, <3>3
    <3> QED
      BY <3>1, <3>2, <3>3
  <2>2. next = [s \in SUBSET (1 .. n + 1) |-> Step(next, s)]
    <3> HIDE DEF Step
    <3>1. next = [s \in SUBSET (1 .. n + 1) |-> next[s]]
      OBVIOUS
    <3> HIDE DEF next
    <3> QED
      BY <2>1, <3>1
  <2> HIDE DEF next
  <2> QED
    BY <2>2
<1>3. \E iter : Solves(iter, N)
  <2> HIDE DEF Solves
  <2> DEFINE P == {n \in Nat : \E iter : Solves(iter, n)}
  <2>1. 0 \in P /\ \A n \in P : n + 1 \in P
    BY <1>1, <1>2
  <2> HIDE DEF P
  <2>2. P = Nat
    <3>1. P \in SUBSET Nat
      BY DEF P
    <3> QED
      BY <2>1, <3>1, Induction
  <2> QED
    BY <2>2, <1>0 DEF P
<1> DEFINE Iter == CHOOSE iter : Solves(iter, N)
<1>4. Solves(Iter, N)
  <2> HIDE DEF Solves
  <2> QED
    BY <1>3
<1>5. FoldLeft(NextIcon, base, usages) = Iter[1 .. N]
  BY <1>0 DEF FoldLeft, MapThenFoldSet
<1> DEFINE g == [i \in 0 .. N |-> Iter[1 .. i]]
<1> HIDE DEF Step
<1>6. g[0] = base /\ g[N] = Iter[1 .. N]
  <2>1. 1 .. 0 = {} /\ {} \in SUBSET (1 .. N)
    OBVIOUS
  <2>2. Iter[{}] = base
    BY <1>4, <2>1 DEF Step
  <2>3. 0 \in 0 .. N /\ N \in 0 .. N
    BY <1>0
  <2> HIDE DEF N
  <2> QED
    BY <2>1, <2>2, <2>3
<1>7. ASSUME NEW i \in 1 .. N PROVE g[i] = NextIcon(g[i - 1], usages[i])
  <2> HIDE DEF N
  <2>1. 1 .. i \in SUBSET (1 .. N) /\ 1 .. i # {} /\ i \in Nat /\ i - 1 \in 0 .. N /\ i \in 0 .. N
    BY <1>0
  <2>2. Max(1 .. i) = i
    <3>0. \E T \in SUBSET (1 .. i) : T = 1 .. i
      OBVIOUS
    <3>1. Max(1 .. i) \in 1 .. i /\ \A m \in 1 .. i : m <= Max(1 .. i)
      BY <2>1, <3>0, Largest
    <3> QED
      BY <3>1, <2>1
  <2>3. (1 .. i) \ {i} = 1 .. (i - 1)
    BY <2>1
  <2>4. Iter[1 .. i] = Step(Iter, 1 .. i)
    BY <2>1, <1>4
  <2>5. Step(Iter, 1 .. i) = NextIcon(Iter[1 .. (i - 1)], usages[i])
    BY <2>1, <2>2, <2>3 DEF Step
  <2>6. g[i] = Iter[1 .. i] /\ g[i - 1] = Iter[1 .. (i - 1)]
    BY <2>1
  <2> QED
    BY <2>4, <2>5, <2>6
<1> HIDE DEF g
<1> QED
  BY <1>5, <1>6, <1>7

\* The icons of a row.
Icons == {"healthy", "warning", "critical"}

\* The early exit of the loop over the disks makes no difference: the icon is the
\* worst of all.
LEMMA IconsOfFold ==
  ASSUME NEW usages \in Seq(Nat), NEW base \in {"healthy", "warning"}
  PROVE  FoldLeft(NextIcon, base, usages) = Worst({base} \cup {DiskIcon(usages[i]) : i \in DOMAIN usages})
<1> DEFINE N == Len(usages)
           shown(i) == {base} \cup {DiskIcon(usages[j]) : j \in 1 .. i}
<1>0. N \in Nat /\ DOMAIN usages = 1 .. N
  OBVIOUS
<1>1. PICK g : /\ g[0] = base
               /\ \A i \in 1 .. N : g[i] = NextIcon(g[i - 1], usages[i])
               /\ FoldLeft(NextIcon, base, usages) = g[N]
  BY IconFold
<1> HIDE DEF N
<1>2. g[0] = Worst(shown(0))
  <2>1. shown(0) = {base}
    OBVIOUS
  <2> HIDE DEF shown
  <2> QED
    BY <1>1, <2>1 DEF Worst
<1>3. ASSUME NEW i \in Nat, i + 1 <= N, g[i] = Worst(shown(i))
      PROVE  g[i + 1] = Worst(shown(i + 1))
  <2>1. i + 1 \in 1 .. N /\ (i + 1) - 1 = i
    BY <1>3, <1>0
  <2>2. g[i + 1] = NextIcon(Worst(shown(i)), usages[i + 1])
    BY <2>1, <1>1, <1>3
  <2>3. shown(i + 1) = shown(i) \cup {DiskIcon(usages[i + 1])}
    BY <2>1
  <2>4. DiskIcon(usages[i + 1]) \in Icons
    BY DEF DiskIcon, ResourceIcon, Icons
  <2>5. shown(i) \subseteq Icons /\ shown(i) # {}
    BY DEF DiskIcon, ResourceIcon, Icons
  <2> HIDE DEF shown
  <2> QED
    BY <2>2, <2>3, <2>4, <2>5 DEF NextIcon, Worst, Icons
<1> DEFINE P == {i \in Nat : i <= N => g[i] = Worst(shown(i))}
<1>4. P = Nat
  <2> HIDE DEF shown
  <2>1. 0 \in P /\ \A i \in P : i + 1 \in P
    BY <1>0, <1>2, <1>3
  <2>2. P \in SUBSET Nat
    OBVIOUS
  <2> HIDE DEF P
  <2> QED
    BY <2>1, <2>2, Induction
<1>5. g[N] = Worst(shown(N))
  <2> HIDE DEF shown
  <2> QED
    BY <1>0, <1>4
<1> QED
  BY <1>0, <1>1, <1>5

\* Every reading of these disks, at the thresholds or not.
Readings ==
  [cpu : Nat, load : Nat, memory : Nat, swap : [used : Nat, total : Nat],
   disks : {d \in [DOMAIN Mounts -> Nat] :
              \A i, j \in DOMAIN Mounts : Mounts[i] = Mounts[j] => d[i] = d[j]}]

\* The disks are listed.
LEMMA MountsListed == Len(Mounts) \in Nat /\ DOMAIN Mounts = 1 .. Len(Mounts)
  BY ReadingsAssumption

\* A percentage is a natural number, of nothing too.
LEMMA PercentType == ASSUME NEW used \in Nat, NEW total \in Nat PROVE Percent(used, total) \in Nat
  BY DEF Percent

\* So is the usage of a disk.
LEMMA UsageType ==
  ASSUME NEW s \in Readings, NEW i \in DOMAIN Mounts
  PROVE  DiskUsage(s, i) \in Nat
<1>1. s.disks[i] \in Nat
  BY DEF Readings
<1> QED
  BY <1>1, PercentType DEF DiskUsage

\* The resources, other than disks, over their thresholds.
Warned(s) ==
  (IF s.cpu >= CpuWarning THEN {<<"system", "cpu">>} ELSE {})
  \cup (IF s.load >= LoadWarning THEN {<<"system", "load">>} ELSE {})
  \cup (IF MemoryHigh(s) THEN {<<"system", "memory">>} ELSE {})
  \cup (IF SwapHigh(s) /\ MemoryHigh(s) THEN {<<"system", "swap_pressure">>} ELSE {})

\* The key of a disk, and the disks over their threshold.
DiskKey(i) == <<"disk", Mounts[i]>>
Full(s) == {i \in DOMAIN Mounts : DiskUsage(s, i) >= DiskWarning}

\* What is observed, as a set.
Observed(s) ==
  {Observation(k, "warning") : k \in Warned(s)}
  \cup {Observation(DiskKey(i), DiskIcon(DiskUsage(s, i))) : i \in Full(s)}

\* What observe_system may push.
SystemObservations == {Observation(k, v) : k \in SystemKeys, v \in {"warning", "critical"}}

\* A disk over its threshold is observed, with the severity of its icon.
LEMMA ObservedDisk ==
  ASSUME NEW s \in Readings, NEW i \in DOMAIN Mounts
  PROVE  /\ ObserveDisk(s, i) \in Seq(SystemObservations)
         /\ Range(ObserveDisk(s, i)) = IF i \in Full(s)
                                       THEN {Observation(DiskKey(i), DiskIcon(DiskUsage(s, i)))} ELSE {}
<1> DEFINE c == DiskUsage(s, i) >= DiskWarning
           v == IF DiskUsage(s, i) >= 95 THEN "critical" ELSE "warning"
<1>1. DiskKey(i) \in SystemKeys /\ v \in {"warning", "critical"} /\ c \in BOOLEAN
  BY DEF SystemKeys, DiskKey
<1>2. Observation(DiskKey(i), v) \in SystemObservations
  BY <1>1 DEF SystemObservations
<1>3. ObserveDisk(s, i) = PushIf(c, DiskKey(i), v)
  BY DEF ObserveDisk, DiskKey
<1>4. c <=> i \in Full(s)
  BY DEF Full
<1>5. i \in Full(s) => v = DiskIcon(DiskUsage(s, i))
  BY DEF Full, DiskIcon, ResourceIcon
<1> HIDE DEF c, v
<1> QED
  BY <1>1, <1>2, <1>3, <1>4, <1>5, PushedOne

\* One of the warnings of observe_system.
LEMMA WarningPushed ==
  ASSUME NEW c \in BOOLEAN, NEW k \in SystemKeys
  PROVE  /\ PushIf(c, k, "warning") \in Seq(SystemObservations)
         /\ Range(PushIf(c, k, "warning")) = IF c THEN {Observation(k, "warning")} ELSE {}
<1>1. Observation(k, "warning") \in SystemObservations
  BY DEF SystemObservations
<1> QED
  BY <1>1, PushedOne

\* observe_system observes exactly this.
LEMMA ObservedSystem ==
  ASSUME NEW s \in Readings
  PROVE  ObserveSystem(s) \in Seq(SystemObservations) /\ Range(ObserveSystem(s)) = Observed(s)
<1> DEFINE S == SystemObservations
           one(k) == Observation(k, "warning")
           cpu == PushIf(s.cpu >= CpuWarning, <<"system", "cpu">>, "warning")
           load == PushIf(s.load >= LoadWarning, <<"system", "load">>, "warning")
           memory == PushIf(MemoryHigh(s), <<"system", "memory">>, "warning")
           swap == PushIf(SwapHigh(s) /\ MemoryHigh(s), <<"system", "swap_pressure">>, "warning")
           lists == [i \in DOMAIN s.disks |-> ObserveDisk(s, i)]
           disks == FlattenSeq(lists)
<1>1. \A r \in {"cpu", "load", "memory", "swap_pressure"} : <<"system", r>> \in SystemKeys
  BY DEF SystemKeys
<1>2. cpu \in Seq(S) /\ Range(cpu) = IF s.cpu >= CpuWarning THEN {one(<<"system", "cpu">>)} ELSE {}
  <2>1. (s.cpu >= CpuWarning) \in BOOLEAN
    BY DEF MemoryHigh
  <2> QED
    BY <1>1, <2>1, WarningPushed
<1>3. load \in Seq(S) /\ Range(load) = IF s.load >= LoadWarning THEN {one(<<"system", "load">>)} ELSE {}
  <2>1. (s.load >= LoadWarning) \in BOOLEAN
    BY DEF MemoryHigh
  <2> QED
    BY <1>1, <2>1, WarningPushed
<1>4. memory \in Seq(S) /\ Range(memory) = IF MemoryHigh(s) THEN {one(<<"system", "memory">>)} ELSE {}
  <2>1. (MemoryHigh(s)) \in BOOLEAN
    BY DEF MemoryHigh
  <2> QED
    BY <1>1, <2>1, WarningPushed
<1>5. swap \in Seq(S) /\ Range(swap) = IF SwapHigh(s) /\ MemoryHigh(s) THEN {one(<<"system", "swap_pressure">>)} ELSE {}
  <2>1. (SwapHigh(s) /\ MemoryHigh(s)) \in BOOLEAN
    BY DEF MemoryHigh
  <2> QED
    BY <1>1, <2>1, WarningPushed
<1>6. disks \in Seq(S)
      /\ Range(disks) = {Observation(DiskKey(i), DiskIcon(DiskUsage(s, i))) : i \in Full(s)}
  <2>1. DOMAIN lists = 1 .. Len(Mounts) /\ DOMAIN lists = DOMAIN Mounts
    BY MountsListed DEF Readings
  <2>2. \A i \in DOMAIN lists : lists[i] \in Seq(S)
    BY <2>1, ObservedDisk
  <2>3. lists \in Seq(Seq(S))
    <3> HIDE DEF S
    <3>1. lists \in [1 .. Len(Mounts) -> Seq(S)]
      BY <2>1, <2>2
    <3> HIDE DEF lists
    <3> QED
      BY <3>1, MountsListed, IsASeq
  <2>4. \A i \in DOMAIN Mounts : Range(lists[i]) =
          IF i \in Full(s) THEN {Observation(DiskKey(i), DiskIcon(DiskUsage(s, i)))} ELSE {}
    BY <2>1, ObservedDisk
  <2> HIDE DEF lists, S
  <2>5. disks \in Seq(S) /\ Range(disks) = Elements(lists)
    BY <2>3, RangeOfFlatten
  <2>6. Elements(lists) = {Observation(DiskKey(i), DiskIcon(DiskUsage(s, i))) : i \in Full(s)}
    BY <2>1, <2>4 DEF Elements, Full
  <2> QED
    BY <2>5, <2>6
<1> DEFINE two == cpu \o load
           three == two \o memory
           four == three \o swap
<1>7. ObserveSystem(s) = four \o disks
  BY DEF ObserveSystem
<1> HIDE DEF cpu, load, memory, swap, disks, S
<1>8. two \in Seq(S) /\ Range(two) = Range(cpu) \cup Range(load)
  BY <1>2, <1>3, RangeOfConcat
<1> HIDE DEF two
<1>9. three \in Seq(S) /\ Range(three) = Range(two) \cup Range(memory)
  BY <1>8, <1>4, RangeOfConcat
<1> HIDE DEF three
<1>10. four \in Seq(S) /\ Range(four) = Range(three) \cup Range(swap)
  BY <1>9, <1>5, RangeOfConcat
<1> HIDE DEF four
<1>11. /\ ObserveSystem(s) \in Seq(S)
       /\ Range(ObserveSystem(s)) = Range(four) \cup Range(disks)
  BY <1>10, <1>6, <1>7, RangeOfConcat
<1>12. {one(k) : k \in Warned(s)} = Range(cpu) \cup Range(load) \cup Range(memory) \cup Range(swap)
  <2> HIDE DEF one
  <2> QED
    BY <1>2, <1>3, <1>4, <1>5 DEF Warned
<1> QED
  BY <1>6, <1>8, <1>9, <1>10, <1>11, <1>12 DEF Observed, S

\* The icons of the disks.
DiskIcons(s) == {DiskIcon(DiskUsage(s, i)) : i \in DOMAIN Mounts}

\* Keys and severities depend only on what is in the list.
LEMMA ObservedSets ==
  ASSUME NEW S, NEW observed \in Seq(S)
  PROVE  /\ Severities(observed) = {o.severity : o \in Range(observed)}
         /\ Keys(observed) = {o.key : o \in Range(observed)}
         /\ \A k : SeveritiesOf(observed, k) = {o.severity : o \in {p \in Range(observed) : p.key = k}}
         /\ observed = <<>> <=> Range(observed) = {}
  BY DEF Severities, Keys, SeveritiesOf, Range

\* The icon of the system screen is the worst of resources and disks.
LEMMA OverallIcon ==
  ASSUME NEW s \in Readings
  PROVE  Overall(s) = Worst({ResourcesIcon(s)} \cup DiskIcons(s))
<1> DEFINE usages == [i \in DOMAIN s.disks |-> DiskUsage(s, i)]
<1>1. DOMAIN s.disks = DOMAIN Mounts /\ DOMAIN s.disks = 1 .. Len(Mounts)
  BY MountsListed DEF Readings
<1>2. usages \in Seq(Nat)
  BY <1>1, MountsListed, UsageType, IsASeq
<1>3. ResourcesIcon(s) \in {"healthy", "warning"}
  BY DEF ResourcesIcon, ResourceIcon
<1>4. {DiskIcon(usages[i]) : i \in DOMAIN usages} = DiskIcons(s)
  BY <1>1 DEF DiskIcons
<1>5. Overall(s) = FoldLeft(NextIcon, ResourcesIcon(s), usages)
  BY DEF Overall
<1> HIDE DEF usages
<1> QED
  BY <1>2, <1>3, <1>4, <1>5, IconsOfFold

\* The keys and the severities of a system reading.
LEMMA ObservedSeverities ==
  ASSUME NEW s \in Readings
  PROVE  /\ Severities(ObserveSystem(s))
              = {"warning" : k \in Warned(s)} \cup {DiskIcon(DiskUsage(s, i)) : i \in Full(s)}
         /\ Keys(ObserveSystem(s)) = Warned(s) \cup {DiskKey(i) : i \in Full(s)}
         /\ ObserveSystem(s) = <<>> <=> Warned(s) = {} /\ Full(s) = {}
<1>1. ObserveSystem(s) \in Seq(SystemObservations) /\ Range(ObserveSystem(s)) = Observed(s)
  BY ObservedSystem
<1>2. /\ Severities(ObserveSystem(s)) = {o.severity : o \in Observed(s)}
      /\ Keys(ObserveSystem(s)) = {o.key : o \in Observed(s)}
      /\ ObserveSystem(s) = <<>> <=> Observed(s) = {}
  BY <1>1, ObservedSets
<1> DEFINE warned(k) == Observation(k, "warning")
           full(i) == Observation(DiskKey(i), DiskIcon(DiskUsage(s, i)))
           icon(i) == DiskIcon(DiskUsage(s, i))
<1>3. /\ \A k : warned(k).key = k /\ warned(k).severity = "warning"
      /\ \A i : full(i).key = DiskKey(i) /\ full(i).severity = icon(i)
  BY DEF Observation
<1>4. Observed(s) = {warned(k) : k \in Warned(s)} \cup {full(i) : i \in Full(s)}
  BY DEF Observed
<1> HIDE DEF warned, full, icon
<1>5. {o.severity : o \in Observed(s)} = {"warning" : k \in Warned(s)} \cup {icon(i) : i \in Full(s)}
  BY <1>3, <1>4
<1>6. {o.key : o \in Observed(s)} = Warned(s) \cup {DiskKey(i) : i \in Full(s)}
  BY <1>3, <1>4
<1>7. Observed(s) = {} <=> Warned(s) = {} /\ Full(s) = {}
  BY <1>4
<1> QED
  BY <1>2, <1>5, <1>6, <1>7 DEF icon

\* The resources are yellow when there is an observation of one.
LEMMA WarnedIcon ==
  ASSUME NEW s \in Readings
  PROVE  ResourcesIcon(s) = IF Warned(s) = {} THEN "healthy" ELSE "warning"
  BY DEF ResourcesIcon, ResourceIcon, Warned

\* A disk is not green when it is observed; and when it is not, then it is green, but
\* for those between the fixed 95 and a warning threshold above it.
LEMMA FullIcons ==
  ASSUME NEW s \in Readings
  PROVE  /\ Unobserved(s) \subseteq DOMAIN Mounts \ Full(s)
         /\ \A i \in Full(s) : DiskIcon(DiskUsage(s, i)) \in {"warning", "critical"}
         /\ \A i \in Unobserved(s) : DiskIcon(DiskUsage(s, i)) = "critical"
         /\ \A i \in DOMAIN Mounts \ (Full(s) \cup Unobserved(s)) : DiskIcon(DiskUsage(s, i)) = "healthy"
<1>1. \A i \in DOMAIN Mounts : DiskUsage(s, i) \in Nat
  BY UsageType
<1>2. DiskWarning \in Nat
  BY ConfigAssumption
<1> QED
  BY <1>1, <1>2 DEF Full, Unobserved, DiskIcon, ResourceIcon

\* Green makes nothing worse.
LEMMA WorstOfSome ==
  ASSUME NEW A \in SUBSET {"warning", "critical"}, NEW B, A \subseteq B, B \subseteq A \cup {"healthy"}
  PROVE  Worst(B) = Worst(A)
<1>1. CASE "critical" \in A
  BY <1>1 DEF Worst
<1>2. CASE "critical" \notin A /\ A # {}
  <2>1. "warning" \in A /\ "warning" \in B /\ "critical" \notin B
    BY <1>2
  <2> QED
    BY <1>2, <2>1 DEF Worst
<1>3. CASE A = {}
  <2>1. B = {} \/ B = {"healthy"}
    BY <1>3
  <2> QED
    BY <1>3, <2>1 DEF Worst
<1> QED
  BY <1>1, <1>2, <1>3

\* What is red and not observed.
LEMMA MissingCritical ==
  ASSUME NEW s \in Readings
  PROVE  Missing(s, SystemKeys) = IF Unobserved(s) = {} THEN {} ELSE {"critical"}
<1>1. \A i \in Unobserved(s) : <<"disk", Mounts[i]>> \in SystemKeys
  BY DEF Unobserved, SystemKeys
<1> QED
  BY <1>1 DEF Missing

\* The first line of the system screen tells the observations and what they miss; the
\* server line of the digest tells the observations.
LEMMA OverallTells ==
  ASSUME NEW s \in Readings
  PROVE  /\ Overall(s) = Worst(Severities(ObserveSystem(s)) \cup Missing(s, SystemKeys))
         /\ DigestServer(s) = Worst(Severities(ObserveSystem(s)))
<1> DEFINE warnings == {"warning" : k \in Warned(s)}
           full == {DiskIcon(DiskUsage(s, i)) : i \in Full(s)}
           missing == Missing(s, SystemKeys)
           resources == ResourcesIcon(s)
           icons == DiskIcons(s)
           observed == ObserveSystem(s)
<1>1. Overall(s) = Worst({resources} \cup icons)
  BY OverallIcon
<1>2. Severities(observed) = warnings \cup full /\ (observed = <<>> <=> Warned(s) = {} /\ Full(s) = {})
  BY ObservedSeverities
<1>3. warnings = IF Warned(s) = {} THEN {} ELSE {"warning"}
  OBVIOUS
<1>4. resources = IF Warned(s) = {} THEN "healthy" ELSE "warning"
  BY WarnedIcon
<1>5. full \subseteq {"warning", "critical"} /\ (full = {} <=> Full(s) = {})
  BY FullIcons
<1>6. icons \subseteq full \cup missing \cup {"healthy"} /\ full \cup missing \subseteq icons
  <2>1. missing = IF Unobserved(s) = {} THEN {} ELSE {"critical"}
    BY MissingCritical
  <2>2. Full(s) \subseteq DOMAIN Mounts /\ Unobserved(s) \subseteq DOMAIN Mounts
    BY DEF Full, Unobserved
  <2> DEFINE icon(i) == DiskIcon(DiskUsage(s, i))
  <2>3. /\ \A i \in Unobserved(s) : icon(i) = "critical"
        /\ \A i \in DOMAIN Mounts \ (Full(s) \cup Unobserved(s)) : icon(i) = "healthy"
    BY FullIcons
  <2>4. icons = {icon(i) : i \in DOMAIN Mounts} /\ full = {icon(i) : i \in Full(s)}
    BY DEF DiskIcons
  <2> HIDE DEF icon, icons, full, missing
  <2> QED
    BY <2>1, <2>2, <2>3, <2>4
<1>7. missing \subseteq {"critical"}
  BY MissingCritical
<1>8. DigestServer(s) = IF "critical" \in Severities(observed) THEN "critical"
                        ELSE ResourceIcon(observed # <<>>)
  BY DEF DigestServer
<1> HIDE DEF warnings, full, missing, resources, icons, observed
<1>9. Overall(s) = Worst(Severities(observed) \cup missing)
  <2> DEFINE A == warnings \cup full \cup missing
             B == {resources} \cup icons
  <2>1. A \in SUBSET {"warning", "critical"} /\ A \subseteq B /\ B \subseteq A \cup {"healthy"}
    BY <1>3, <1>4, <1>5, <1>6, <1>7
  <2> HIDE DEF A, B
  <2>2. Worst(B) = Worst(A)
    BY <2>1, WorstOfSome
  <2> QED
    BY <1>1, <1>2, <2>2 DEF A, B
<1>10. DigestServer(s) = Worst(Severities(observed))
  <2>1. /\ Severities(observed) \subseteq {"warning", "critical"}
        /\ observed = <<>> <=> Severities(observed) = {}
    BY <1>2, <1>3, <1>5
  <2> QED
    BY <1>8, <2>1 DEF Worst, ResourceIcon
<1> QED
  BY <1>9, <1>10 DEF missing, observed

\* One of finitely many numbers is the largest.
LEMMA HasLargest ==
  ASSUME NEW n \in Nat \ {0}, NEW u \in [1 .. n -> Nat]
  PROVE  \E j \in 1 .. n : \A k \in 1 .. n : u[k] <= u[j]
<1> DEFINE P == {i \in Nat : i + 1 <= n => \E j \in 1 .. i + 1 : \A k \in 1 .. i + 1 : u[k] <= u[j]}
<1>1. 0 \in P
  OBVIOUS
<1>2. ASSUME NEW i \in P PROVE i + 1 \in P
  <2> SUFFICES ASSUME i + 2 <= n PROVE \E j \in 1 .. i + 2 : \A k \in 1 .. i + 2 : u[k] <= u[j]
    OBVIOUS
  <2>1. PICK j \in 1 .. i + 1 : \A k \in 1 .. i + 1 : u[k] <= u[j]
    OBVIOUS
  <2>2. \A k \in 1 .. i + 2 : k \in 1 .. i + 1 \/ k = i + 2
    OBVIOUS
  <2>3. u[i + 2] \in Nat /\ \A k \in 1 .. i + 1 : u[k] \in Nat
    OBVIOUS
  <2>4. CASE u[i + 2] <= u[j]
    <3>1. j \in 1 .. i + 2
      OBVIOUS
    <3>2. \A k \in 1 .. i + 2 : u[k] <= u[j]
      BY <2>1, <2>2, <2>4
    <3> QED
      BY <3>1, <3>2
  <2>5. CASE u[j] < u[i + 2]
    <3>1. i + 2 \in 1 .. i + 2
      OBVIOUS
    <3>2. \A k \in 1 .. i + 2 : u[k] <= u[i + 2]
      <4> SUFFICES ASSUME NEW k \in 1 .. i + 2 PROVE u[k] <= u[i + 2]
        OBVIOUS
      <4>1. CASE k = i + 2
        BY <2>3, <4>1
      <4>2. CASE k \in 1 .. i + 1
        <5>1. u[k] <= u[j] /\ u[k] \in Nat /\ u[j] \in Nat
          BY <2>1, <2>3, <4>2
        <5> QED
          BY <2>3, <2>5, <5>1
      <4> QED
        BY <2>2, <4>1, <4>2
    <3> QED
      BY <3>1, <3>2
  <2> QED
    BY <2>1, <2>3, <2>4, <2>5
<1>3. P \in SUBSET Nat
  OBVIOUS
<1>4. P = Nat
  <2> HIDE DEF P
  <2> QED
    BY <1>1, <1>2, <1>3, Induction
<1>5. n - 1 \in P /\ (n - 1) + 1 = n
  <2> HIDE DEF P
  <2> QED
    BY <1>4
<1> QED
  BY <1>5

\* The disk line of the digest, which picks the fullest disk, has the worst icon.
LEMMA DiskLineTells ==
  ASSUME NEW s \in Readings
  PROVE  DigestDisk(s) = IF Mounts = <<>> THEN {} ELSE {Worst(DiskIcons(s))}
<1> DEFINE n == Len(Mounts)
           u == [i \in DOMAIN Mounts |-> DiskUsage(s, i)]
           largest == {j \in DOMAIN Mounts : \A k \in DOMAIN Mounts : u[k] <= u[j]}
<1>1. n \in Nat /\ DOMAIN Mounts = 1 .. n /\ DOMAIN s.disks = DOMAIN Mounts
  BY MountsListed DEF Readings
<1>2. u \in [1 .. n -> Nat]
  BY <1>1, UsageType
<1>3. DigestDisk(s) = {DiskIcon(u[i]) : i \in largest}
  BY <1>1 DEF DigestDisk
<1>4. DiskIcons(s) = {DiskIcon(u[i]) : i \in 1 .. n}
  BY <1>1 DEF DiskIcons
<1>5. CASE Mounts = <<>>
  <2>1. DOMAIN Mounts = {}
    BY <1>5
  <2> QED
    BY <1>3, <1>5, <2>1
<1>6. CASE Mounts # <<>>
  <2>1. n # 0
    BY <1>1, <1>6, ReadingsAssumption
  <2> HIDE DEF u, n
  <2>2. PICK j \in 1 .. n : \A k \in 1 .. n : u[k] <= u[j]
    BY <2>1, <1>1, <1>2, HasLargest
  <2>3. j \in largest
    BY <2>2, <1>1
  <2>4. DiskWarning \in Nat
    BY ConfigAssumption
  <2>5. ASSUME NEW i \in largest PROVE DiskIcon(u[i]) = Worst(DiskIcons(s))
    <3>1. i \in 1 .. n /\ \A k \in 1 .. n : u[k] <= u[i]
      BY <1>1
    <3>2. \A k \in 1 .. n : u[k] \in Nat
      BY <1>2
    <3>3. DiskIcon(u[i]) \in DiskIcons(s) /\ DiskIcon(u[i]) \in Icons
      BY <1>4, <3>1 DEF DiskIcon, ResourceIcon, Icons
    <3>4. DiskIcon(u[i]) = "healthy" => \A k \in 1 .. n : DiskIcon(u[k]) = "healthy"
      BY <3>1, <3>2, <2>4 DEF DiskIcon, ResourceIcon
    <3>5. DiskIcon(u[i]) = "warning" => \A k \in 1 .. n : DiskIcon(u[k]) # "critical"
      BY <3>1, <3>2, <2>4 DEF DiskIcon, ResourceIcon
    <3>6. DiskIcon(u[i]) = "healthy" => DiskIcons(s) = {"healthy"}
      BY <3>3, <3>4, <1>4
    <3>7. DiskIcon(u[i]) = "warning" => "critical" \notin DiskIcons(s)
      BY <3>5, <1>4
    <3> QED
      BY <3>3, <3>6, <3>7 DEF Worst, Icons
  <2> QED
    BY <1>3, <1>6, <2>3, <2>5
<1> QED
  BY <1>5, <1>6

\* A mount point that is listed twice has one usage.
LEMMA SameMount ==
  ASSUME NEW s \in Readings, NEW i \in DOMAIN Mounts, NEW j \in DOMAIN Mounts, Mounts[i] = Mounts[j]
  PROVE  DiskUsage(s, i) = DiskUsage(s, j)
  BY DEF Readings, DiskUsage

\* The observations of one key, in a system reading.
LEMMA SeveritiesByKey ==
  ASSUME NEW s \in Readings
  PROVE  /\ \A k \in Warned(s) : SeveritiesOf(ObserveSystem(s), k) = {"warning"}
         /\ \A i \in Full(s) : SeveritiesOf(ObserveSystem(s), DiskKey(i)) = {DiskIcon(DiskUsage(s, i))}
         /\ \A k \in SystemKeys \ Keys(ObserveSystem(s)) : SeveritiesOf(ObserveSystem(s), k) = {}
<1> DEFINE observed == ObserveSystem(s)
           warned(k) == Observation(k, "warning")
           icon(i) == DiskIcon(DiskUsage(s, i))
           full(i) == Observation(DiskKey(i), icon(i))
<1>1. observed \in Seq(SystemObservations) /\ Range(observed) = Observed(s)
  BY ObservedSystem
<1>2. \A k : SeveritiesOf(observed, k) = {o.severity : o \in {p \in Observed(s) : p.key = k}}
  BY <1>1, ObservedSets
<1>3. /\ \A k : warned(k).key = k /\ warned(k).severity = "warning"
      /\ \A i : full(i).key = DiskKey(i) /\ full(i).severity = icon(i)
  BY DEF Observation
<1>4. Observed(s) = {warned(k) : k \in Warned(s)} \cup {full(i) : i \in Full(s)}
  BY DEF Observed
<1>5. Warned(s) \subseteq {<<"system", "cpu">>, <<"system", "load">>, <<"system", "memory">>, <<"system", "swap_pressure">>}
  BY DEF Warned
<1>6. \A i \in Full(s) : DiskKey(i) \notin Warned(s)
  BY <1>5 DEF DiskKey
<1>7. \A i, j \in Full(s) : DiskKey(i) = DiskKey(j) => icon(i) = icon(j)
  BY SameMount DEF DiskKey, Full
<1>8. Keys(observed) = Warned(s) \cup {DiskKey(i) : i \in Full(s)}
  BY ObservedSeverities
<1> HIDE DEF observed, warned, full, icon
<1>9. \A k \in Warned(s) : SeveritiesOf(observed, k) = {"warning"}
  BY <1>2, <1>3, <1>4, <1>6
<1>10. ASSUME NEW i \in Full(s) PROVE SeveritiesOf(observed, DiskKey(i)) = {icon(i)}
  <2>1. full(i) \in {p \in Observed(s) : p.key = DiskKey(i)}
    BY <1>3, <1>4
  <2>2. \A o \in {p \in Observed(s) : p.key = DiskKey(i)} : o.severity = icon(i)
    BY <1>3, <1>4, <1>6, <1>7
  <2> QED
    BY <1>2, <1>3, <2>1, <2>2
<1>11. ASSUME NEW k \in SystemKeys \ Keys(observed) PROVE SeveritiesOf(observed, k) = {}
  BY <1>2, <1>3, <1>4, <1>8, <1>11
<1> QED
  BY <1>9, <1>10, <1>11 DEF observed, icon

\* Each row of the system screen tells the observations of its key, and what they miss.
LEMMA RowTells ==
  ASSUME NEW s \in Readings, NEW k \in SystemKeys
  PROVE  \/ RowIcon(s, k) = Worst(SeveritiesOf(ObserveSystem(s), k) \cup Missing(s, {k}))
         \/ RowIcon(s, k) = "inactive" /\ SeveritiesOf(ObserveSystem(s), k) = {}
<1> DEFINE ofKey == SeveritiesOf(ObserveSystem(s), k)
           missing == Missing(s, {k})
<1>1. Worst({}) = "healthy" /\ Worst({"warning"}) = "warning" /\ Worst({"critical"}) = "critical"
  BY DEF Worst
<1>2. Keys(ObserveSystem(s)) = Warned(s) \cup {DiskKey(i) : i \in Full(s)}
  BY ObservedSeverities
<1>3. k \in Warned(s) => ofKey = {"warning"}
  BY SeveritiesByKey
<1>4. CASE k \in {<<"system", "cpu">>, <<"system", "load">>, <<"system", "memory">>, <<"system", "swap_pressure">>}
  <2>1. \A i \in DOMAIN Mounts : DiskKey(i) # k
    BY <1>4 DEF DiskKey
  <2>1a. missing = {}
    BY <2>1 DEF Missing, Unobserved, DiskKey
  <2>2. k \notin Warned(s) => ofKey = {}
    BY <1>2, <2>1, SeveritiesByKey DEF Full
  <2>3. RowIcon(s, k) = (IF k \in Warned(s) THEN "warning" ELSE "healthy")
        \/ (RowIcon(s, k) = "inactive" /\ k \notin Warned(s))
    <3>1. CASE k = <<"system", "cpu">>
      BY <3>1 DEF RowIcon, Warned, ResourceIcon
    <3>2. CASE k = <<"system", "load">>
      BY <3>2 DEF RowIcon, Warned, ResourceIcon
    <3>3. CASE k = <<"system", "memory">>
      BY <3>3 DEF RowIcon, Warned, ResourceIcon
    <3>4. CASE k = <<"system", "swap_pressure">>
      <4>1. s.swap.total = 0 => ~SwapHigh(s)
        BY DEF SwapHigh
      <4> QED
        BY <3>4, <4>1 DEF RowIcon, Warned, ResourceIcon
    <3> QED
      BY <1>4, <3>1, <3>2, <3>3, <3>4
  <2> HIDE DEF ofKey, missing
  <2>4. ofKey \cup missing = ofKey
    BY <2>1a
  <2> QED
    BY <1>1, <1>3, <2>2, <2>3, <2>4 DEF ofKey, missing
<1>5. CASE \E i \in DOMAIN Mounts : k = DiskKey(i)
  <2>1. PICK i \in DOMAIN Mounts : k = <<"disk", Mounts[i]>>
    BY <1>5 DEF DiskKey
  <2> DEFINE c == CHOOSE j \in DOMAIN Mounts : Mounts[j] = k[2]
  <2>2. c \in DOMAIN Mounts /\ Mounts[c] = Mounts[i]
    BY <2>1
  <2>3. RowIcon(s, k) = DiskIcon(DiskUsage(s, c))
    BY <2>1 DEF RowIcon
  <2> HIDE DEF c
  <2>4. DiskUsage(s, c) = DiskUsage(s, i)
    BY <2>2, SameMount
  <2>5. missing = IF i \in Unobserved(s) THEN {"critical"} ELSE {}
    <3>1. \A j \in DOMAIN Mounts : <<"disk", Mounts[j]>> = k => (j \in Unobserved(s) <=> i \in Unobserved(s))
      BY <2>1, SameMount DEF Unobserved
    <3>2. \A j \in Unobserved(s) : j \in DOMAIN Mounts
      BY DEF Unobserved
    <3> QED
      BY <2>1, <3>1, <3>2 DEF Missing
  <2> HIDE DEF ofKey, missing
  <2>6. CASE i \in Full(s)
    <3>1. ofKey = {DiskIcon(DiskUsage(s, i))}
      BY <2>1, <2>6, SeveritiesByKey DEF DiskKey, ofKey
    <3>2. DiskIcon(DiskUsage(s, i)) \in {"warning", "critical"} /\ i \notin Unobserved(s)
      BY <2>6, FullIcons
    <3>3. ofKey \cup missing = {DiskIcon(DiskUsage(s, i))}
      BY <2>5, <3>1, <3>2
    <3> QED
      BY <1>1, <2>3, <2>4, <3>2, <3>3 DEF ofKey, missing
  <2>7. CASE i \notin Full(s)
    <3>1. \A j \in Full(s) : DiskKey(j) # k
      BY <2>1, <2>7, SameMount DEF DiskKey, Full
    <3>2. k \notin Warned(s)
      BY <2>1 DEF Warned
    <3>3. ofKey = {}
      BY <1>2, <3>1, <3>2, SeveritiesByKey DEF ofKey
    <3>4. DiskIcon(DiskUsage(s, i)) = IF i \in Unobserved(s) THEN "critical" ELSE "healthy"
      BY <2>7, FullIcons
    <3>5. ofKey \cup missing = IF i \in Unobserved(s) THEN {"critical"} ELSE {}
      BY <2>5, <3>3
    <3> QED
      BY <1>1, <2>3, <2>4, <3>4, <3>5 DEF ofKey, missing
  <2> QED
    BY <2>6, <2>7
<1> QED
  BY <1>4, <1>5 DEF SystemKeys, DiskKey

\* The whole of the system screen.
LEMMA SystemTells ==
  ASSUME NEW s \in Readings
  PROVE  SystemScreenTells(s)
  BY OverallTells, DiskLineTells, RowTells DEF SystemScreenTells, SeveritiesOf, DiskIcons

-----------------------------------------------------------------------------

\* What observe_web may push.
WebObservations == {Observation(<<"web", "site">>, "critical"), Observation(<<"tls", "site">>, "warning")}

\* The certificate is in its warning period.
Expiring(r) == \E d \in r.days : d > 0 /\ d <= WarningDays

\* What a web check gives ...
WebObserved(r) ==
  (IF r.healthy THEN {} ELSE {Observation(<<"web", "site">>, "critical")})
  \cup (IF Expiring(r) THEN {Observation(<<"tls", "site">>, "warning")} ELSE {})

\* ... is what observe_web observes.
LEMMA ObservedWeb ==
  ASSUME NEW r
  PROVE  /\ ObserveWeb(r) \in Seq(WebObservations)
         /\ Range(ObserveWeb(r)) = WebObserved(r)
<1> DEFINE S == WebObservations
           expiring == \E d \in r.days : d <= WarningDays /\ d > 0
           site == PushIf(~r.healthy, <<"web", "site">>, "critical")
           tls == PushIf(expiring, <<"tls", "site">>, "warning")
<1>1. expiring \in BOOLEAN /\ (expiring <=> Expiring(r)) /\ (~r.healthy) \in BOOLEAN
  BY DEF Expiring
<1>1a. Observation(<<"web", "site">>, "critical") \in S /\ Observation(<<"tls", "site">>, "warning") \in S
  BY DEF WebObservations
<1>2. site \in Seq(S) /\ Range(site) = IF ~r.healthy THEN {Observation(<<"web", "site">>, "critical")} ELSE {}
  <2> DEFINE c == ~r.healthy
             k == <<"web", "site">>
  <2>1. c \in BOOLEAN /\ Observation(k, "critical") \in S
    BY <1>1a
  <2> HIDE DEF c, k, S
  <2>2. /\ PushIf(c, k, "critical") \in Seq(S)
        /\ Range(PushIf(c, k, "critical")) = IF c THEN {Observation(k, "critical")} ELSE {}
    BY <2>1, PushedOne
  <2> QED
    BY <2>2 DEF c, k
<1>3. tls \in Seq(S) /\ Range(tls) = IF expiring THEN {Observation(<<"tls", "site">>, "warning")} ELSE {}
  <2> DEFINE k == <<"tls", "site">>
  <2>1. expiring \in BOOLEAN /\ Observation(k, "warning") \in S
    BY <1>1a
  <2> HIDE DEF expiring, k, S
  <2>2. /\ PushIf(expiring, k, "warning") \in Seq(S)
        /\ Range(PushIf(expiring, k, "warning")) = IF expiring THEN {Observation(k, "warning")} ELSE {}
    BY <2>1, PushedOne
  <2> QED
    BY <2>2 DEF k
<1>4. ObserveWeb(r) = site \o tls
  BY DEF ObserveWeb
<1> HIDE DEF site, tls, S, expiring
<1>5. ObserveWeb(r) \in Seq(S) /\ Range(ObserveWeb(r)) = Range(site) \cup Range(tls)
  BY <1>2, <1>3, <1>4, RangeOfConcat
<1> QED
  BY <1>1, <1>2, <1>3, <1>5 DEF WebObserved, S

\* The keys and the severities of a web check.
LEMMA WebSeverities ==
  ASSUME NEW r
  PROVE  /\ Severities(ObserveWeb(r)) = (IF r.healthy THEN {} ELSE {"critical"})
                                        \cup (IF Expiring(r) THEN {"warning"} ELSE {})
         /\ Keys(ObserveWeb(r)) = (IF r.healthy THEN {} ELSE {<<"web", "site">>})
                                  \cup (IF Expiring(r) THEN {<<"tls", "site">>} ELSE {})
<1>1. ObserveWeb(r) \in Seq(WebObservations) /\ Range(ObserveWeb(r)) = WebObserved(r)
  BY ObservedWeb
<1>2. /\ Severities(ObserveWeb(r)) = {o.severity : o \in WebObserved(r)}
      /\ Keys(ObserveWeb(r)) = {o.key : o \in WebObserved(r)}
  BY <1>1, ObservedSets
<1>3. \A k, v : Observation(k, v).key = k /\ Observation(k, v).severity = v
  BY DEF Observation
<1> QED
  BY <1>2, <1>3 DEF WebObserved

\* The web screen and the web line of the digest tell the observations.
LEMMA WebTells ==
  ASSUME NEW r
  PROVE  WebScreenTells(r)
<1>1. Severities(ObserveWeb(r)) = (IF r.healthy THEN {} ELSE {"critical"})
                                  \cup (IF Expiring(r) THEN {"warning"} ELSE {})
  BY WebSeverities
<1>2. WebIcon(r) = IF ~r.healthy THEN "critical" ELSE ResourceIcon(Expiring(r))
  BY DEF WebIcon, Expiring
<1> QED
  BY <1>1, <1>2 DEF WebScreenTells, Worst, ResourceIcon, DigestWeb
-----------------------------------------------------------------------------

\* What is on record is a reading or a failure.
Readable ==
  /\ system \in Snapshots \cup {Failed}
  /\ web \in {CheckOne(p) : p \in Probes \cup {QuietProbe}} \cup {Failed}

\* The rows in the scope of a collector that works are what its reading gives.
RowsOf(table, observed, scope) ==
  /\ \A k \in DOMAIN table : k[1] \in scope => k \in Keys(observed)
  /\ \A k \in Keys(observed) : k \in DOMAIN table /\ table[k].severity \in SeveritiesOf(observed, k)

\* The rows about the collectors themselves.
SystemCollector == "agent:collector:system"
WebCollector == "agent:collector:web"

\* The two rows of a site, and the checks in a row that they are about.
CertificateRow == <<"tls", "site">>
SiteRow == <<"web", "site">>

\* Trouble that was read so often in a row was counted as often.
Watching ==
  /\ Counts(incidents)
  /\ ending \in 0 .. Confirmation /\ ended \in 0 .. Confirmation
  /\ ending <= Count(incidents, CertificateRow) /\ ended <= Count(incidents, SiteRow)

\* The inductive invariant: the rows of a collector that works are those of its last
\* reading, the checks of a certificate were counted, and no row is without a collector.
SInv ==
  /\ Readable
  /\ Watching
  /\ ~IsFailed(system) => RowsOf(incidents, ObserveSystem(system), SystemScope)
  /\ ~IsFailed(web) => RowsOf(incidents, ObserveWeb(web), WebScope)
  /\ \A k \in DOMAIN incidents :
       \/ k[1] \in SystemScope \cup WebScope
       \/ k[1] = SystemCollector /\ IsFailed(system)
       \/ k[1] = WebCollector /\ IsFailed(web)

\* System observations are in the scope of their collector ...
LEMMA SystemKeyScope ==
  ASSUME NEW s \in Readings
  PROVE  \A k \in Keys(ObserveSystem(s)) : k[1] \in SystemScope
<1>1. Keys(ObserveSystem(s)) = Warned(s) \cup {DiskKey(i) : i \in Full(s)}
  BY ObservedSeverities
<1>2. \A k \in Warned(s) : k[1] = "system"
  BY DEF Warned
<1>3. \A i \in Full(s) : DiskKey(i)[1] = "disk"
  BY DEF DiskKey
<1> QED
  BY <1>1, <1>2, <1>3 DEF SystemScope

\* ... and those of a web check in that of theirs.
LEMMA WebKeyScope ==
  ASSUME NEW r
  PROVE  \A k \in Keys(ObserveWeb(r)) : k[1] \in WebScope
<1>1. Keys(ObserveWeb(r)) \subseteq {<<"web", "site">>, <<"tls", "site">>}
  BY WebSeverities
<1> QED
  BY <1>1 DEF WebScope

\* The readings on both sides of the thresholds are readings.
LEMMA SnapshotsAreReadings ==
  ASSUME NEW s \in Snapshots
  PROVE  s \in Readings /\ ~IsFailed(s)
<1>1. AtThreshold(CpuWarning) \subseteq Nat /\ AtThreshold(MemoryWarning) \subseteq Nat
      /\ AtThreshold(SwapWarning) \subseteq Nat
  BY ConfigAssumption DEF AtThreshold
<1>2. s.cpu \in Nat /\ s.load \in Nat /\ s.memory \in Nat
  BY <1>1, ReadingsAssumption DEF Snapshots
<1>3. s.swap \in [used : Nat, total : Nat]
  <2>1. s.swap \in [used : AtThreshold(SwapWarning) \cup {0}, total : {0, 100}]
    BY DEF Snapshots
  <2> QED
    BY <2>1, <1>1
<1>4. /\ s.disks \in [DOMAIN Mounts -> Nat]
      /\ \A i, j \in DOMAIN Mounts : Mounts[i] = Mounts[j] => s.disks[i] = s.disks[j]
  <2>1. s.disks \in DiskReadings
    BY DEF Snapshots
  <2>2. s.disks \in [DOMAIN Mounts -> 0 .. 100]
    BY <2>1, ReadingsAssumption
  <2>3. s.disks \in [DOMAIN Mounts -> Nat]
    BY <2>2
  <2>4. \A i, j \in DOMAIN Mounts : Mounts[i] = Mounts[j] => s.disks[i] = s.disks[j]
    BY <2>1, ReadingsAssumption
  <2> QED
    BY <2>3, <2>4
<1>5. s = [cpu |-> s.cpu, load |-> s.load, memory |-> s.memory, swap |-> s.swap, disks |-> s.disks]
  BY DEF Snapshots
<1>6. DOMAIN s = {"cpu", "load", "memory", "swap", "disks"}
  BY <1>5
<1> QED
  BY <1>2, <1>3, <1>4, <1>5, <1>6 DEF Readings, IsFailed

\* The result of a check is not a failed collector ...
LEMMA ChecksAreNotFailures ==
  ASSUME NEW p
  PROVE  ~IsFailed(CheckOne(p))
<1>1. DOMAIN CheckOne(p) = {"probe", "days", "healthy"}
  BY DEF CheckOne
<1> QED
  BY <1>1 DEF IsFailed

\* ... and a failed collector is.
LEMMA FailedIsFailed == IsFailed(Failed)
  BY DEF IsFailed, Failed

\* The check of a quiet machine finds nothing.
LEMMA QuietIsQuiet == Keys(ObserveWeb(CheckOne(QuietProbe))) = {}
<1> DEFINE r == CheckOne(QuietProbe)
           left == (WarningDays + 1) * Day
<1>1. QuietProbe.status = {StatusMin} /\ QuietProbe.left = {left} /\ QuietProbe.handshake
  BY DEF QuietProbe
<1>2. DaysLeft(left) = WarningDays + 1
  <2>1. left \in Nat
    BY ConfigAssumption
  <2>2. DaysLeft(left) = left \div Day
    <3> HIDE DEF left
    <3> QED
      BY <2>1 DEF DaysLeft
  <2> QED
    BY <2>2, ConfigAssumption
<1> HIDE DEF left
<1>3. r.days = {WarningDays + 1}
  BY <1>1, <1>2 DEF CheckOne
<1>4. r.healthy
  <2>1. StatusMin \in StatusMin .. StatusMax
    BY ConfigAssumption
  <2>2. r.healthy = (/\ \E s \in QuietProbe.status : s \in StatusMin .. StatusMax
                     /\ QuietProbe.left # {} => QuietProbe.handshake
                     /\ \A d \in r.days : d > 0)
    BY DEF CheckOne
  <2>3. \A d \in r.days : d > 0
    BY <1>3, ConfigAssumption
  <2> QED
    BY <1>1, <2>1, <2>2, <2>3
<1> HIDE DEF r
<1>5. ~Expiring(r)
  BY <1>3, ConfigAssumption DEF Expiring
<1> QED
  BY <1>4, <1>5, WebSeverities DEF r

\* Whole days of a certificate: none in its last day or after it, at least one before,
\* and no more than those of its warning period once that has begun.
LEMMA DaysRounded ==
  ASSUME NEW left \in Int
  PROVE  /\ DaysLeft(left) \in Int
         /\ left < Day => DaysLeft(left) <= 0
         /\ Day <= left => DaysLeft(left) > 0
         /\ left < (WarningDays + 1) * Day => DaysLeft(left) <= WarningDays
<1>0. Day \in Nat /\ Day >= 1 /\ WarningDays \in Nat /\ WarningDays >= 1
  BY ConfigAssumption
<1>1. CASE left < 0
  <2>1. -left \in Nat /\ (-left) \div Day \in Nat
    BY <1>0, <1>1
  <2>2. DaysLeft(left) = -((-left) \div Day)
    BY <1>1 DEF DaysLeft
  <2> DEFINE days == (-left) \div Day
  <2> HIDE DEF days
  <2> QED
    BY <1>0, <1>1, <2>1, <2>2 DEF days
<1>2. CASE left >= 0
  <2> DEFINE days == left \div Day
  <2>1. left \in Nat /\ DaysLeft(left) = days
    BY <1>2 DEF DaysLeft
  <2>2. days \in Nat /\ days * Day <= left /\ left < (days + 1) * Day
    BY <1>0, <2>1
  <2> HIDE DEF days
  <2>3. left < Day => days = 0
    <3> SUFFICES ASSUME left < Day, days # 0 PROVE FALSE
      BY <2>2
    <3>1. days * Day >= Day
      BY <1>0, <2>2
    <3> QED
      BY <1>0, <2>1, <2>2, <3>1
  <2>4. Day <= left => days # 0
    BY <1>0, <2>1, <2>2
  <2>5. left < (WarningDays + 1) * Day => days <= WarningDays
    <3> SUFFICES ASSUME left < (WarningDays + 1) * Day, days >= WarningDays + 1 PROVE FALSE
      BY <1>0, <2>2
    <3>1. days * Day >= (WarningDays + 1) * Day
      BY <1>0, <2>2
    <3> QED
      BY <1>0, <2>1, <2>2, <3>1
  <2> QED
    BY <1>0, <2>1, <2>2, <2>3, <2>4, <2>5
<1> QED
  BY <1>1, <1>2

\* What the seconds of a probe are.
LEMMA SecondsRead ==
  ASSUME NEW p \in Probes \cup {QuietProbe}, NEW left \in p.left
  PROVE  left \in Int
<1>1. CASE p \in Probes
  BY <1>1, ReadingsAssumption DEF Probes, Option
<1>2. CASE p = QuietProbe
  BY <1>2, ConfigAssumption DEF QuietProbe
<1> QED
  BY <1>1, <1>2

\* What a check makes of its probe.
LEMMA Checked ==
  ASSUME NEW p
  PROVE  LET r == CheckOne(p)
         IN  /\ r.probe = p
             /\ p.status # {} /\ p.handshake => r.days = {DaysLeft(s) : s \in p.left}
             /\ r.healthy => /\ p.status # {} /\ (p.left # {} => p.handshake)
                             /\ \A d \in r.days : d > 0
  BY DEF CheckOne

\* A certificate in its warning period is observed as expiring, one in its last day or
\* expired as an outage.
LEMMA CertificateObserved ==
  ASSUME NEW p \in Probes \cup {QuietProbe}
  PROVE  /\ Ending(p) => CertificateRow \in Keys(ObserveWeb(CheckOne(p)))
         /\ Ended(p) => SiteRow \in Keys(ObserveWeb(CheckOne(p)))
<1> DEFINE r == CheckOne(p)
<1>1. /\ p.status # {} /\ p.handshake => r.days = {DaysLeft(s) : s \in p.left}
      /\ r.healthy => /\ p.status # {} /\ (p.left # {} => p.handshake)
                      /\ \A d \in r.days : d > 0
  BY Checked
<1>2. Keys(ObserveWeb(r)) = (IF r.healthy THEN {} ELSE {SiteRow})
                            \cup (IF Expiring(r) THEN {CertificateRow} ELSE {})
  BY WebSeverities DEF SiteRow, CertificateRow
<1> HIDE DEF r
<1>3. ASSUME Ending(p) PROVE Expiring(r)
  <2>1. PICK left \in p.left : Day <= left /\ left < (WarningDays + 1) * Day
    BY <1>3 DEF Ending
  <2>2. left \in Int
    BY SecondsRead
  <2>3. DaysLeft(left) > 0 /\ DaysLeft(left) <= WarningDays
    BY <2>1, <2>2, DaysRounded
  <2>4. DaysLeft(left) \in r.days
    BY <1>1, <1>3 DEF Ending
  <2> QED
    BY <2>3, <2>4 DEF Expiring
<1>4. ASSUME Ended(p) PROVE ~r.healthy
  <2>1. PICK left \in p.left : left < Day
    BY <1>4 DEF Ended
  <2>2. DaysLeft(left) \in Int /\ ~(DaysLeft(left) > 0)
    BY <2>1, SecondsRead, DaysRounded
  <2> SUFFICES ASSUME r.healthy PROVE FALSE
    OBVIOUS
  <2>3. DaysLeft(left) \in r.days
    BY <1>1
  <2> QED
    BY <1>1, <2>2, <2>3
<1> QED
  BY <1>2, <1>3, <1>4 DEF r

\* At first there are no rows, and nothing is observed.
LEMMA InitSInv == Init => SInv
<1> SUFFICES ASSUME Init PROVE SInv
  OBVIOUS
<1>1. system \in Snapshots /\ ObserveSystem(system) = <<>> /\ web = CheckOne(QuietProbe) /\ incidents = <<>>
  BY DEF Init
<1>2. DOMAIN incidents = {}
  BY <1>1
<1>3. Keys(ObserveSystem(system)) = {} /\ Keys(ObserveWeb(web)) = {}
  BY <1>1, QuietIsQuiet DEF Keys
<1>4. Watching
  BY <1>2, ConfirmationAssumption DEF Init, Watching, Counts, Count
<1> QED
  BY <1>1, <1>2, <1>3, <1>4 DEF SInv, Readable, RowsOf

\* A pass of a collector that leaves the rows in a scope as they are.
Leaves(scope) ==
  /\ \A k \in DOMAIN incidents' : k[1] \in scope => k \in DOMAIN incidents /\ incidents'[k] = incidents[k]
  /\ \A k \in DOMAIN incidents : k[1] \in scope => k \in DOMAIN incidents'

\* Then they are still what its reading gives.
LEMMA RowsKept ==
  ASSUME NEW observed, NEW scope, RowsOf(incidents, observed, scope), Leaves(scope),
         \A k \in Keys(observed) : k[1] \in scope
  PROVE  RowsOf(incidents', observed, scope)
  BY DEF RowsOf, Leaves

\* The checks of a certificate stay counted, too.
LEMMA WatchingKept ==
  ASSUME Watching, Leaves(WebScope), Counts(incidents'), UNCHANGED <<ending, ended>>
  PROVE  Watching'
<1>1. CertificateRow[1] \in WebScope /\ SiteRow[1] \in WebScope
  BY DEF CertificateRow, SiteRow, WebScope
<1>2. \A k : k[1] \in WebScope => Count(incidents', k) = Count(incidents, k)
  BY DEF Leaves, Count
<1> QED
  BY <1>1, <1>2 DEF Watching, CertificateRow, SiteRow

\* A pass of a collector that works puts the rows in its scope in order.
LEMMA RowsCollected ==
  ASSUME NEW observed, NEW scope, NEW collector, Collected(incidents', incidents, observed, scope, collector)
  PROVE  RowsOf(incidents', observed, scope)
  BY DEF RowsOf, Collected

\* A system reading puts its rows in order and leaves those of the web.
LEMMA CollectSystemSInv == ASSUME SInv, CollectSystem PROVE SInv'
<1> DEFINE observed == ObserveSystem(system')
<1>1. system' \in Snapshots /\ system' \in Readings /\ ~IsFailed(system') /\ web' = web
  BY SnapshotsAreReadings DEF CollectSystem
<1>2. observed \in Seq(SystemObservations) /\ \A k \in Keys(observed) : k[1] \in SystemScope
  BY <1>1, ObservedSystem, SystemKeyScope
<1>3. SystemCollector \notin SystemScope \cup WebScope /\ SystemScope \cap WebScope = {}
  BY DEF SystemScope, WebScope, SystemCollector
<1>4. incidents' = ReconcileCollector(Reconcile(incidents, observed, SystemScope), SystemCollector, FALSE)
  BY DEF CollectSystem, SystemCollector
<1> HIDE DEF observed
<1>5. Collected(incidents', incidents, observed, SystemScope, SystemCollector)
  BY <1>2, <1>3, <1>4, CollectedRows
<1>6. RowsOf(incidents', observed, SystemScope)
  BY <1>5, RowsCollected
<1>7. Leaves(WebScope)
  BY <1>2, <1>3, <1>5 DEF Collected, Leaves
<1>8. ~IsFailed(web) => RowsOf(incidents', ObserveWeb(web), WebScope)
  BY <1>7, WebKeyScope, RowsKept DEF SInv
<1>9. ASSUME NEW k \in DOMAIN incidents'
      PROVE  k[1] \in SystemScope \cup WebScope \/ (k[1] = WebCollector /\ IsFailed(web))
  BY <1>2, <1>5 DEF SInv, Collected
<1>10. Watching'
  <2>1. Counts(incidents')
    BY <1>2, <1>3, <1>4, CountedPass DEF SInv, Watching
  <2> QED
    BY <1>7, <2>1, WatchingKept DEF SInv, CollectSystem
<1> QED
  BY <1>1, <1>6, <1>8, <1>9, <1>10 DEF SInv, Readable, observed

\* A web check does the same the other way round.
LEMMA CollectWebSInv == ASSUME SInv, CollectWeb PROVE SInv'
<1> DEFINE observed == ObserveWeb(web')
<1>1. web' \in {CheckOne(p) : p \in Probes \cup {QuietProbe}} /\ ~IsFailed(web') /\ system' = system
  BY ChecksAreNotFailures DEF CollectWeb
<1>2. observed \in Seq(WebObservations) /\ \A k \in Keys(observed) : k[1] \in WebScope
  BY ObservedWeb, WebKeyScope
<1>3. WebCollector \notin SystemScope \cup WebScope /\ SystemScope \cap WebScope = {}
  BY DEF SystemScope, WebScope, WebCollector
<1>4. incidents' = ReconcileCollector(Reconcile(incidents, observed, WebScope), WebCollector, FALSE)
  BY DEF CollectWeb, WebCollector
<1> HIDE DEF observed
<1>5. Collected(incidents', incidents, observed, WebScope, WebCollector)
  BY <1>2, <1>3, <1>4, CollectedRows
<1>6. RowsOf(incidents', observed, WebScope)
  BY <1>5, RowsCollected
<1>7. Leaves(SystemScope)
  BY <1>2, <1>3, <1>5 DEF Collected, Leaves
<1>8. ~IsFailed(system) => RowsOf(incidents', ObserveSystem(system), SystemScope)
  <2> SUFFICES ASSUME ~IsFailed(system) PROVE RowsOf(incidents', ObserveSystem(system), SystemScope)
    OBVIOUS
  <2>1. system \in Readings
    BY FailedIsFailed, SnapshotsAreReadings DEF SInv, Readable
  <2> QED
    BY <1>7, <2>1, SystemKeyScope, RowsKept DEF SInv
<1>9. ASSUME NEW k \in DOMAIN incidents'
      PROVE  k[1] \in SystemScope \cup WebScope \/ (k[1] = SystemCollector /\ IsFailed(system))
  BY <1>2, <1>5 DEF SInv, Collected
<1>10. Watching'
  <2>0. Confirmation \in Nat /\ Confirmation >= 1
    BY ConfirmationAssumption
  <2>1. /\ Counts(incidents')
        /\ \A k \in Keys(observed) : Count(incidents', k) >= Saturating(Count(incidents, k))
    BY <1>2, <1>3, <1>4, CountedPass DEF SInv, Watching
  <2>2. \A table : Counts(table) => \A k : Count(table, k) \in 0 .. Confirmation
    BY <2>0 DEF Counts, Counted, Count
  <2>3. PICK p \in Probes : /\ web' = CheckOne(p)
                            /\ ending' = IF Ending(p) THEN Saturating(ending) ELSE 0
                            /\ ended' = IF Ended(p) THEN Saturating(ended) ELSE 0
    BY DEF CollectWeb
  <2>4. /\ Ending(p) => CertificateRow \in Keys(observed)
        /\ Ended(p) => SiteRow \in Keys(observed)
    BY <2>3, CertificateObserved DEF observed
  <2>5. \A m, n \in 0 .. Confirmation : /\ Saturating(m) \in 0 .. Confirmation
                                        /\ m <= n => Saturating(m) <= Saturating(n)
    BY <2>0 DEF Saturating
  <2>6. ASSUME NEW k, NEW before \in 0 .. Confirmation, before <= Count(incidents, k),
               NEW c, c => k \in Keys(observed)
        PROVE  LET after == IF c THEN Saturating(before) ELSE 0
               IN  after \in 0 .. Confirmation /\ after <= Count(incidents', k)
    <3>1. Count(incidents, k) \in 0 .. Confirmation /\ Count(incidents', k) \in 0 .. Confirmation
      BY <2>1, <2>2 DEF SInv, Watching
    <3>2. CASE c
      <4>1. Count(incidents', k) >= Saturating(Count(incidents, k))
        BY <2>1, <2>6, <3>2
      <4>2. /\ Saturating(before) <= Saturating(Count(incidents, k))
            /\ Saturating(before) \in 0 .. Confirmation
            /\ Saturating(Count(incidents, k)) \in 0 .. Confirmation
        BY <2>5, <2>6, <3>1
      <4> QED
        BY <3>1, <3>2, <4>1, <4>2
    <3>3. CASE ~c
      BY <2>0, <3>1, <3>3
    <3> QED
      BY <3>2, <3>3
  <2>7. ending' \in 0 .. Confirmation /\ ending' <= Count(incidents', CertificateRow)
    BY <2>3, <2>4, <2>6 DEF SInv, Watching
  <2>8. ended' \in 0 .. Confirmation /\ ended' <= Count(incidents', SiteRow)
    BY <2>3, <2>4, <2>6 DEF SInv, Watching
  <2> QED
    BY <2>1, <2>7, <2>8 DEF Watching, CertificateRow, SiteRow
<1> QED
  BY <1>1, <1>6, <1>8, <1>9, <1>10 DEF SInv, Readable, observed

\* A collector that fails leaves every row but its own.
LEMMA FailureLeaves ==
  ASSUME NEW collector, NEW scope, collector \notin scope,
         incidents' = ReconcileCollector(incidents, collector, TRUE)
  PROVE  /\ Leaves(scope)
         /\ \A k \in DOMAIN incidents' : k[1] = collector \/ k \in DOMAIN incidents
<1>1. OthersKept(incidents', incidents, collector, TRUE)
  BY ReconciledCollector
<1>2. /\ DOMAIN incidents' = {k \in DOMAIN incidents : k[1] # collector} \cup {<<collector>>}
      /\ \A k \in DOMAIN incidents' \ {<<collector>>} : incidents'[k] = incidents[k]
  BY <1>1 DEF OthersKept
<1>3. <<collector>>[1] = collector
  OBVIOUS
<1> QED
  BY <1>2, <1>3 DEF Leaves

\* A failed collector keeps all rows, and claims nothing of its own.
LEMMA FailSInv ==
  ASSUME SInv, SystemFails \/ WebFails
  PROVE  SInv'
<1>0. {SystemCollector, WebCollector} \cap (SystemScope \cup WebScope) = {}
  BY DEF SystemScope, WebScope, SystemCollector, WebCollector
<1>1. ~IsFailed(system) => \A k \in Keys(ObserveSystem(system)) : k[1] \in SystemScope
  BY SystemKeyScope, FailedIsFailed, SnapshotsAreReadings DEF SInv, Readable
<1>2. \A k \in Keys(ObserveWeb(web)) : k[1] \in WebScope
  BY WebKeyScope
<1>3. CASE SystemFails
  <2>1. system' = Failed /\ web' = web /\ incidents' = ReconcileCollector(incidents, SystemCollector, TRUE)
    BY <1>3 DEF SystemFails, SystemCollector
  <2>2. Leaves(WebScope) /\ \A k \in DOMAIN incidents' : k[1] = SystemCollector \/ k \in DOMAIN incidents
    BY <1>0, <2>1, FailureLeaves
  <2>3. ~IsFailed(web) => RowsOf(incidents', ObserveWeb(web), WebScope)
    BY <1>2, <2>2, RowsKept DEF SInv
  <2>4. IsFailed(system')
    BY <2>1, FailedIsFailed
  <2>5. Counts(incidents')
    BY <2>1, FailureCounts DEF SInv, Watching
  <2>6. Watching'
    BY <1>3, <2>2, <2>5, WatchingKept DEF SInv, SystemFails
  <2> QED
    BY <2>1, <2>2, <2>3, <2>4, <2>6 DEF SInv, Readable
<1>4. CASE WebFails
  <2>1. web' = Failed /\ system' = system /\ incidents' = ReconcileCollector(incidents, WebCollector, TRUE)
    BY <1>4 DEF WebFails, WebCollector
  <2>2. /\ Leaves(SystemScope) /\ Leaves(WebScope)
        /\ \A k \in DOMAIN incidents' : k[1] = WebCollector \/ k \in DOMAIN incidents
    BY <1>0, <2>1, FailureLeaves
  <2>3. ~IsFailed(system) => RowsOf(incidents', ObserveSystem(system), SystemScope)
    BY <1>1, <2>2, RowsKept DEF SInv
  <2>4. IsFailed(web')
    BY <2>1, FailedIsFailed
  <2>5. Counts(incidents')
    BY <2>1, FailureCounts DEF SInv, Watching
  <2>6. Watching'
    BY <1>4, <2>2, <2>5, WatchingKept DEF SInv, WebFails
  <2> QED
    BY <2>1, <2>2, <2>3, <2>4, <2>6 DEF SInv, Readable
<1> QED
  BY <1>3, <1>4

\* The rows are those of the last readings, in every reachable state.
THEOREM ScreensInductive == Spec => []SInv
<1>1. Init => SInv
  BY InitSInv
<1>2. SInv /\ [Next]_vars => SInv'
  <2> SUFFICES ASSUME SInv, [Next]_vars PROVE SInv'
    OBVIOUS
  <2>1. CASE Next
    BY <2>1, CollectSystemSInv, CollectWebSInv, FailSInv DEF Next
  <2>2. CASE UNCHANGED vars
    BY <2>2 DEF vars, SInv, Readable, Watching
  <2> QED
    BY <2>1, <2>2
<1> QED
  BY <1>1, <1>2, PTL DEF Spec

\* ScreensTellIncidents, for every configuration that AgentConfig::validate accepts and
\* every reading of any number of disks: a disk is red without an observation only
\* between the fixed 95 and a warning threshold above it.
THEOREM ScreensAgree == Spec => []ScreensTellIncidents
<1>1. SInv => ScreensTellIncidents
  BY FailedIsFailed, SnapshotsAreReadings, SystemTells, WebTells DEF SInv, Readable, ScreensTellIncidents
<1> QED
  BY <1>1, ScreensInductive, PTL

\* A certificate that has no more than the warning period, in whole days, is observed:
\* as expiring while a day is left, as an outage from then on and when no handshake
\* read it.
LEMMA ExpiringIsObserved ==
  ASSUME NEW p \in Probes \cup {QuietProbe}, NEW left \in p.left, left < (WarningDays + 1) * Day
  PROVE  Keys(ObserveWeb(CheckOne(p))) # {}
<1>1. left \in Int /\ Day \in Int
  BY SecondsRead, ConfigAssumption
<1>2. CASE p.status = {} \/ ~p.handshake
  <2>1. ~CheckOne(p).healthy
    BY <1>2, Checked
  <2> QED
    BY <2>1, WebSeverities
<1>3. CASE p.status # {} /\ p.handshake /\ Day <= left
  BY <1>3, CertificateObserved DEF Ending
<1>4. CASE left < Day
  BY <1>4, CertificateObserved DEF Ended
<1> QED
  BY <1>1, <1>2, <1>3, <1>4

\* NoGapBeforeExpiry, for every warning period, every length of a day and every
\* confirmation count: the row is there from the first check on, and announced when the
\* checks in a row are as many as that.
THEOREM CertificateIsWatched == Spec => []NoGapBeforeExpiry
<1>1. SInv => NoGapBeforeExpiry
  <2> SUFFICES ASSUME SInv PROVE NoGapBeforeExpiry
    OBVIOUS
  <2>1. ASSUME ~IsFailed(web), NEW left \in web.probe.left, left < (WarningDays + 1) * Day
        PROVE  \E k \in DOMAIN incidents : k[1] \in WebScope
    <3>1. PICK p \in Probes \cup {QuietProbe} : web = CheckOne(p)
      BY <2>1, FailedIsFailed DEF SInv, Readable
    <3>2. web.probe = p
      BY <3>1, Checked
    <3>3. PICK k \in Keys(ObserveWeb(web)) : TRUE
      BY <2>1, <3>1, <3>2, ExpiringIsObserved
    <3> QED
      BY <2>1, <3>3, WebKeyScope DEF SInv, RowsOf
  <2>2. ASSUME NEW k, Count(incidents, k) >= Confirmation
        PROVE  k \in Confirmed(incidents)
    <3>0. Confirmation \in Nat /\ Confirmation >= 1
      BY ConfirmationAssumption
    <3>1. k \in DOMAIN incidents /\ incidents[k].count >= Confirmation
      BY <2>2, <3>0 DEF Count
    <3>2. Counted(incidents[k])
      BY <3>1 DEF SInv, Watching, Counts
    <3> QED
      BY <3>0, <3>1, <3>2 DEF Counted, Confirmed
  <2>3. ending = Confirmation => CertificateRow \in Confirmed(incidents)
    BY <2>2 DEF SInv, Watching
  <2>4. ended = Confirmation => SiteRow \in Confirmed(incidents)
    BY <2>2 DEF SInv, Watching
  <2> QED
    BY <2>1, <2>3, <2>4 DEF NoGapBeforeExpiry, CertificateRow, SiteRow
<1> QED
  BY <1>1, ScreensInductive, PTL

\* Two reasons for one row agree on how bad it is.
OneSeverity(observed) ==
  \A k \in Keys(observed) : \A a, b \in SeveritiesOf(observed, k) : a = b

\* A system reading gives no key two severities ...
LEMMA SystemSeverity ==
  ASSUME NEW s \in Readings
  PROVE  OneSeverity(ObserveSystem(s))
<1>1. Keys(ObserveSystem(s)) = Warned(s) \cup {DiskKey(i) : i \in Full(s)}
  BY ObservedSeverities
<1> QED
  BY <1>1, SeveritiesByKey DEF OneSeverity

\* ... nor does a web check.
LEMMA WebSeverity ==
  ASSUME NEW r
  PROVE  OneSeverity(ObserveWeb(r))
<1>1. ObserveWeb(r) \in Seq(WebObservations) /\ Range(ObserveWeb(r)) = WebObserved(r)
  BY ObservedWeb
<1>2. \A k : SeveritiesOf(ObserveWeb(r), k) = {o.severity : o \in {p \in WebObserved(r) : p.key = k}}
  BY <1>1, ObservedSets
<1>3. \A k, v : Observation(k, v).key = k /\ Observation(k, v).severity = v
  BY DEF Observation
<1>4. \A o, p \in WebObserved(r) : o.key = p.key => o = p
  <2>1. <<"web", "site">> # <<"tls", "site">>
    OBVIOUS
  <2> QED
    BY <1>3, <2>1 DEF WebObserved
<1> QED
  BY <1>2, <1>4 DEF OneSeverity

\* So the rows have the severities of the observations.
LEMMA RowSeverities ==
  ASSUME NEW observed, NEW scope, NEW table, RowsOf(table, observed, scope), OneSeverity(observed)
  PROVE  {table[k].severity : k \in Keys(observed)} = Severities(observed)
<1>1. Severities(observed) = UNION {SeveritiesOf(observed, k) : k \in Keys(observed)}
  BY DEF Severities, SeveritiesOf, Keys
<1>2. \A k \in Keys(observed) : SeveritiesOf(observed, k) = {table[k].severity}
  BY DEF RowsOf, OneSeverity
<1> QED
  BY <1>1, <1>2

\* LastingTroubleIsCounted, for every configuration: the line of the incidents agrees
\* with the screens once everything is confirmed, but for the disks that are red and
\* not observed.
THEOREM TroubleIsCounted == Spec => []LastingTroubleIsCounted
<1>1. SInv => LastingTroubleIsCounted
  <2> SUFFICES ASSUME SInv, Confirmed(incidents) = DOMAIN incidents, ~IsFailed(system), ~IsFailed(web)
               PROVE  Worst({DigestIncidents} \cup Missing(system, SystemKeys))
                        = Worst({Overall(system), WebIcon(web)})
    BY DEF LastingTroubleIsCounted
  <2> DEFINE ofSystem == ObserveSystem(system)
             ofWeb == ObserveWeb(web)
  <2>1. system \in Readings
    BY FailedIsFailed, SnapshotsAreReadings DEF SInv, Readable
  <2>2. RowsOf(incidents, ofSystem, SystemScope) /\ RowsOf(incidents, ofWeb, WebScope)
    BY DEF SInv
  <2>3. OneSeverity(ofSystem) /\ OneSeverity(ofWeb)
    BY <2>1, SystemSeverity, WebSeverity
  <2> DEFINE missing == Missing(system, SystemKeys)
  <2>4. /\ Overall(system) = Worst(Severities(ofSystem) \cup missing)
        /\ WebIcon(web) = Worst(Severities(ofWeb))
    BY <2>1, OverallTells, WebTells DEF WebScreenTells
  <2>4a. missing \in SUBSET {"critical"}
    BY <2>1, MissingCritical
  <2>5. Severities(ofSystem) \subseteq {"warning", "critical"}
    BY <2>1, ObservedSeverities, FullIcons
  <2>6. Severities(ofWeb) \subseteq {"warning", "critical"}
    BY WebSeverities
  <2> HIDE DEF ofSystem, ofWeb, missing
  <2>7. DOMAIN incidents = Keys(ofSystem) \cup Keys(ofWeb)
    BY <2>2 DEF RowsOf, SInv
  <2>8. /\ {incidents[k].severity : k \in Keys(ofSystem)} = Severities(ofSystem)
        /\ {incidents[k].severity : k \in Keys(ofWeb)} = Severities(ofWeb)
    BY <2>2, <2>3, RowSeverities
  <2>9. {incidents[k].severity : k \in Confirmed(incidents)} = Severities(ofSystem) \cup Severities(ofWeb)
    BY <2>7, <2>8
  <2>10. DigestIncidents = Worst(Severities(ofSystem) \cup Severities(ofWeb))
    BY <2>9 DEF DigestIncidents
  <2>11. Worst({Worst(Severities(ofSystem) \cup Severities(ofWeb))} \cup missing)
           = Worst({Worst(Severities(ofSystem) \cup missing), Worst(Severities(ofWeb))})
    <3> DEFINE A == Severities(ofSystem)
               B == Severities(ofWeb)
    <3>1. A \in SUBSET {"warning", "critical"} /\ B \in SUBSET {"warning", "critical"}
      BY <2>5, <2>6
    <3>2. missing \in SUBSET {"critical"}
      BY <2>4a
    <3> HIDE DEF A, B, missing
    <3>3. /\ A \in {{}, {"warning"}, {"critical"}, {"warning", "critical"}}
          /\ B \in {{}, {"warning"}, {"critical"}, {"warning", "critical"}}
      BY <3>1
    <3>4. CASE missing = {}
      <4>1. A \cup missing = A /\ {Worst(A \cup B)} \cup missing = {Worst(A \cup B)}
        BY <3>4
      <4>2. Worst({Worst(A \cup B)}) = Worst({Worst(A), Worst(B)})
        BY <3>3 DEF Worst
      <4> QED
        BY <4>1, <4>2 DEF A, B
    <3>5. CASE missing # {}
      <4>1. "critical" \in missing
        BY <3>2, <3>5
      <4>2. Worst(A \cup missing) = "critical"
        BY <4>1 DEF Worst
      <4>3. Worst({Worst(A \cup B)} \cup missing) = "critical"
        BY <4>1 DEF Worst
      <4>4. Worst({"critical", Worst(B)}) = "critical"
        BY DEF Worst
      <4> QED
        BY <4>2, <4>3, <4>4 DEF A, B
    <3> QED
      BY <3>4, <3>5
  <2> QED
    BY <2>4, <2>10, <2>11 DEF missing
<1> QED
  BY <1>1, ScreensInductive, PTL

-----------------------------------------------------------------------------
(***************************************************************************)
(* Inventory.  DInv says of a discovery that every configured name is      *)
(* still to be asked for or found (Discovery), and of the table that the   *)
(* rows of the units count passes (Counting).  That a row is not counted   *)
(* more often than its unit has names needs the places at which its key is *)
(* observed: no more than the names it was found under, of which the       *)
(* enumeration of the services repeats none.                               *)
(***************************************************************************)

\* SetToSeq lists a finite set without repetition.
LEMMA Enumerated ==
  ASSUME NEW T, IsFiniteSet(T)
  PROVE  /\ Cardinality(T) \in Nat
         /\ SetToSeq(T) \in [1 .. Cardinality(T) -> T]
         /\ \A i, j \in 1 .. Cardinality(T) : SetToSeq(T)[i] = SetToSeq(T)[j] => i = j
         /\ \A x \in T : \E i \in 1 .. Cardinality(T) : SetToSeq(T)[i] = x
<1> DEFINE n == Cardinality(T)
           D == 1 .. n
           s == SetToSeq(T)
<1>1. n \in Nat /\ ExistsBijection(D, T)
  BY FS_CardinalityType
<1>2. IsFiniteSet(D) /\ Cardinality(D) = n
  <2>1. IsFiniteSet(1 .. n) /\ Cardinality(1 .. n) = IF 1 > n THEN 0 ELSE n - 1 + 1
    BY <1>1, FS_Interval
  <2> QED
    BY <2>1, <1>1
<1>3. \E f \in [D -> T] : IsInjective(f)
  BY <1>1 DEF ExistsBijection, Bijection, Injection
<1>4. s = CHOOSE f \in [D -> T] : IsInjective(f)
  BY DEF SetToSeq
<1> HIDE DEF s, D
<1>5. s \in [D -> T] /\ IsInjective(s)
  BY <1>3, <1>4
<1>6. s \in Injection(D, T)
  BY <1>5 DEF Injection
<1>7. s \in Surjection(D, T)
  BY <1>2, <1>6, FS_Injection
<1> QED
  BY <1>1, <1>5, <1>7 DEF s, D, IsInjective, Surjection

\* The places of a key in a list with at most one more element.
LEMMA PlacesOfConcat ==
  ASSUME NEW S, NEW s \in Seq(S), NEW t \in Seq(S), Len(t) <= 1, NEW k
  PROVE  Places(s \o t, k) = IF k \in Keys(t) THEN Places(s, k) \cup {Len(s) + 1} ELSE Places(s, k)
<1> DEFINE u == s \o t
           m == Len(s)
<1>1. /\ u \in Seq(S) /\ Len(u) = m + Len(t) /\ m \in Nat /\ Len(t) \in Nat
      /\ DOMAIN u = 1 .. Len(u) /\ DOMAIN s = 1 .. m /\ DOMAIN t = 1 .. Len(t)
  OBVIOUS
<1>2. \A i \in 1 .. m : u[i] = s[i]
  OBVIOUS
<1>3. Len(t) = 1 => u[m + 1] = t[1]
  <2> SUFFICES ASSUME Len(t) = 1 PROVE u[m + 1] = t[1]
    OBVIOUS
  <2>1. m + 1 \in 1 .. m + Len(t) /\ ~(m + 1 \in 1 .. m) /\ (m + 1) - m = 1
    BY <1>1
  <2>2. u[m + 1] = t[(m + 1) - m]
    BY <2>1, ConcatProperties
  <2> QED
    BY <2>1, <2>2
<1> HIDE DEF u, m
<1>4. CASE Len(t) = 0
  <2>1. DOMAIN u = DOMAIN s /\ Keys(t) = {}
    BY <1>1, <1>4 DEF Keys
  <2> QED
    BY <2>1, <1>1, <1>2 DEF Places, u
<1>5. CASE Len(t) = 1
  <2>1. DOMAIN u = DOMAIN s \cup {m + 1}
    BY <1>1, <1>5
  <2>2. k \in Keys(t) <=> t[1].key = k
    BY <1>1, <1>5 DEF Keys
  <2>3. \A i \in DOMAIN s : u[i] = s[i]
    BY <1>1, <1>2
  <2> QED
    BY <2>1, <2>2, <2>3, <1>3, <1>5 DEF Places, u, m
<1> QED
  BY <1>1, <1>4, <1>5

\* A key occurs in a flattened list as often as there are lists with it, when none is
\* longer than one.
LEMMA PlacesOfFlatten ==
  ASSUME NEW S, NEW lists \in Seq(Seq(S)), \A i \in DOMAIN lists : Len(lists[i]) <= 1, NEW k
  PROVE  Cardinality(Places(FlattenSeq(lists), k)) = Cardinality({i \in DOMAIN lists : k \in Keys(lists[i])})
<1> DEFINE N == Len(lists)
           having(i) == {j \in 1 .. i : k \in Keys(lists[j])}
           Good(h, i) == /\ h \in Seq(S)
                         /\ IsFiniteSet(Places(h, k)) /\ IsFiniteSet(having(i))
                         /\ Cardinality(Places(h, k)) = Cardinality(having(i))
<1>0. N \in Nat /\ DOMAIN lists = 1 .. N
  OBVIOUS
<1>1. PICK g : /\ g[0] = <<>>
               /\ \A i \in 1 .. N : g[i] = g[i - 1] \o lists[i]
               /\ FlattenSeq(lists) = g[N]
  BY FlattenPrefixes
<1> HIDE DEF N
<1>2. Good(g[0], 0)
  <2>1. Places(<<>>, k) = {} /\ having(0) = {} /\ <<>> \in Seq(S)
    BY DEF Places
  <2> HIDE DEF having
  <2> QED
    BY <1>1, <2>1, FS_EmptySet
<1>3. ASSUME NEW i \in Nat, i + 1 <= N, Good(g[i], i)
      PROVE  Good(g[i + 1], i + 1)
  <2> DEFINE s == g[i]
             t == lists[i + 1]
             x == i + 1
             y == Len(s) + 1
             P == Places(s, k)
             H == having(i)
  <2>1. i + 1 \in 1 .. N /\ (i + 1) - 1 = i
    BY <1>3, <1>0
  <2>2. g[x] = s \o t
    BY <2>1, <1>1
  <2>3. t \in Seq(S) /\ Len(t) <= 1 /\ s \in Seq(S)
    <3>1. x \in DOMAIN lists
      BY <2>1, <1>0
    <3>2. t \in Seq(S)
      BY <3>1
    <3>3. Len(t) <= 1
      BY <3>1
    <3> QED
      BY <3>2, <3>3, <1>3
  <2>4. having(x) = IF k \in Keys(t) THEN H \cup {x} ELSE H
    BY <2>1
  <2>5. ~(x \in H)
    OBVIOUS
  <2>6. ~(y \in P)
    BY <2>3 DEF Places
  <2>7. Places(s \o t, k) = IF k \in Keys(t) THEN P \cup {y} ELSE P
    <3> HIDE DEF s, t
    <3> QED
      BY <2>3, PlacesOfConcat
  <2>8. IsFiniteSet(P) /\ IsFiniteSet(H) /\ Cardinality(P) = Cardinality(H)
    BY <1>3
  <2>9. s \o t \in Seq(S)
    BY <2>3
  <2>10. /\ IsFiniteSet(P \cup {y}) /\ IsFiniteSet(H \cup {x})
         /\ Cardinality(P \cup {y}) = Cardinality(P) + 1
         /\ Cardinality(H \cup {x}) = Cardinality(H) + 1
    <3> HIDE DEF P, H, x, y
    <3> QED
      BY <2>5, <2>6, <2>8, FS_AddElement
  <2>11. Good(s \o t, x)
    <3> HIDE DEF P, H, y, s, t, x
    <3> SUFFICES /\ IsFiniteSet(Places(s \o t, k)) /\ IsFiniteSet(having(x))
                 /\ Cardinality(Places(s \o t, k)) = Cardinality(having(x))
      BY <2>9
    <3> HIDE DEF having
    <3> QED
      BY <2>4, <2>7, <2>8, <2>10
  <2> HIDE DEF s, t, Good
  <2> QED
    BY <2>2, <2>11
<1> DEFINE Q == {i \in Nat : i <= N => Good(g[i], i)}
<1>4. Q = Nat
  <2>1. 0 \in Q /\ \A i \in Q : i + 1 \in Q
    <3> HIDE DEF Good
    <3> QED
      BY <1>0, <1>2, <1>3
  <2> HIDE DEF Q
  <2>2. Q \in SUBSET Nat
    BY DEF Q
  <2> QED
    BY <2>1, <2>2, Induction
<1>5. Good(g[N], N)
  <2> HIDE DEF Good
  <2> QED
    BY <1>0, <1>4
<1>6. having(N) = {i \in DOMAIN lists : k \in Keys(lists[i])}
  BY <1>0
<1> QED
  BY <1>1, <1>5, <1>6

\* What a discovery may find.
Findable == Units \cup Range(Extra)

\* Services are found under names that systemd or the configuration has, and know their
\* unit.
Services(services) ==
  /\ DOMAIN services \subseteq Findable
  /\ \A n \in DOMAIN services : services[n].unit = OwnName[n]

\* What observe_services may push.
ServiceObservations == {Observation(<<"service", u>>, "critical") : u \in Units}

\* There are finitely many such names, each of a unit.
LEMMA FindableNames ==
  /\ Findable \subseteq Names /\ IsFiniteSet(Findable)
  /\ \A n \in Findable : OwnName[n] \in Units
<1>1. Findable \subseteq Names
  BY NamesAssumption DEF Findable, Units, Range
<1>2. IsFiniteSet(Findable)
  BY <1>1, NamesAssumption, FS_Subset
<1> QED
  BY <1>1, <1>2, NamesAssumption DEF Units

\* The unhealthy services are observed, and a unit at most once for each of its names.
LEMMA ObservedServices ==
  ASSUME NEW services, Services(services)
  PROVE  /\ ObserveServices(services) \in Seq(ServiceObservations)
         /\ Keys(ObserveServices(services)) =
              {<<"service", OwnName[n]>> : n \in {m \in DOMAIN services : ~Healthy(services[m])}}
         /\ \A u \in Units :
              /\ Cardinality(Places(ObserveServices(services), <<"service", u>>)) \in Nat
              /\ Cardinality(Places(ObserveServices(services), <<"service", u>>))
                   <= 1 + Cardinality(OtherNames(u))
<1> DEFINE S == ServiceObservations
           D == DOMAIN services
           N == Cardinality(D)
           names == SetToSeq(D)
           bad(i) == ~Healthy(services[names[i]])
           key(i) == <<"service", services[names[i]].unit>>
           list(i) == PushIf(bad(i), key(i), "critical")
           lists == [i \in DOMAIN names |-> list(i)]
           observed == ObserveServices(services)
<1>1. IsFiniteSet(D) /\ D \subseteq Findable
  BY FindableNames, FS_Subset DEF Services
<1>2. /\ N \in Nat /\ names \in [1 .. N -> D]
      /\ \A i, j \in 1 .. N : names[i] = names[j] => i = j
      /\ \A x \in D : \E i \in 1 .. N : names[i] = x
  <2> HIDE DEF D
  <2> QED
    BY <1>1, Enumerated
<1>3. observed = FlattenSeq(lists)
  BY DEF ObserveServices
<1>u. \A n \in D : services[n].unit = OwnName[n]
  BY DEF Services
<1> HIDE DEF D, N, names
<1>4. DOMAIN lists = 1 .. N /\ \A i \in 1 .. N : names[i] \in D
  BY <1>2
<1>5. \A i \in 1 .. N : /\ key(i) = <<"service", OwnName[names[i]]>>
                        /\ OwnName[names[i]] \in Units
  BY <1>1, <1>4, <1>u, FindableNames
<1>6. ASSUME NEW i \in 1 .. N
      PROVE  /\ list(i) \in Seq(S) /\ Len(list(i)) <= 1
             /\ Range(list(i)) = IF bad(i) THEN {Observation(key(i), "critical")} ELSE {}
             /\ Keys(list(i)) = IF bad(i) THEN {key(i)} ELSE {}
  <2> DEFINE c == bad(i)
             k == key(i)
             l == PushIf(c, k, "critical")
  <2>1. Observation(k, "critical") \in S
    BY <1>5 DEF ServiceObservations
  <2>2. c \in BOOLEAN
    BY DEF Healthy
  <2> HIDE DEF c, k
  <2>3. l \in Seq(S) /\ Range(l) = IF c THEN {Observation(k, "critical")} ELSE {}
    <3> HIDE DEF S
    <3> QED
      BY <2>1, <2>2, PushedOne
  <2>4. Len(l) <= 1
    BY DEF PushIf
  <2>5. Keys(l) = {o.key : o \in Range(l)}
    BY DEF Keys, Range
  <2>6. Observation(k, "critical").key = k
    BY DEF Observation
  <2> HIDE DEF l
  <2>7. Keys(l) = IF c THEN {k} ELSE {}
    BY <2>3, <2>5, <2>6
  <2> QED
    BY <2>3, <2>4, <2>7 DEF c, k, l
<1> HIDE DEF list, bad, key
<1>7. lists \in Seq(Seq(S)) /\ \A i \in DOMAIN lists : Len(lists[i]) <= 1
  <2>1. lists \in [1 .. N -> Seq(S)]
    BY <1>4, <1>6
  <2>2. \A i \in DOMAIN lists : Len(lists[i]) <= 1
    BY <1>4, <1>6
  <2> HIDE DEF lists
  <2> QED
    BY <2>1, <2>2, <1>2, IsASeq
<1>8. \A i \in 1 .. N : lists[i] = list(i)
  BY <1>4
<1> HIDE DEF lists, observed, S
<1>9. observed \in Seq(S) /\ Range(observed) = Elements(lists)
  BY <1>3, <1>7, RangeOfFlatten
<1>10. Keys(observed) = {o.key : o \in Range(observed)}
  BY DEF Keys, Range
<1>11. Keys(observed) = {key(i) : i \in {j \in 1 .. N : bad(j)}}
  <2>1. \A i \in 1 .. N : Range(lists[i]) = IF bad(i) THEN {Observation(key(i), "critical")} ELSE {}
    BY <1>6, <1>8
  <2>2. \A k : Observation(k, "critical").key = k
    BY DEF Observation
  <2>3. \A o : o \in Range(observed) <=> \E i \in 1 .. N : o \in Range(lists[i])
    BY <1>9, <1>4 DEF Elements
  <2>4. ASSUME NEW o \in Range(observed) PROVE o.key \in {key(i) : i \in {j \in 1 .. N : bad(j)}}
    <3>1. PICK i \in 1 .. N : o \in Range(lists[i])
      BY <2>3
    <3>2. bad(i) /\ o = Observation(key(i), "critical")
      <4> DEFINE R == Range(lists[i])
                 c == bad(i)
                 x == Observation(key(i), "critical")
      <4>1. R = IF c THEN {x} ELSE {}
        BY <2>1
      <4> HIDE DEF R, c, x
      <4>2. c /\ o = x
        BY <3>1, <4>1 DEF R
      <4> QED
        BY <4>2 DEF c, x
    <3> QED
      BY <2>2, <3>2
  <2>5. ASSUME NEW i \in 1 .. N, bad(i) PROVE \E o \in Range(observed) : o.key = key(i)
    <3>1. Observation(key(i), "critical") \in Range(lists[i])
      BY <2>1, <2>5
    <3>2. Observation(key(i), "critical") \in Range(observed)
      BY <2>3, <3>1
    <3> QED
      BY <2>2, <3>2
  <2> QED
    BY <2>4, <2>5, <1>10
<1>12. Keys(observed) = {<<"service", OwnName[n]>> : n \in {m \in D : ~Healthy(services[m])}}
  <2>1. \A i \in 1 .. N : bad(i) <=> ~Healthy(services[names[i]])
    BY DEF bad
  <2> QED
    BY <2>1, <1>2, <1>4, <1>5, <1>11
<1>13. ASSUME NEW u \in Units
       PROVE  /\ Cardinality(Places(observed, <<"service", u>>)) \in Nat
              /\ Cardinality(Places(observed, <<"service", u>>)) <= 1 + Cardinality(OtherNames(u))
  <2> DEFINE k == <<"service", u>>
             I == {i \in DOMAIN lists : k \in Keys(lists[i])}
             T == OtherNames(u) \cup {u}
             f == [i \in I |-> names[i]]
  <2>1. Cardinality(Places(observed, k)) = Cardinality(I)
    <3> HIDE DEF k
    <3> QED
      BY <1>3, <1>7, PlacesOfFlatten
  <2>2. \A i \in I : i \in 1 .. N /\ OwnName[names[i]] = u
    <3> SUFFICES ASSUME NEW i \in I PROVE i \in 1 .. N /\ OwnName[names[i]] = u
      OBVIOUS
    <3>1. i \in 1 .. N /\ k \in Keys(list(i))
      BY <1>4, <1>8
    <3>2. k = key(i)
      BY <3>1, <1>6
    <3> QED
      BY <3>1, <3>2, <1>5
  <2>3. \A i \in I : names[i] \in T
    <3>1. \A i \in I : names[i] \in Findable
      BY <2>2, <1>1, <1>4
    <3>2. \A n \in Units : OwnName[n] = n
      BY DEF Units
    <3> HIDE DEF I
    <3> QED
      BY <2>2, <3>1, <3>2 DEF Findable, OtherNames
  <2>4. IsFiniteSet(OtherNames(u)) /\ Cardinality(OtherNames(u)) \in Nat
    <3>1. OtherNames(u) \subseteq Names
      BY NamesAssumption DEF OtherNames, Range
    <3> QED
      BY <3>1, NamesAssumption, FS_Subset, FS_CardinalityType
  <2>5. ~(u \in OtherNames(u))
    BY DEF OtherNames
  <2>6. IsFiniteSet(T) /\ Cardinality(T) = Cardinality(OtherNames(u)) + 1
    BY <2>4, <2>5, FS_AddElement
  <2>7. f \in Injection(I, T)
    <3>1. f \in [I -> T]
      <4> HIDE DEF I, T
      <4> QED
        BY <2>3
    <3>2. IsInjective(f)
      <4> HIDE DEF I
      <4> QED
        BY <2>2, <1>2 DEF IsInjective
    <3> QED
      BY <3>1, <3>2 DEF Injection
  <2> HIDE DEF f, T, I
  <2>8. IsFiniteSet(I) /\ Cardinality(I) <= Cardinality(T)
    BY <2>6, <2>7, FS_Injection
  <2>9. Cardinality(I) \in Nat
    BY <2>8, FS_CardinalityType
  <2> QED
    BY <2>1, <2>4, <2>6, <2>8, <2>9
<1> QED
  BY <1>9, <1>12, <1>13 DEF observed, S, D

\* Every configured name is still to be asked for, or found.
Discovery ==
  /\ machine \in [Units -> UnitStates]
  /\ pc \in {"idle", "show"}
  /\ todo \in Seq(Names) /\ Range(todo) \subseteq Range(Extra)
  /\ Services(found)
  /\ pc = "show" => Range(Extra) \subseteq Range(todo) \cup DOMAIN found

\* The counts are counts, and those of the units count passes.
Counting ==
  /\ Counts(incidents)
  /\ unhealthy \in [Units -> 0 .. Confirmation]
  /\ CountsPasses

\* The inductive invariant.
DInv == Discovery /\ Counting

\* CountsPasses, of any history and table.
Holds(passes, table) ==
  \A u \in Units :
    /\ passes[u] <= Count(table, <<"service", u>>)
    /\ Count(table, <<"service", u>>) <= passes[u] * (1 + Cardinality(OtherNames(u)))

\* Holds is CountsPasses, before a step and after it.
LEMMA PassesCounted ==
  /\ CountsPasses <=> Holds(unhealthy, incidents)
  /\ CountsPasses' <=> Holds(unhealthy', incidents')
  BY DEF CountsPasses, Holds, Count, OtherNames, Units

\* Nothing was counted yet.
LEMMA InitDInv == DiscoveryInit => DInv
<1> SUFFICES ASSUME DiscoveryInit PROVE DInv
  OBVIOUS
<1> USE DEF DiscoveryInit
<1>0. Confirmation \in Nat
  BY ConfirmationAssumption
<1>1. Discovery
  BY DEF Discovery, Services, UnitStates, Range
<1>2. Counts(incidents) /\ \A k : Count(incidents, k) = 0
  BY DEF Counts, Count
<1>3. CountsPasses
  <2>1. \A u \in Units : Cardinality(OtherNames(u)) \in Nat
    <3> TAKE u \in Units
    <3>1. OtherNames(u) \subseteq Names
      BY NamesAssumption DEF OtherNames, Range
    <3> QED
      BY <3>1, NamesAssumption, FS_Subset, FS_CardinalityType
  <2>2. \A u \in Units : 0 <= 0 * (1 + Cardinality(OtherNames(u)))
    BY <2>1
  <2> QED
    BY <1>2, <2>2, PassesCounted DEF Holds
<1> QED
  BY <1>0, <1>1, <1>2, <1>3 DEF DInv, Counting

\* A list holds its head and what its tail holds.
LEMMA RangeOfTail ==
  ASSUME NEW S, NEW s \in Seq(S), s # <<>>
  PROVE  Head(s) \in S /\ Tail(s) \in Seq(S) /\ Range(s) = {Head(s)} \cup Range(Tail(s))
<1>1. /\ Head(s) = s[1] /\ Head(s) \in S /\ Len(s) \in Nat \ {0}
      /\ Tail(s) \in Seq(S) /\ Len(Tail(s)) = Len(s) - 1
      /\ DOMAIN s = 1 .. Len(s) /\ DOMAIN Tail(s) = 1 .. Len(Tail(s))
  OBVIOUS
<1>2. \A i \in 1 .. Len(s) - 1 : Tail(s)[i] = s[i + 1]
  OBVIOUS
<1> DEFINE t == Tail(s)
<1>3. \A i \in DOMAIN s : i = 1 \/ (i - 1 \in DOMAIN t /\ t[i - 1] = s[i])
  <2> TAKE i \in DOMAIN s
  <2>1. i \in 1 .. Len(s)
    BY <1>1
  <2>2. CASE i # 1
    <3>1. i - 1 \in 1 .. Len(s) - 1 /\ (i - 1) + 1 = i
      BY <1>1, <2>1, <2>2
    <3> QED
      BY <3>1, <1>1, <1>2
  <2> QED
    BY <2>2
<1>4. \A i \in DOMAIN t : i + 1 \in DOMAIN s /\ t[i] = s[i + 1]
  BY <1>1, <1>2
<1>5. 1 \in DOMAIN s
  BY <1>1
<1> HIDE DEF t
<1> QED
  BY <1>1, <1>3, <1>4, <1>5 DEF Range, t

\* systemctl list-units leaves every configured name to be asked for.
LEMMA ListUnitsDInv == ASSUME DInv, ListUnits PROVE DInv'
<1> USE DEF ListUnits
<1>1. Services(Listed)
  <2>1. /\ DOMAIN Listed \subseteq Units
        /\ \A n \in DOMAIN Listed : Listed[n].unit = n
    BY DEF Listed, Service
  <2> QED
    BY <2>1 DEF Services, Findable, Units
<1>2. Discovery'
  <2>1. Services(found)'
    BY <1>1 DEF Services, Findable, Units
  <2> QED
    BY <2>1, NamesAssumption DEF DInv, Discovery
<1>3. Counting'
  BY DEF DInv, Counting, Counts, CountsPasses, OtherNames
<1> QED
  BY <1>2, <1>3 DEF DInv

\* systemctl show finds the name that it takes off the list.
LEMMA ShowUnitDInv == ASSUME DInv, ShowUnit PROVE DInv'
<1> DEFINE n == Head(todo)
<1>1. /\ n \in Names /\ Tail(todo) \in Seq(Names)
      /\ Range(todo) = {n} \cup Range(Tail(todo))
  BY RangeOfTail DEF ShowUnit, DInv, Discovery
<1>2. n \in Findable /\ OwnName[n] \in Units
  <2>1. Range(todo) \subseteq Findable
    BY DEF DInv, Discovery, Findable
  <2> QED
    BY <1>1, <2>1, FindableNames
<1>3. DOMAIN found' = DOMAIN found \cup {n} /\ found'[n].unit = OwnName[n]
      /\ \A m \in DOMAIN found : found'[m] = found[m]
  <2> DEFINE shown == Shown(n)
  <2>1. DOMAIN shown = {n} /\ shown[n].unit = OwnName[n]
    <3> HIDE DEF n
    <3> QED
      BY DEF Shown, Service
  <2>2. found' = [m \in DOMAIN found \cup DOMAIN shown |-> IF m \in DOMAIN found THEN found[m] ELSE shown[m]]
    BY DEF ShowUnit
  <2> HIDE DEF n, shown
  <2>3. \A m \in DOMAIN found : found[m].unit = OwnName[m]
    BY DEF DInv, Discovery, Services
  <2> QED
    BY <2>1, <2>2, <2>3
<1>4. Services(found')
  BY <1>2, <1>3 DEF Services, DInv, Discovery
<1>5. Discovery'
  <2>1. Services(found)'
    BY <1>4 DEF Services, Findable, Units
  <2> HIDE DEF n
  <2> QED
    BY <2>1, <1>1, <1>3 DEF ShowUnit, DInv, Discovery
<1>6. Counting'
  BY DEF ShowUnit, DInv, Counting, Counts, CountsPasses, OtherNames
<1> QED
  BY <1>5, <1>6 DEF DInv

\* The row about the collector of the services.
ServicesCollector == "agent:collector:services"

\* A failed discovery touches no row of a unit.
LEMMA CallFailsDInv == ASSUME DInv, CallFails PROVE DInv'
<1>1. Discovery'
  BY DEF CallFails, DInv, Discovery, Services, Range
<1> DEFINE next == ReconcileCollector(incidents, ServicesCollector, TRUE)
<1>2. Counts(next) /\ \A k : k[1] # ServicesCollector => Count(next, k) = Count(incidents, k)
  BY FailureCounts DEF DInv, Counting
<1>3. incidents' = next
  BY DEF CallFails, ServicesCollector
<1>4. \A u \in Units : Count(incidents', <<"service", u>>) = Count(incidents, <<"service", u>>)
  <2>1. \A u : <<"service", u>>[1] = "service"
    OBVIOUS
  <2> HIDE DEF next
  <2> QED
    BY <1>2, <1>3, <2>1 DEF ServicesCollector
<1>5. Holds(unhealthy, incidents')
  BY <1>4, PassesCounted DEF DInv, Counting, Holds
<1> QED
  BY <1>1, <1>2, <1>3, <1>5, PassesCounted DEF CallFails, DInv, Counting

\* A completed one counts what it saw, and has found every configured name.
LEMMA CompleteDInv ==
  ASSUME DInv, Complete
  PROVE  /\ DInv'
         /\ \A i \in DOMAIN Extra :
              \E n \in DOMAIN inventory' :
                 /\ inventory'[n].unit = OwnName[Extra[i]]
                 /\ \/ Healthy(inventory'[n])
                    \/ <<"service", OwnName[Extra[i]]>> \in DOMAIN incidents'
<1> DEFINE observed == ObserveServices(found)
           S == ServiceObservations
           scope == {"service"}
           next == ReconcileCollector(Reconcile(incidents, observed, scope), ServicesCollector, FALSE)
           Bad == {m \in DOMAIN found : ~Healthy(found[m])}
           row(u) == <<"service", u>>
<1>c. Confirmation \in Nat /\ Confirmation >= 1
  BY ConfirmationAssumption
<1>1. /\ observed \in Seq(S)
      /\ Keys(observed) = {row(OwnName[n]) : n \in Bad}
      /\ \A u \in Units : /\ Cardinality(Places(observed, row(u))) \in Nat
                           /\ Cardinality(Places(observed, row(u))) <= 1 + Cardinality(OtherNames(u))
  BY ObservedServices DEF DInv, Discovery
<1>2. incidents' = next
  BY DEF Complete, ServicesCollector
<1>3. unhealthy' = [u \in Units |-> IF \E n \in Bad : OwnName[n] = u THEN Saturating(unhealthy[u]) ELSE 0]
  <2>1. \A u \in Units : (\E n \in DOMAIN found : found[n].unit = u /\ ~Healthy(found[n]))
                          <=> \E n \in Bad : OwnName[n] = u
    BY DEF DInv, Discovery, Services
  <2> HIDE DEF Bad
  <2> QED
    BY <2>1 DEF Complete
<1>4. \A u : row(u)[1] = "service"
  OBVIOUS
<1>5. \A k \in Keys(observed) : k[1] \in scope
  <2> HIDE DEF row, observed
  <2> QED
    BY <1>1, <1>4
<1>6. ~(ServicesCollector \in scope)
  BY DEF ServicesCollector
<1>7. Counts(incidents)
  BY DEF DInv, Counting
<1> HIDE DEF observed, S
<1>8. /\ Counts(next)
      /\ \A k \in Keys(observed) :
           /\ Count(next, k) <= Count(incidents, k) + Cardinality(Places(observed, k))
           /\ Count(next, k) >= Saturating(Count(incidents, k))
  <2> HIDE DEF scope
  <2> QED
    BY <1>1, <1>5, <1>6, <1>7, CountedPass
<1>9. DOMAIN next = Keys(observed) \cup {k \in DOMAIN incidents : k[1] \notin scope /\ k[1] # ServicesCollector}
  <2>1. Collected(next, incidents, observed, scope, ServicesCollector)
    <3> HIDE DEF scope
    <3> QED
      BY <1>1, <1>5, <1>6, CollectedRows
  <2> QED
    BY <2>1 DEF Collected
<1> HIDE DEF next, row, Bad
<1>10. \A u \in Units : row(u) \in Keys(observed) <=> \E n \in Bad : OwnName[n] = u
  <2>1. \A u, v : row(u) = row(v) => u = v
    BY DEF row
  <2> QED
    BY <1>1, <2>1
<1>11. Discovery'
  BY DEF Complete, DInv, Discovery, Services, Range
<1>12. unhealthy' \in [Units -> 0 .. Confirmation]
  <2>1. \A u \in Units : unhealthy[u] \in 0 .. Confirmation
    BY DEF DInv, Counting
  <2>2. \A u \in Units : Saturating(unhealthy[u]) \in 0 .. Confirmation
    BY <2>1, <1>c DEF Saturating
  <2> QED
    BY <1>3, <2>2, <1>c
<1>13. ASSUME NEW u \in Units
       PROVE  /\ unhealthy'[u] <= Count(next, row(u))
              /\ Count(next, row(u)) <= unhealthy'[u] * (1 + Cardinality(OtherNames(u)))
  <2> DEFINE c == 1 + Cardinality(OtherNames(u))
             old == Count(incidents, row(u))
             new == Count(next, row(u))
             p == Cardinality(Places(observed, row(u)))
             n0 == unhealthy[u]
             n1 == unhealthy'[u]
  <2>1. c \in Nat /\ c >= 1
    <3>1. OtherNames(u) \subseteq Names
      BY NamesAssumption DEF OtherNames, Range
    <3>2. Cardinality(OtherNames(u)) \in Nat
      BY <3>1, NamesAssumption, FS_Subset, FS_CardinalityType
    <3> HIDE DEF c
    <3> QED
      BY <3>2 DEF c
  <2>2. old \in 0 .. Confirmation /\ new \in 0 .. Confirmation
    <3> HIDE DEF c
    <3> QED
      BY <1>7, <1>8, <1>c DEF Count, Counts, Counted
  <2>3. n0 \in 0 .. Confirmation /\ n0 <= old /\ old <= n0 * c
    BY PassesCounted DEF DInv, Counting, Holds, row
  <2>4. p \in Nat /\ p <= c
    BY <1>1
  <2>5. CASE row(u) \in Keys(observed)
    <3>1. n1 = Saturating(n0)
      BY <1>3, <1>10, <2>5
    <3>2. new <= old + p /\ new >= Saturating(old)
      BY <1>8, <2>5
    <3> HIDE DEF c, old, new, p, n0, n1
    <3>3. n1 <= new
      BY <3>1, <3>2, <2>2, <2>3, <1>c DEF Saturating
    <3>4. ASSUME n0 < Confirmation PROVE new <= n1 * c
      <4>1. n1 = n0 + 1 /\ n0 \in Nat
        BY <3>1, <3>4, <2>3, <1>c DEF Saturating
      <4>2. (n0 + 1) * c = n0 * c + c
        BY <4>1, <2>1
      <4>3. n0 * c \in Nat
        BY <4>1, <2>1
      <4> DEFINE nc == n0 * c
      <4> HIDE DEF nc
      <4>4. new <= nc + c
        BY <3>2, <2>2, <2>3, <2>4, <2>1, <4>3, <1>c DEF nc
      <4> QED
        BY <4>1, <4>2, <4>4 DEF nc
    <3>5. ASSUME ~(n0 < Confirmation) PROVE new <= n1 * c
      <4>1. n1 = Confirmation
        BY <3>1, <3>5, <2>3, <1>c DEF Saturating
      <4>2. Confirmation <= Confirmation * c
        BY <1>c, <2>1
      <4>3. new <= Confirmation
        BY <2>2, <1>c
      <4>4. Confirmation * c \in Nat
        BY <1>c, <2>1
      <4> QED
        BY <4>1, <4>2, <4>3, <4>4, <2>2, <1>c
    <3> QED
      BY <3>3, <3>4, <3>5 DEF c, new, n1
  <2>6. CASE ~(row(u) \in Keys(observed))
    <3>1. n1 = 0
      BY <1>3, <1>10, <2>6
    <3>2. ~(row(u) \in DOMAIN next)
      BY <1>4, <1>9, <2>6
    <3>3. new = 0
      BY <3>2 DEF Count
    <3> HIDE DEF c, old, p, n0, n1, new
    <3> QED
      BY <3>1, <3>3, <2>1 DEF c, n1, new
  <2> QED
    BY <2>5, <2>6
<1>14. Holds(unhealthy', next)
  BY <1>13 DEF Holds, row
<1>15. DInv'
  BY <1>2, <1>8, <1>11, <1>12, <1>14, PassesCounted DEF DInv, Counting
<1>16. ASSUME NEW i \in DOMAIN Extra
       PROVE  \E n \in DOMAIN inventory' :
                 /\ inventory'[n].unit = OwnName[Extra[i]]
                 /\ \/ Healthy(inventory'[n])
                    \/ row(OwnName[Extra[i]]) \in DOMAIN incidents'
  <2> DEFINE n == Extra[i]
  <2>1. Range(todo) = {}
    BY DEF Complete, Range
  <2>2. n \in DOMAIN found
    BY <2>1 DEF Complete, DInv, Discovery, Range
  <2>3. found[n].unit = OwnName[n]
    BY <2>2 DEF DInv, Discovery, Services
  <2>4. inventory' = found
    BY DEF Complete
  <2>5. ~Healthy(found[n]) => row(OwnName[n]) \in DOMAIN incidents'
    BY <1>1, <1>2, <1>9, <2>2 DEF Bad
  <2> QED
    BY <2>2, <2>3, <2>4, <2>5
<1> QED
  BY <1>15, <1>16 DEF row

\* What happens to the units changes nothing before a call asks for them.
LEMMA MachineChangesDInv == ASSUME DInv, MachineChanges PROVE DInv'
<1>1. Discovery'
  BY DEF MachineChanges, DInv, Discovery, Services
<1>2. Counting'
  BY PassesCounted DEF MachineChanges, DInv, Counting, Counts
<1> QED
  BY <1>1, <1>2 DEF DInv

\* Every step keeps the invariant.
LEMMA StepDInv == DInv /\ [DiscoveryNext]_discoveryVars => DInv'
<1> SUFFICES ASSUME DInv, [DiscoveryNext]_discoveryVars PROVE DInv'
  OBVIOUS
<1>1. CASE ListUnits
  BY <1>1, ListUnitsDInv
<1>2. CASE ShowUnit
  BY <1>2, ShowUnitDInv
<1>3. CASE Complete
  BY <1>3, CompleteDInv
<1>4. CASE CallFails
  BY <1>4, CallFailsDInv
<1>5. CASE MachineChanges
  BY <1>5, MachineChangesDInv
<1>6. CASE UNCHANGED discoveryVars
  <2>1. Discovery'
    BY <1>6 DEF discoveryVars, DInv, Discovery, Services
  <2>2. Counting'
    BY <1>6, PassesCounted DEF discoveryVars, DInv, Counting, Counts
  <2> QED
    BY <2>1, <2>2 DEF DInv
<1> QED
  BY <1>1, <1>2, <1>3, <1>4, <1>5, <1>6 DEF DiscoveryNext

\* Nothing is lost and everything is counted, in every reachable state.
THEOREM DiscoveryInductive == DiscoverySpec => []DInv
<1> QED
  BY InitDInv, StepDInv, PTL DEF DiscoverySpec

\* CountsPasses, for every set of units and names, every configuration and every
\* confirmation count.
THEOREM PassesAreCounted == DiscoverySpec => []CountsPasses
<1>1. DInv => CountsPasses
  BY DEF DInv, Counting
<1> QED
  BY <1>1, DiscoveryInductive, PTL

\* ConfiguredIsWatched, likewise: a completed discovery has every configured unit, and
\* an incident of each that does not run.
THEOREM NoneIsLostSightOf == DiscoverySpec => ConfiguredIsWatched
<1>1. DInv /\ [DiscoveryNext]_discoveryVars =>
        [Complete =>
          \A i \in DOMAIN Extra :
            \E n \in DOMAIN inventory' :
                /\ inventory'[n].unit = OwnName[Extra[i]]
                /\ \/ Healthy(inventory'[n])
                   \/ <<"service", OwnName[Extra[i]]>> \in DOMAIN incidents']_discoveryVars
  BY CompleteDInv
<1> QED
  BY <1>1, DiscoveryInductive, PTL DEF DiscoverySpec, ConfiguredIsWatched

-----------------------------------------------------------------------------
(***************************************************************************)
(* Retention.  Ids are unique (TypeOK, inductive by itself), so that the   *)
(* rows that are kept have an oldest one, with all the others newer: fewer *)
(* than max.  And the newest of the rows that go has max newer ones, all   *)
(* of which stay.                                                          *)
(*                                                                         *)
(* Events also go when they are old: a transaction that finds more than a  *)
(* chunk of them removes a chunk (ChunkGoes), and one that finds fewer     *)
(* leaves none.                                                            *)
(***************************************************************************)

\* Rows of a numbered table have a newest one among them ...
LEMMA HasNewest ==
    ASSUME NEW R, NEW last \in Nat, Numbered(R, last), NEW S \in SUBSET R, S # {}
    PROVE  \E x \in S : \A y \in S : y.id <= x.id
<1> DEFINE F == {Newer(R, x) : x \in S}
<1>1. F \in SUBSET SUBSET R /\ F # {} /\ IsFiniteSet(R)
  <2>1. \A x \in S : Newer(R, x) \in SUBSET R
    BY DEF Newer
  <2>2. QED
    BY <2>1 DEF Numbered
<1>2. PICK A \in F : \A B \in F : B \subseteq A => B = A
  <2> HIDE DEF F
  <2> QED BY <1>1, HasMinimal
<1>3. PICK x \in S : A = Newer(R, x)
  BY <1>2
<1>4. ASSUME NEW y \in S, ~ (y.id <= x.id) PROVE FALSE
  <2>1. \A r \in R : r.id \in Nat
    BY DEF Numbered, Rows
  <2>2. Newer(R, y) \subseteq Newer(R, x)
    BY <1>4, <2>1 DEF Newer
  <2>3. y \in Newer(R, x) /\ y \notin Newer(R, y)
    BY <1>4, <2>1 DEF Newer
  <2>4. QED
    BY <1>2, <1>3, <2>2, <2>3
<1>5. QED
  BY <1>4

\* ... and an oldest one.
LEMMA HasOldest ==
    ASSUME NEW R, NEW last \in Nat, Numbered(R, last), NEW S \in SUBSET R, S # {}
    PROVE  \E x \in S : \A y \in S : x.id <= y.id
<1> DEFINE Older(x) == {r \in R : r.id < x.id}
           F == {Older(x) : x \in S}
<1>1. F \in SUBSET SUBSET R /\ F # {} /\ IsFiniteSet(R)
  <2>1. \A x \in S : Older(x) \in SUBSET R
    OBVIOUS
  <2> HIDE DEF Older
  <2>2. QED
    BY <2>1 DEF Numbered
<1>2. PICK A \in F : \A B \in F : B \subseteq A => B = A
  <2> HIDE DEF F
  <2> QED BY <1>1, HasMinimal
<1>3. PICK x \in S : A = Older(x)
  BY <1>2
<1>4. ASSUME NEW y \in S, ~ (x.id <= y.id) PROVE FALSE
  <2>1. \A r \in R : r.id \in Nat
    BY DEF Numbered, Rows
  <2>2. Older(y) \subseteq Older(x)
    BY <1>4, <2>1
  <2>3. y \in Older(x) /\ y \notin Older(y)
    BY <1>4, <2>1
  <2>4. QED
    BY <1>2, <1>3, <2>2, <2>3
<1>5. QED
  BY <1>4

-----------------------------------------------------------------------------
\* A part of a numbered table is numbered.
LEMMA PartNumbered ==
    ASSUME NEW R, NEW last \in Nat, Numbered(R, last), NEW S \in SUBSET R
    PROVE  Numbered(S, last)
  BY FS_Subset DEF Numbered

\* At most max rows are kept: the oldest of them has all the others after it.
LEMMA KeptAreFew ==
    ASSUME NEW R, NEW last \in Nat, Numbered(R, last), NEW max \in Nat
    PROVE  Cardinality(KeepNewest(R, max)) <= max
<1> DEFINE K == KeepNewest(R, max)
<1>1. K \in SUBSET R /\ IsFiniteSet(K) /\ Cardinality(K) \in Nat
  BY FS_Subset, FS_CardinalityType DEF KeepNewest, Numbered
<1>2. CASE K = {}
  BY <1>2, FS_EmptySet
<1>3. CASE K # {}
  <2>1. PICK x \in K : \A y \in K : x.id <= y.id
    BY <1>1, <1>3, HasOldest
  <2>2. K \ {x} \subseteq Newer(R, x)
    BY <1>1, <2>1 DEF Newer, Numbered, Rows
  <2>3. IsFiniteSet(Newer(R, x)) /\ Cardinality(Newer(R, x)) \in Nat
    BY FS_Subset, FS_CardinalityType DEF Newer, Numbered
  <2>4. Cardinality(Newer(R, x)) < max
    BY <1>1, <2>3 DEF KeepNewest, Overflow
  <2>5. Cardinality(K \ {x}) = Cardinality(K) - 1
    BY <1>1, <2>1, FS_RemoveElement
  <2>6. Cardinality(K \ {x}) <= Cardinality(Newer(R, x))
    BY <2>2, <2>3, FS_Subset
  <2>7. QED
    BY <1>1, <2>3, <2>4, <2>5, <2>6
<1>4. QED
  BY <1>2, <1>3

\* A row that is too much leaves max newer rows behind: those after the newest of
\* the rows that go.
LEMMA EnoughStay ==
    ASSUME NEW R, NEW last \in Nat, Numbered(R, last), NEW max \in Nat,
           NEW r \in Overflow(R, max)
    PROVE  Cardinality(Newer(KeepNewest(R, max), r)) >= max
<1> DEFINE K == KeepNewest(R, max)
<1>1. Overflow(R, max) \in SUBSET R /\ Overflow(R, max) # {}
  BY DEF Overflow
<1>2. PICK x \in Overflow(R, max) : \A y \in Overflow(R, max) : y.id <= x.id
  BY <1>1, HasNewest
<1>3. x \in R /\ r \in R /\ x.id \in Nat /\ r.id \in Nat /\ r.id <= x.id
  BY <1>1, <1>2 DEF Numbered, Rows
<1>4. Newer(R, x) \subseteq Newer(K, r)
  <2> SUFFICES ASSUME NEW s \in Newer(R, x) PROVE s \in Newer(K, r)
    OBVIOUS
  <2>1. s \in R /\ s.id \in Nat /\ s.id > x.id
    BY DEF Newer, Numbered, Rows
  <2>2. s \notin Overflow(R, max)
    BY <1>2, <1>3, <2>1
  <2>3. QED
    BY <1>3, <2>1, <2>2 DEF Newer, KeepNewest
<1>5. IsFiniteSet(Newer(K, r)) /\ IsFiniteSet(Newer(R, x))
  BY FS_Subset DEF Newer, KeepNewest, Numbered
<1>6. Cardinality(Newer(R, x)) >= max
  BY <1>2 DEF Overflow
<1>7. Cardinality(Newer(R, x)) <= Cardinality(Newer(K, r))
  BY <1>4, <1>5, FS_Subset
<1>8. Cardinality(Newer(R, x)) \in Nat /\ Cardinality(Newer(K, r)) \in Nat
  BY <1>5, FS_CardinalityType
<1>9. QED
  BY <1>6, <1>7, <1>8

\* Rows with new ids keep a table numbered.
LEMMA MoreNumbered ==
    ASSUME NEW R, NEW last \in Nat, Numbered(R, last), NEW n \in Nat, NEW t \in Int
    PROVE  Numbered(R \cup [id : last + 1 .. last + n, at : {t}], last + n)
<1> DEFINE N == [id : last + 1 .. last + n, at : {t}]
<1>1. IsFiniteSet(N)
  <2> DEFINE f == [x \in N |-> x.id]
  <2>1. f \in [N -> last + 1 .. last + n]
    OBVIOUS
  <2>2. \A x, y \in N : f[x] = f[y] => x = y
    OBVIOUS
  <2>3. f \in Injection(N, last + 1 .. last + n)
    BY <2>1, <2>2 DEF Injection, IsInjective
  <2>4. IsFiniteSet(last + 1 .. last + n)
    BY FS_Interval
  <2>5. QED
    BY <2>3, <2>4, FS_Injection
<1>2. IsFiniteSet(R \cup N)
  BY <1>1, FS_Union DEF Numbered
<1>3. \A r \in N : r \in Rows /\ r.id \in last + 1 .. last + n /\ r.at = t
  BY DEF Rows
<1>4. R \cup N \subseteq Rows
  BY <1>3 DEF Numbered
<1>5. \A r \in R \cup N : r.id \in 1 .. last + n
  BY <1>3 DEF Numbered
<1>6. \A r, s \in R \cup N : r.id = s.id => r = s
  <2> SUFFICES ASSUME NEW r \in R \cup N, NEW s \in R \cup N, r.id = s.id PROVE r = s
    OBVIOUS
  <2>1. CASE r \in R /\ s \in R
    BY <2>1 DEF Numbered
  <2>2. CASE r \in N /\ s \in N
    BY <2>2
  <2>3. CASE r \in R /\ s \in N
    BY <1>3, <2>3 DEF Numbered
  <2>4. CASE r \in N /\ s \in R
    BY <1>3, <2>4 DEF Numbered
  <2>5. QED
    BY <2>1, <2>2, <2>3, <2>4
<1>7. QED
  BY <1>2, <1>4, <1>5, <1>6 DEF Numbered

-----------------------------------------------------------------------------
\* What an event does to the log: the table stays numbered and limited, and a row
\* goes only if it is due.
LEMMA WriteEventKeeps ==
    ASSUME TypeOK, NEW at \in 0 .. now, WriteEvent(at)
    PROVE  /\ lastAudit' \in Nat
           /\ Numbered(audit', lastAudit')
           /\ Cardinality(audit') <= AuditMax
           /\ \A r \in audit \ audit' :
                \/ r.at < now - AuditRetention
                \/ Cardinality(Newer(audit', r)) >= AuditMax
<1> DEFINE rows == audit \cup [id : {lastAudit + 1}, at : {at}]
           rest == rows \ Oldest(rows, at - AuditRetention)
<1>1. lastAudit \in Nat /\ lastAudit' = lastAudit + 1 /\ Numbered(audit, lastAudit) /\ now \in Nat
  BY DEF TypeOK, WriteEvent
<1>2. rows = audit \cup [id : lastAudit + 1 .. lastAudit + 1, at : {at}]
  <2>1. lastAudit + 1 .. lastAudit + 1 = {lastAudit + 1}
    BY <1>1
  <2>2. QED
    BY <2>1
<1>3. Numbered(rows, lastAudit')
  BY <1>1, <1>2, MoreNumbered
<1>4. rest \in SUBSET rows
  OBVIOUS
<1>5. audit' = KeepNewest(rest, AuditMax)
  BY DEF WriteEvent
<1>6. AuditMax \in Nat /\ AuditRetention \in Nat
  BY RetentionAssumption
<1>7. \A r \in audit : r \in rows /\ r.at \in Int
  BY <1>1 DEF Numbered, Rows
<1>8. ASSUME NEW r \in audit, r \in Oldest(rows, at - AuditRetention)
      PROVE  r.at < now - AuditRetention
  BY <1>1, <1>6, <1>7, <1>8 DEF Oldest, Expired
<1> HIDE DEF rows, rest
<1>9. Numbered(rest, lastAudit') /\ lastAudit' \in Nat
  BY <1>1, <1>3, <1>4, PartNumbered
<1>10. Numbered(audit', lastAudit') /\ Cardinality(audit') <= AuditMax
  BY <1>5, <1>6, <1>9, PartNumbered, KeptAreFew DEF KeepNewest
<1>11. ASSUME NEW r \in audit \ audit'
       PROVE  \/ r.at < now - AuditRetention
              \/ Cardinality(Newer(audit', r)) >= AuditMax
  <2>1. CASE r \in Oldest(rows, at - AuditRetention)
    BY <1>8, <2>1
  <2>2. CASE r \notin Oldest(rows, at - AuditRetention)
    <3>1. r \in rest
      BY <1>7, <2>2 DEF rest
    <3>2. r \in Overflow(rest, AuditMax)
      BY <1>5, <3>1 DEF KeepNewest
    <3>3. QED
      BY <1>5, <1>6, <1>9, <3>2, EnoughStay
  <2>3. QED
    BY <2>1, <2>2
<1>12. QED
  BY <1>9, <1>10, <1>11

\* The same for the recoveries of a pass and the history.
LEMMA ReconcileKeeps ==
    ASSUME TypeOK, CommitReconcile
    PROVE  /\ lastHistory' \in Nat
           /\ Numbered(history', lastHistory')
           /\ Cardinality(history') <= HistoryMax
           /\ \A r \in history \ history' :
                \/ r.at < now - HistoryRetention
                \/ Cardinality(Newer(history', r)) >= HistoryMax
<1>1. lastHistory \in Nat /\ Numbered(history, lastHistory) /\ now \in Nat /\ clock \in 0 .. now
  BY DEF TypeOK
<1>2. HistoryMax \in Nat /\ HistoryRetention \in Nat /\ MaxRecoveries \in Nat
  BY RetentionAssumption
<1>3. PICK n \in 0 .. MaxRecoveries :
        /\ lastHistory' = lastHistory + n
        /\ LET rows == history \cup [id : lastHistory + 1 .. lastHistory + n, at : {clock}]
               old == Expired(rows, clock - HistoryRetention)
           IN  \E gone \in SUBSET old : history' = KeepNewest(rows \ gone, HistoryMax)
  BY DEF CommitReconcile
<1> DEFINE rows == history \cup [id : lastHistory + 1 .. lastHistory + n, at : {clock}]
<1>4. PICK gone \in SUBSET Expired(rows, clock - HistoryRetention) :
        history' = KeepNewest(rows \ gone, HistoryMax)
  BY <1>3
<1>5. n \in Nat /\ lastHistory' \in Nat
  BY <1>1, <1>2, <1>3
<1>6. Numbered(rows, lastHistory')
  BY <1>1, <1>3, <1>5, MoreNumbered
<1>7. \A r \in history : r \in rows /\ r.at \in Int
  BY <1>1 DEF Numbered, Rows
<1> HIDE DEF rows
<1>8. Numbered(rows \ gone, lastHistory')
  BY <1>5, <1>6, PartNumbered
<1>9. Numbered(history', lastHistory') /\ Cardinality(history') <= HistoryMax
  BY <1>2, <1>4, <1>5, <1>8, PartNumbered, KeptAreFew DEF KeepNewest
<1>10. ASSUME NEW r \in history \ history'
       PROVE  \/ r.at < now - HistoryRetention
              \/ Cardinality(Newer(history', r)) >= HistoryMax
  <2>1. CASE r \in gone
    BY <1>1, <1>2, <1>4, <1>7, <2>1 DEF Expired
  <2>2. CASE r \notin gone
    <3>1. r \in Overflow(rows \ gone, HistoryMax)
      BY <1>4, <1>7, <2>2 DEF KeepNewest
    <3>2. QED
      BY <1>2, <1>4, <1>5, <1>8, <3>1, EnoughStay
  <2>3. QED
    BY <2>1, <2>2
<1>11. QED
  BY <1>5, <1>9, <1>10

\* The inductive invariant is the conjunction of the two that are checked.
LInv == TypeOK /\ LogsAreLimited

\* At first both logs are empty.
LEMMA InitLInv == LogInit => LInv
<1>1. IsFiniteSet({}) /\ Cardinality({}) = 0
  BY FS_EmptySet
<1>2. QED
  BY <1>1, RetentionAssumption DEF LogInit, LInv, TypeOK, LogsAreLimited, Numbered, Rows

\* One step of either log; all the others leave both alone.
Kept == /\ \A r \in audit \ audit' :
             \/ r.at < now - AuditRetention
             \/ Cardinality(Newer(audit', r)) >= AuditMax
        /\ \A r \in history \ history' :
             \/ r.at < now - HistoryRetention
             \/ Cardinality(Newer(history', r)) >= HistoryMax

\* Every step keeps the invariant, and lets no row go early.
LEMMA NextLInv == LInv /\ [LogNext]_logVars => LInv' /\ Kept
<1> SUFFICES ASSUME LInv, [LogNext]_logVars PROVE LInv' /\ Kept
  OBVIOUS
<1> USE DEF LInv
<1>1. CASE Begin("audit") \/ Begin("reconcile")
  BY <1>1 DEF Begin, TypeOK, LogsAreLimited, Kept
<1>2. CASE CommitAudit
  <2>1. clock \in 0 .. now /\ WriteEvent(clock)
    BY <1>2 DEF CommitAudit, TypeOK
  <2>2. QED
    BY <1>2, <2>1, WriteEventKeeps DEF CommitAudit, TypeOK, LogsAreLimited, Kept
<1>3. CASE ChangeOwner
  <2>1. now \in 0 .. now /\ WriteEvent(now)
    BY <1>3 DEF ChangeOwner, TypeOK
  <2>2. QED
    BY <1>3, <2>1, WriteEventKeeps DEF ChangeOwner, TypeOK, LogsAreLimited, Kept
<1>4. CASE CommitReconcile
  <2>1. /\ UNCHANGED <<now, audit, lastAudit, clock>>
        /\ job' = "none"
    BY <1>4 DEF CommitReconcile
  <2>2. QED
    BY <1>4, <2>1, ReconcileKeeps DEF TypeOK, LogsAreLimited, Kept
<1>5. CASE Abandon
  BY <1>5 DEF Abandon, TypeOK, LogsAreLimited, Kept
<1>6. CASE Tick
  BY <1>6 DEF Tick, TypeOK, LogsAreLimited, Kept
<1>7. CASE UNCHANGED logVars
  BY <1>7 DEF logVars, TypeOK, LogsAreLimited, Kept
<1>8. QED
  BY <1>1, <1>2, <1>3, <1>4, <1>5, <1>6, <1>7 DEF LogNext

\* TypeOK and LogsAreLimited hold together, for all limits and any number of rows.
THEOREM LogsInductive == LogSpec => []LInv
  BY InitLInv, NextLInv, PTL DEF LogSpec

\* Every variable keeps its type, and an id names one row.
THEOREM LogsTypeCorrect == LogSpec => []TypeOK
<1>1. LInv => TypeOK
  BY DEF LInv
<1>2. QED
  BY <1>1, LogsInductive, PTL

\* Audit log and history never hold more rows than their maxima.
THEOREM LogsLimited == LogSpec => []LogsAreLimited
<1>1. LInv => LogsAreLimited
  BY DEF LInv
<1>2. QED
  BY <1>1, LogsInductive, PTL

\* No row goes before its time, unless as many newer ones as may be stay.
THEOREM NothingGoesEarly == LogSpec => EventsAreKept
<1>1. LInv /\ [LogNext]_logVars =>
        [/\ \A r \in audit \ audit' :
              \/ r.at < now - AuditRetention
              \/ Cardinality(Newer(audit', r)) >= AuditMax
         /\ \A r \in history \ history' :
              \/ r.at < now - HistoryRetention
              \/ Cardinality(Newer(history', r)) >= HistoryMax]_logVars
  BY NextLInv DEF Kept
<1>2. QED
  BY <1>1, LogsInductive, PTL DEF LogSpec, EventsAreKept

-----------------------------------------------------------------------------
\* What is too old goes chunk by chunk: if a row too old is left over, the chunk was full.
LEMMA ChunkGoes ==
    ASSUME NEW R, NEW last \in Nat, Numbered(R, last), NEW cutoff \in Int,
           Expired(R, cutoff) \ Oldest(R, cutoff) # {}
    PROVE  Cardinality(Oldest(R, cutoff)) >= Chunk
<1> DEFINE old == Expired(R, cutoff)
           gone == Oldest(R, cutoff)
<1>1. old \in SUBSET R /\ gone \in SUBSET old /\ IsFiniteSet(R)
  BY DEF Expired, Oldest, Numbered
<1>2. PICK x \in old \ gone : \A y \in old \ gone : x.id <= y.id
  <2>1. old \ gone \in SUBSET R
    BY <1>1
  <2> HIDE DEF old, gone
  <2>2. old \ gone # {}
    BY DEF old, gone
  <2>3. QED
    BY <2>1, <2>2, HasOldest
<1> DEFINE before == {s \in old : s.id < x.id}
<1>3. before \subseteq gone
  <2>1. \A s \in old : s.id \in Int
    BY <1>1 DEF Numbered, Rows
  <2> HIDE DEF old, gone
  <2>2. QED
    BY <1>2, <2>1
<1>4. ~(Cardinality(before) < Chunk)
  BY <1>2 DEF Oldest
<1>5. IsFiniteSet(gone) /\ IsFiniteSet(before)
  BY <1>1, <1>3, FS_Subset
<1> HIDE DEF old, gone, before
<1>6. Cardinality(before) <= Cardinality(gone)
  BY <1>3, <1>5, FS_Subset
<1>7. Cardinality(before) \in Nat /\ Cardinality(gone) \in Nat /\ Chunk \in Nat
  BY <1>5, FS_CardinalityType, RetentionAssumption
<1>8. QED
  BY <1>4, <1>6, <1>7 DEF gone

\* After an event no row is too old by its clock, or a whole chunk of those has gone.
LEMMA WriteEventClears ==
    ASSUME TypeOK, NEW at \in 0 .. now, WriteEvent(at), NEW cutoff, cutoff = at - AuditRetention
    PROVE  \/ Expired(audit', cutoff) = {}
           \/ Cardinality(Expired(audit, cutoff)) - Cardinality(Expired(audit', cutoff)) >= Chunk
<1> DEFINE rows == audit \cup [id : {lastAudit + 1}, at : {at}]
           old == Expired(audit, cutoff)
           gone == Oldest(rows, cutoff)
           left == Expired(audit', cutoff)
<1>1. lastAudit \in Nat /\ lastAudit' = lastAudit + 1 /\ Numbered(audit, lastAudit) /\ now \in Nat
  BY DEF TypeOK, WriteEvent
<1>2. cutoff \in Int /\ AuditRetention \in Nat /\ Chunk \in Nat /\ ~(at < cutoff)
  BY <1>1, RetentionAssumption
<1>3. Numbered(rows, lastAudit')
  <2>1. lastAudit + 1 .. lastAudit + 1 = {lastAudit + 1}
    BY <1>1
  <2>2. rows = audit \cup [id : lastAudit + 1 .. lastAudit + 1, at : {at}]
    BY <2>1
  <2>3. QED
    BY <1>1, <2>2, MoreNumbered
<1>4. Expired(rows, cutoff) = old
  BY <1>2 DEF Expired
<1>5. left \subseteq old \ gone
  <2>1. audit' \subseteq rows \ gone
    BY DEF WriteEvent, KeepNewest
  <2> HIDE DEF rows, gone
  <2>2. left \subseteq Expired(rows, cutoff) \ gone
    BY <2>1 DEF Expired
  <2>3. QED
    BY <1>4, <2>2
<1>6. gone \subseteq old
  BY <1>4 DEF Oldest
<1>7. IsFiniteSet(old)
  BY <1>1, FS_Subset DEF Expired, Numbered
<1>8. CASE old \ gone = {}
  BY <1>5, <1>8
<1>9. CASE old \ gone # {}
  <2> HIDE DEF rows, old, gone, left
  <2>1. Cardinality(gone) >= Chunk
    <3>1. Expired(rows, cutoff) \ Oldest(rows, cutoff) # {} /\ lastAudit' \in Nat
      BY <1>1, <1>4, <1>9 DEF gone
    <3>2. QED
      BY <1>2, <1>3, <3>1, ChunkGoes DEF gone
  <2>2. /\ IsFiniteSet(gone) /\ IsFiniteSet(old \ gone) /\ IsFiniteSet(left)
        /\ Cardinality(left) <= Cardinality(old \ gone)
    BY <1>5, <1>6, <1>7, FS_Subset
  <2>3. Cardinality(old \ gone) = Cardinality(old) - Cardinality(gone)
    <3>1. old \cap gone = gone
      BY <1>6
    <3>2. QED
      BY <1>7, <3>1, FS_Difference
  <2>4. /\ Cardinality(left) \in Nat /\ Cardinality(old) \in Nat /\ Cardinality(gone) \in Nat
    BY <1>7, <2>2, FS_CardinalityType
  <2>5. Cardinality(old) - Cardinality(left) >= Chunk
    BY <1>2, <2>1, <2>2, <2>3, <2>4
  <2>6. QED
    BY <2>5 DEF old, left
<1>10. QED
  BY <1>8, <1>9

\* A transaction that adds an event leaves none that is too old by its clock, or has
\* removed a whole chunk of them: the backlog shrinks, whatever the limits are.
THEOREM BacklogShrinks == LogSpec => OldEventsGo
<1>1. LInv /\ [LogNext]_logVars =>
        [lastAudit' # lastAudit
         => LET cutoff == (IF job' # job THEN clock ELSE now) - AuditRetention
            IN  \/ Expired(audit', cutoff) = {}
                \/ Cardinality(Expired(audit, cutoff)) - Cardinality(Expired(audit', cutoff))
                     >= Chunk]_logVars
  <2> DEFINE cutoff == (IF job' # job THEN clock ELSE now) - AuditRetention
  <2> SUFFICES ASSUME LInv, [LogNext]_logVars, lastAudit' # lastAudit
               PROVE  \/ Expired(audit', cutoff) = {}
                      \/ Cardinality(Expired(audit, cutoff)) - Cardinality(Expired(audit', cutoff))
                           >= Chunk
    OBVIOUS
  <2>1. TypeOK
    BY DEF LInv
  <2>2. CASE CommitAudit
    <3>1. clock \in 0 .. now /\ WriteEvent(clock) /\ cutoff = clock - AuditRetention
      BY <2>1, <2>2 DEF CommitAudit, TypeOK
    <3> HIDE DEF cutoff
    <3>2. QED
      BY <2>1, <3>1, WriteEventClears
  <2>3. CASE ChangeOwner
    <3>1. now \in 0 .. now /\ WriteEvent(now) /\ cutoff = now - AuditRetention
      BY <2>1, <2>3 DEF ChangeOwner, TypeOK
    <3> HIDE DEF cutoff
    <3>2. QED
      BY <2>1, <3>1, WriteEventClears
  <2>4. CommitAudit \/ ChangeOwner
    BY DEF LogNext, Begin, CommitReconcile, Abandon, Tick, logVars
  <2>5. QED
    BY <2>2, <2>3, <2>4
<1>2. QED
  BY <1>1, LogsInductive, PTL DEF LogSpec, OldEventsGo
=============================================================================
