------------------------- MODULE DayAssignment_proofs -------------------------
(***************************************************************************)
(* Proofs about DayAssignment, for any number of workers, tasks and days   *)
(* and any plan that satisfies PlansAssumption.  The steps of the engine   *)
(* are those of AssignmentEngine, and what is proved about them is cited   *)
(* from AssignmentEngine_proofs.  The second half is about the screen and  *)
(* the validator (DayView, Validator): what a plan and its stored days     *)
(* look like, whatever absences and days off change in between.            *)
(***************************************************************************)
EXTENDS Validator, SequenceLemmas

-----------------------------------------------------------------------------
(* A finite set can be put in order: everything has its rank. *)

\* An order, as the set of its pairs, is strict and total on S.
Orders(R, S) ==
    /\ \A a \in S : <<a, a>> \notin R
    /\ \A a, b, c \in S : <<a, b>> \in R /\ <<b, c>> \in R => <<a, c>> \in R
    /\ \A a, b \in S : a # b => <<a, b>> \in R \/ <<b, a>> \in R

\* How many come before x.
Rank(x, R, S) == Cardinality({y \in S : <<y, x>> \in R})

LEMMA RankType ==
    ASSUME NEW S, IsFiniteSet(S), NEW R, Orders(R, S), NEW x \in S
    PROVE  Rank(x, R, S) \in Nat /\ Rank(x, R, S) + 1 \in 1 .. Cardinality(S)
<1>. DEFINE B == {y \in S : <<y, x>> \in R}
<1>1. B \subseteq S /\ B # S
  BY DEF Orders
<1>2. IsFiniteSet(B) /\ Cardinality(B) <= Cardinality(S) /\ Cardinality(B) # Cardinality(S)
  BY <1>1, FS_Subset
<1>3. Cardinality(B) \in Nat /\ Cardinality(S) \in Nat
  BY <1>2, FS_CardinalityType
<1>. HIDE DEF B
<1>4. Rank(x, R, S) = Cardinality(B)
  BY DEF Rank, B
<1>. QED BY <1>2, <1>3, <1>4

LEMMA RankRises ==
    ASSUME NEW S, IsFiniteSet(S), NEW R, Orders(R, S), NEW x \in S, NEW y \in S,
           <<x, y>> \in R
    PROVE  Rank(x, R, S) < Rank(y, R, S)
<1>. DEFINE B == {z \in S : <<z, x>> \in R}
            C == {z \in S : <<z, y>> \in R}
<1>1. B \subseteq C /\ x \in C /\ x \notin B
  BY DEF Orders
<1>2. IsFiniteSet(C)
  BY FS_Subset
<1>3. IsFiniteSet(B) /\ Cardinality(B) <= Cardinality(C) /\ Cardinality(B) # Cardinality(C)
  BY <1>1, <1>2, FS_Subset
<1>4. Cardinality(B) \in Nat /\ Cardinality(C) \in Nat
  BY <1>2, <1>3, FS_CardinalityType
<1>. HIDE DEF B, C
<1>5. Rank(x, R, S) = Cardinality(B) /\ Rank(y, R, S) = Cardinality(C)
  BY DEF Rank, B, C
<1>. QED BY <1>3, <1>4, <1>5

\* There is an enumeration of S in the order R.
LEMMA SortingExists ==
    ASSUME NEW S, IsFiniteSet(S), NEW R, Orders(R, S)
    PROVE  \E s \in [1 .. Cardinality(S) -> S] :
              \A i, j \in 1 .. Cardinality(S) : i < j => <<s[i], s[j]>> \in R
<1>. PICK n \in Nat : n = Cardinality(S)
  BY FS_CardinalityType
<1>. DEFINE spot == [x \in S |-> Rank(x, R, S) + 1]
<1>1. spot \in [S -> 1 .. n]
  BY RankType
<1>2. \A x, y \in S : spot[x] = spot[y] => x = y
  <2>. SUFFICES ASSUME NEW x \in S, NEW y \in S, spot[x] = spot[y], x # y PROVE FALSE
    OBVIOUS
  <2>1. Rank(x, R, S) \in Nat /\ Rank(y, R, S) \in Nat
    BY RankType
  <2>2. Rank(x, R, S) < Rank(y, R, S) \/ Rank(y, R, S) < Rank(x, R, S)
    BY RankRises DEF Orders
  <2>3. Rank(x, R, S) = Rank(y, R, S)
    BY <2>1
  <2>. QED BY <2>1, <2>2, <2>3
<1>3. spot \in Injection(S, 1 .. n)
  BY <1>1, <1>2 DEF Injection, IsInjective
<1>4. IsFiniteSet(1 .. n) /\ Cardinality(1 .. n) = n
  BY FS_Interval
<1>5. spot \in Surjection(S, 1 .. n)
  BY <1>3, <1>4, FS_Injection
<1>6. \A k \in 1 .. n : \E x \in S : spot[x] = k
  BY <1>5 DEF Surjection
<1>. DEFINE s == [k \in 1 .. n |-> CHOOSE x \in S : spot[x] = k]
<1>7. s \in [1 .. n -> S] /\ \A k \in 1 .. n : spot[s[k]] = k
  BY <1>6
<1>. HIDE DEF s
<1>8. ASSUME NEW i \in 1 .. n, NEW j \in 1 .. n, i < j
      PROVE  <<s[i], s[j]>> \in R
  <2>1. s[i] \in S /\ s[j] \in S /\ Rank(s[i], R, S) + 1 = i /\ Rank(s[j], R, S) + 1 = j
    BY <1>7
  <2>2. s[i] # s[j]
    BY <1>8, <2>1
  <2>3. Rank(s[i], R, S) \in Nat /\ Rank(s[j], R, S) \in Nat
    BY <2>1, RankType
  <2>4. ~(Rank(s[j], R, S) < Rank(s[i], R, S))
    BY <1>8, <2>1, <2>3
  <2>5. <<s[j], s[i]>> \notin R
    BY <2>1, <2>4, RankRises
  <2>. QED BY <2>1, <2>2, <2>5 DEF Orders
<1>. QED BY <1>7, <1>8

\* What Sorted returns for an order R that the operator means.
LEMMA SortedWorkers ==
    ASSUME NEW S, S \subseteq Worker
    PROVE  /\ Sorted(S, <) \in Engine!Roster
           /\ Sorted(S, <) \in Seq(S)
           /\ \A i, j \in 1 .. Len(Sorted(S, <)) : i < j => Sorted(S, <)[i] < Sorted(S, <)[j]
<1>1. IsFiniteSet(S) /\ Worker \subseteq Int
  <2>1. IsFiniteSet(Worker) /\ Worker \subseteq Int
    BY PlansAssumption, FS_Interval DEF Worker
  <2>. QED BY <2>1, FS_Subset
<1>. PICK n \in Nat : n = Cardinality(S)
  BY <1>1, FS_CardinalityType
<1>. DEFINE R == {p \in Worker \X Worker : p[1] < p[2]}
<1>2. \A a, b \in S : <<a, b>> \in R <=> a < b
  OBVIOUS
<1>3. Orders(R, S)
  BY <1>1, <1>2 DEF Orders
<1>4. \E s \in [1 .. n -> S] : \A i, j \in 1 .. n : i < j => <<s[i], s[j]>> \in R
  BY <1>1, <1>3, SortingExists
<1>5. \E s \in [1 .. n -> S] : \A i, j \in 1 .. n : i < j => s[i] < s[j]
  BY <1>2, <1>4
<1>. DEFINE s == Sorted(S, <)
<1>6. s \in [1 .. n -> S] /\ \A i, j \in 1 .. n : i < j => s[i] < s[j]
  BY <1>5 DEF Sorted
<1>. HIDE DEF s
<1>7. s \in Seq(S) /\ Len(s) = n
  BY <1>6
<1>8. ASSUME NEW i \in 1 .. n, NEW j \in 1 .. n, s[i] = s[j]
      PROVE  i = j
  <2>1. s[i] \in Int
    BY <1>1, <1>6
  <2>2. (i < j => s[i] < s[j]) /\ (j < i => s[j] < s[i])
    BY <1>6
  <2>. QED BY <1>8, <2>1, <2>2
<1>9. s \in Seq(Worker)
  BY <1>6, <1>7
<1>10. s \in Engine!Roster
  BY <1>7, <1>8, <1>9 DEF Engine!Roster, Engine!Worker, Worker
<1>11. \A i, j \in 1 .. Len(s) : i < j => s[i] < s[j]
  BY <1>6, <1>7
<1>. QED BY <1>7, <1>10, <1>11 DEF s

LEMMA AvailableIsRoster ==
    ASSUME NEW d
    PROVE  AvailableWorkers(d) \in Engine!Roster
BY SortedWorkers, {w \in Worker : IsAvailable(w, d)} \subseteq Worker DEF AvailableWorkers

\* The slots of a day are slots of the plan, each once, in the order of time.
LEMMA SlotsOnce ==
    ASSUME IsPlan(plan), NEW d
    PROVE  /\ SlotsForDate(d) \in Seq(DOMAIN plan.timeSlots)
           /\ \A i, j \in 1 .. Len(SlotsForDate(d)) :
                 SlotsForDate(d)[i] = SlotsForDate(d)[j] => i = j
           /\ \A i, j \in 1 .. Len(SlotsForDate(d)) :
                 i < j => plan.timeSlots[SlotsForDate(d)[i]].start
                            <= plan.timeSlots[SlotsForDate(d)[j]].start
           /\ IsWorkday(d) =>
                 \A i \in DOMAIN plan.timeSlots :
                    (/\ \/ plan.timeSlots[i].weekdays = {}
                        \/ WeekdayOf[d] \in plan.timeSlots[i].weekdays
                     /\ plan.timeSlots[i].start >= 0)
                    => \E k \in 1 .. Len(SlotsForDate(d)) : SlotsForDate(d)[k] = i
           /\ \A k \in 1 .. Len(SlotsForDate(d)) : LET slot == plan.timeSlots[SlotsForDate(d)[k]] IN
                 /\ IsWorkday(d)
                 /\ slot.weekdays = {} \/ WeekdayOf[d] \in slot.weekdays
                 /\ slot.start >= 0
<1>. DEFINE slots == plan.timeSlots
            due   == {i \in 1 .. Len(slots) :
                        /\ slots[i].weekdays = {} \/ WeekdayOf[d] \in slots[i].weekdays
                        /\ slots[i].start >= 0}
            Earlier(i, j) == \/ slots[i].start < slots[j].start
                             \/ slots[i].start = slots[j].start /\ i < j
<1>. HIDE DEF slots
<1>1. slots \in Seq(Range(slots)) /\ \A slot \in Range(slots) : slot.start \in Int
  BY PlansAssumption DEF IsPlan, slots
<1>. PICK m \in Nat : m = Len(slots) /\ 1 .. m = DOMAIN slots
  BY <1>1
<1>2. \A i \in 1 .. m : slots[i].start \in Int
  BY <1>1 DEF Range
<1>3. due \subseteq 1 .. m /\ IsFiniteSet(due)
  <2>1. IsFiniteSet(1 .. m)
    BY FS_Interval
  <2>2. due \subseteq 1 .. m
    OBVIOUS
  <2>. QED BY <2>1, <2>2, FS_Subset
<1>. HIDE DEF due
<1>. PICK n \in Nat : n = Cardinality(due)
  BY <1>3, FS_CardinalityType
<1>. DEFINE R == {p \in (1 .. m) \X (1 .. m) : Earlier(p[1], p[2])}
<1>4. \A a, b \in due : <<a, b>> \in R <=> Earlier(a, b)
  BY <1>3
<1>5. Orders(R, due)
  BY <1>2, <1>3, <1>4 DEF Orders
<1>6. \E s \in [1 .. n -> due] : \A i, j \in 1 .. n : i < j => <<s[i], s[j]>> \in R
  BY <1>3, <1>5, SortingExists
<1>7. \E s \in [1 .. n -> due] : \A i, j \in 1 .. n : i < j => Earlier(s[i], s[j])
  <2>. HIDE DEF R, Earlier
  <2>1. PICK s \in [1 .. n -> due] : \A i, j \in 1 .. n : i < j => <<s[i], s[j]>> \in R
    BY <1>6
  <2>2. \A i \in 1 .. n : s[i] \in due
    OBVIOUS
  <2>. QED BY <1>4, <2>1, <2>2
<1>. DEFINE s == Sorted(due, Earlier)
<1>8. s \in [1 .. n -> due] /\ \A i, j \in 1 .. n : i < j => Earlier(s[i], s[j])
  <2>1. s = CHOOSE q \in [1 .. n -> due] : \A i, j \in 1 .. n : i < j => Earlier(q[i], q[j])
    BY DEF Sorted
  <2>. HIDE DEF s, Earlier
  <2>. QED BY <1>7, <2>1
<1>9. SlotsForDate(d) = IF IsWorkday(d) THEN s ELSE <<>>
  BY DEF SlotsForDate, due, slots
<1>. HIDE DEF s
<1>10. s \in Seq(due) /\ Len(s) = n
  BY <1>8
<1>11. s \in Seq(DOMAIN slots) /\ <<>> \in Seq(DOMAIN slots)
  <2>1. \A i \in 1 .. n : s[i] \in 1 .. m
    BY <1>3, <1>8
  <2>2. s \in Seq(1 .. m)
    BY <1>8, <2>1
  <2>. QED BY <2>2
<1>12. ASSUME NEW i \in 1 .. n, NEW j \in 1 .. n, s[i] = s[j]
       PROVE  i = j
  <2>1. s[i] \in 1 .. m /\ slots[s[i]].start \in Int
    BY <1>2, <1>3, <1>8
  <2>2. (i < j => Earlier(s[i], s[j])) /\ (j < i => Earlier(s[j], s[i]))
    BY <1>8
  <2>. QED BY <1>12, <2>1, <2>2
<1>15. ASSUME NEW i \in 1 .. n, NEW j \in 1 .. n, i < j
       PROVE  slots[s[i]].start <= slots[s[j]].start
  <2>1. /\ s[i] \in 1 .. m /\ slots[s[i]].start \in Int
        /\ s[j] \in 1 .. m /\ slots[s[j]].start \in Int
    BY <1>2, <1>3, <1>8
  <2>2. Earlier(s[i], s[j])
    BY <1>8, <1>15
  <2>. QED BY <2>1, <2>2
<1>16. ASSUME NEW i \in due PROVE \E k \in 1 .. n : s[k] = i
  <2>1. s \in Injection(1 .. n, due)
    BY <1>8, <1>12 DEF Injection, IsInjective
  <2>2. IsFiniteSet(1 .. n) /\ Cardinality(1 .. n) = n
    BY FS_Interval
  <2>3. s \in Surjection(1 .. n, due)
    BY <1>3, <2>1, <2>2, FS_Injection
  <2>. QED BY <2>3 DEF Surjection
<1>17. \A i \in DOMAIN slots :
          (/\ slots[i].weekdays = {} \/ WeekdayOf[d] \in slots[i].weekdays
           /\ slots[i].start >= 0) => \E k \in 1 .. n : s[k] = i
  BY <1>16 DEF due
<1>18. \A k \in 1 .. n :
          /\ slots[s[k]].weekdays = {} \/ WeekdayOf[d] \in slots[s[k]].weekdays
          /\ slots[s[k]].start >= 0
  BY <1>8 DEF due
<1>13. CASE IsWorkday(d)
  <2>1. SlotsForDate(d) = s
    BY <1>9, <1>13
  <2>. QED BY <2>1, <1>10, <1>11, <1>12, <1>13, <1>15, <1>17, <1>18 DEF slots
<1>14. CASE ~IsWorkday(d)
  <2>1. SlotsForDate(d) = <<>>
    BY <1>9, <1>14
  <2>2. Len(SlotsForDate(d)) = 0
    BY <2>1
  <2>. QED BY <2>1, <2>2, <1>11, <1>14 DEF slots
<1>. QED BY <1>13, <1>14

-----------------------------------------------------------------------------
(* The calls of a day: typed, and those of one slot in a row. *)

EngineCall == [slot : Nat, category : Category, taskSet : TaskSet]

CallsIn(slot) == {c \in EngineCall : c.slot = slot}

\* Between two calls of a slot there is no call of another.
Grouped(calls) ==
    \A i, j, k \in 1 .. Len(calls) :
        (i <= k /\ k <= j /\ calls[i].slot = calls[j].slot) => calls[k].slot = calls[i].slot

LEMMA CallsOfSlotType ==
    ASSUME IsPlan(plan), NEW i \in DOMAIN plan.timeSlots
    PROVE  CallsOfSlot(i) \in Seq(CallsIn(i))
<1>. DEFINE categoryIds == plan.timeSlots[i].categoryIds
            CallsOf(c) == [k \in 1 .. Len(SetsOf(c)) |->
                             [slot |-> i, category |-> c, taskSet |-> SetsOf(c)[k]]]
            calls == [c \in 1 .. Len(categoryIds) |-> CallsOf(categoryIds[c])]
<1>1. categoryIds \in Seq(Category)
  BY PlansAssumption DEF IsPlan, Range
<1>2. i \in Nat
  <2>1. plan.timeSlots \in Seq(Range(plan.timeSlots))
    BY PlansAssumption DEF IsPlan
  <2>2. DOMAIN plan.timeSlots = 1 .. Len(plan.timeSlots)
    BY <2>1
  <2>. QED BY <2>2
<1>3. \A c \in Category : SetsOf(c) \in Seq(TaskSet)
  BY PlansAssumption DEF IsPlan, SetsOf
<1>4. ASSUME NEW c \in Category PROVE CallsOf(c) \in Seq(CallsIn(i))
  <2>1. PICK n \in Nat : n = Len(SetsOf(c)) /\ \A k \in 1 .. n : SetsOf(c)[k] \in TaskSet
    BY <1>3
  <2>2. \A k \in 1 .. n : CallsOf(c)[k] \in CallsIn(i)
    BY <1>2, <2>1 DEF CallsIn, EngineCall
  <2>. QED BY <2>1, <2>2
<1>. HIDE DEF CallsOf, categoryIds
<1>5. calls \in Seq(Seq(CallsIn(i)))
  BY <1>1, <1>4
<1>6. CallsOfSlot(i) = FlattenSeq(calls)
  BY DEF CallsOfSlot, CallsOf, categoryIds
<1>. HIDE DEF calls
<1>. QED BY <1>5, <1>6, FlattenType

\* Appending the calls of a slot that is new keeps the calls grouped.
LEMMA GroupedAppend ==
    ASSUME NEW p \in Seq(EngineCall), NEW slot, NEW q \in Seq(CallsIn(slot)), Grouped(p),
           \A k \in 1 .. Len(p) : p[k].slot # slot
    PROVE  Grouped(p \o q)
<1>. PICK m \in Nat, n \in Nat : m = Len(p) /\ n = Len(q)
  OBVIOUS
<1>. DEFINE r == p \o q
<1>1. /\ Len(r) = m + n
      /\ \A k \in 1 .. m + n : r[k] = IF k <= m THEN p[k] ELSE q[k - m]
  <2>1. q \in Seq(EngineCall)
    BY DEF CallsIn
  <2>. QED BY <2>1
<1>2. \A k \in 1 .. n : q[k].slot = slot
  BY DEF CallsIn
<1>. HIDE DEF r
<1>3. ASSUME NEW k \in 1 .. m + n
      PROVE  /\ k <= m => r[k].slot # slot /\ r[k] = p[k]
             /\ k > m => r[k].slot = slot
  <2>1. CASE k <= m
    BY <1>1, <2>1
  <2>2. CASE k > m
    <3>1. k - m \in 1 .. n /\ ~(k <= m)
      BY <2>2
    <3>2. r[k] = q[k - m]
      BY <1>1, <3>1
    <3>. QED BY <1>2, <3>1, <3>2
  <2>. QED BY <2>1, <2>2
<1>4. ASSUME NEW i \in 1 .. m + n, NEW j \in 1 .. m + n, NEW k \in 1 .. m + n,
             i <= k, k <= j, r[i].slot = r[j].slot
      PROVE  r[k].slot = r[i].slot
  <2>1. CASE j <= m
    <3>1. i \in 1 .. m /\ j \in 1 .. m /\ k \in 1 .. m
      BY <1>4, <2>1
    <3>2. r[i] = p[i] /\ r[j] = p[j] /\ r[k] = p[k]
      BY <1>3, <3>1
    <3>. QED BY <1>4, <3>1, <3>2 DEF Grouped
  <2>2. CASE j > m
    <3>1. r[j].slot = slot /\ i > m
      BY <1>3, <1>4, <2>2
    <3>2. k > m
      BY <1>4, <3>1
    <3>. QED BY <1>3, <3>1, <3>2
  <2>. QED BY <2>1, <2>2
<1>5. Grouped(r)
  BY <1>1, <1>4 DEF Grouped
<1>. QED BY <1>5 DEF r

LEMMA DayCallsSound ==
    ASSUME IsPlan(plan), NEW d
    PROVE  DayCalls(d) \in Seq(EngineCall) /\ Grouped(DayCalls(d))
<1>. DEFINE slots == SlotsForDate(d)
            calls == [i \in 1 .. Len(slots) |-> CallsOfSlot(slots[i])]
<1>1. /\ slots \in Seq(DOMAIN plan.timeSlots)
      /\ \A i, j \in 1 .. Len(slots) : slots[i] = slots[j] => i = j
  BY SlotsOnce
<1>2. DayCalls(d) = FlattenSeq(calls)
  BY DEF DayCalls
<1>. HIDE DEF slots
<1>. PICK n \in Nat : n = Len(slots)
  BY <1>1
<1>3. \A i \in 1 .. n : calls[i] \in Seq(CallsIn(slots[i])) /\ calls[i] \in Seq(EngineCall)
  <2>. SUFFICES ASSUME NEW i \in 1 .. n
                PROVE  calls[i] \in Seq(CallsIn(slots[i])) /\ calls[i] \in Seq(EngineCall)
    OBVIOUS
  <2>1. slots[i] \in DOMAIN plan.timeSlots /\ calls[i] = CallsOfSlot(slots[i])
    BY <1>1
  <2>2. calls[i] \in Seq(CallsIn(slots[i]))
    BY <2>1, CallsOfSlotType
  <2>3. CallsIn(slots[i]) \subseteq EngineCall
    BY DEF CallsIn
  <2>. QED BY <2>2, <2>3
<1>4. calls \in Seq(Seq(EngineCall)) /\ Len(calls) = n
  BY <1>3
<1>. HIDE DEF calls
<1>5. DayCalls(d) \in Seq(EngineCall)
  BY <1>2, <1>4, FlattenType
<1>6. CASE calls = <<>>
  BY <1>2, <1>6 DEF FlattenSeq, Grouped
<1>7. CASE calls # <<>>
  <2>1. PICK f \in [1 .. n -> Seq(EngineCall)] :
             Flattens(f, calls, n) /\ FlattenSeq(calls) = f[n]
    BY <1>4, <1>7, FlattenDefined
  <2>. DEFINE Good(i) == /\ Grouped(f[i])
                         /\ \A k \in 1 .. Len(f[i]) : \E j \in 1 .. i : f[i][k].slot = slots[j]
              T == {i \in Nat : i \in 1 .. n => Good(i)}
  <2>2. 0 \in T
    OBVIOUS
  <2>3. ASSUME NEW i \in Nat, i \in T PROVE i + 1 \in T
    <3>. SUFFICES ASSUME i + 1 \in 1 .. n PROVE Good(i + 1)
      OBVIOUS
    <3>0. calls[i + 1] \in Seq(CallsIn(slots[i + 1])) /\ calls[i + 1] \in Seq(EngineCall)
      BY <1>3
    <3>1. CASE i = 0
      <4>1. f[1] = calls[1]
        BY <2>1, <3>1, 1 \in 1 .. n DEF Flattens
      <4>2. \A k \in 1 .. Len(f[1]) : f[1][k].slot = slots[1]
        BY <3>0, <3>1, <4>1 DEF CallsIn
      <4>. QED BY <3>1, <4>2 DEF Grouped
    <3>2. CASE i # 0
      <4>1. i \in 1 .. n /\ (i + 1) - 1 = i /\ i + 1 # 1
        BY <3>2
      <4>2. f[i + 1] = f[i] \o calls[i + 1] /\ f[i] \in Seq(EngineCall)
        BY <2>1, <4>1 DEF Flattens
      <4>3. Good(i)
        BY <2>3, <4>1
      <4>4. \A k \in 1 .. Len(f[i]) : f[i][k].slot # slots[i + 1]
        BY <1>1, <4>1, <4>3
      <4>5. Grouped(f[i + 1])
        BY <3>0, <4>2, <4>3, <4>4, GroupedAppend
      <4>6. ASSUME NEW k \in 1 .. Len(f[i + 1])
            PROVE  \E j \in 1 .. i + 1 : f[i + 1][k].slot = slots[j]
        <5>1. PICK a \in Nat, b \in Nat : a = Len(f[i]) /\ b = Len(calls[i + 1])
          BY <3>0, <4>2
        <5>2. /\ k \in 1 .. a + b
              /\ f[i + 1][k] = IF k <= a THEN f[i][k] ELSE calls[i + 1][k - a]
          <6>. DEFINE joined == f[i] \o calls[i + 1]
          <6>1. /\ Len(joined) = a + b
                /\ \A z \in 1 .. a + b : joined[z] = IF z <= a THEN f[i][z]
                                                   ELSE calls[i + 1][z - a]
            BY <3>0, <4>2, <5>1, ConcatAt
          <6>2. f[i + 1] = joined
            BY <4>2
          <6>. HIDE DEF joined
          <6>. QED BY <4>6, <6>1, <6>2
        <5>3. CASE k <= a
          <6>1. \E j \in 1 .. i : f[i][k].slot = slots[j]
            BY <4>3, <5>1, <5>2, <5>3
          <6>. QED BY <5>2, <5>3, <6>1
        <5>4. CASE k > a
          <6>1. k - a \in 1 .. b
            BY <5>2, <5>4
          <6>2. calls[i + 1][k - a].slot = slots[i + 1]
            BY <3>0, <5>1, <6>1 DEF CallsIn
          <6>3. f[i + 1][k].slot = slots[i + 1]
            BY <5>2, <5>4, <6>2
          <6>. QED BY <6>3
        <5>. QED BY <5>2, <5>3, <5>4
      <4>. QED BY <4>5, <4>6
    <3>. QED BY <3>1, <3>2
  <2>4. Nat \subseteq T
    <3>. HIDE DEF T
    <3>. QED BY <2>2, <2>3, Counting
  <2>5. n \in 1 .. n
    BY <1>4, <1>7
  <2>. QED BY <1>2, <1>5, <2>1, <2>4, <2>5
<1>. QED BY <1>5, <1>6, <1>7

\* Every task set of every category of a slot is called ...
LEMMA CallsOfSlotCover ==
    ASSUME IsPlan(plan), NEW i \in DOMAIN plan.timeSlots,
           NEW c \in Range(plan.timeSlots[i].categoryIds) \cap DOMAIN plan.categories,
           NEW set \in Range(plan.categories[c])
    PROVE  \E m \in 1 .. Len(CallsOfSlot(i)) :
              CallsOfSlot(i)[m] = [slot |-> i, category |-> c, taskSet |-> set]
<1>. DEFINE categoryIds == plan.timeSlots[i].categoryIds
            CallsOf(x) == [k \in 1 .. Len(SetsOf(x)) |->
                             [slot |-> i, category |-> x, taskSet |-> SetsOf(x)[k]]]
            calls == [x \in 1 .. Len(categoryIds) |-> CallsOf(categoryIds[x])]
            Call == [slot : {i}, category : Category, taskSet : TaskSet]
<1>1. categoryIds \in Seq(Category)
  BY PlansAssumption DEF IsPlan, Range
<1>2. PICK x \in 1 .. Len(categoryIds) : categoryIds[x] = c
  BY <1>1 DEF Range
<1>3. \A y \in Category : SetsOf(y) \in Seq(TaskSet)
  BY PlansAssumption DEF IsPlan, SetsOf
<1>4. SetsOf(c) = plan.categories[c] /\ SetsOf(c) \in Seq(TaskSet)
  BY PlansAssumption DEF IsPlan, SetsOf
<1>5. PICK k \in 1 .. Len(SetsOf(c)) : SetsOf(c)[k] = set
  BY <1>4 DEF Range
<1>6. ASSUME NEW y \in Category PROVE CallsOf(y) \in Seq(Call)
  <2>1. PICK n \in Nat : n = Len(SetsOf(y)) /\ \A z \in 1 .. n : SetsOf(y)[z] \in TaskSet
    BY <1>3
  <2>2. \A z \in 1 .. n : CallsOf(y)[z] \in Call
    BY <2>1
  <2>. QED BY <2>1, <2>2
<1>7. /\ CallsOf(c)[k] = [slot |-> i, category |-> c, taskSet |-> set]
      /\ Len(CallsOf(c)) = Len(SetsOf(c))
  BY <1>4, <1>5
<1>. HIDE DEF CallsOf, categoryIds, Call
<1>8. calls \in Seq(Seq(Call)) /\ x \in 1 .. Len(calls) /\ calls[x] = CallsOf(c)
  BY <1>1, <1>2, <1>6
<1>9. CallsOfSlot(i) = FlattenSeq(calls)
  BY DEF CallsOfSlot, CallsOf, categoryIds
<1>. HIDE DEF calls
<1>10. k \in 1 .. Len(calls[x])
  BY <1>5, <1>7, <1>8
<1>11. \E m \in 1 .. Len(FlattenSeq(calls)) : FlattenSeq(calls)[m] = calls[x][k]
  BY <1>8, <1>10, FlattenCovers
<1>. QED BY <1>7, <1>8, <1>9, <1>11

\* ... on every workday the slot is due.
LEMMA DayCallsCover ==
    ASSUME IsPlan(plan), NEW d, IsWorkday(d), NEW i \in DOMAIN plan.timeSlots,
           plan.timeSlots[i].weekdays = {} \/ WeekdayOf[d] \in plan.timeSlots[i].weekdays,
           plan.timeSlots[i].start >= 0,
           NEW c \in Range(plan.timeSlots[i].categoryIds) \cap DOMAIN plan.categories,
           NEW set \in Range(plan.categories[c])
    PROVE  \E m \in 1 .. Len(DayCalls(d)) :
              DayCalls(d)[m] = [slot |-> i, category |-> c, taskSet |-> set]
<1>. DEFINE slots == SlotsForDate(d)
            calls == [j \in 1 .. Len(slots) |-> CallsOfSlot(slots[j])]
<1>1. /\ slots \in Seq(DOMAIN plan.timeSlots)
      /\ \E k \in 1 .. Len(slots) : slots[k] = i
  BY SlotsOnce
<1>2. DayCalls(d) = FlattenSeq(calls)
  BY DEF DayCalls
<1>. HIDE DEF slots
<1>. PICK n \in Nat : n = Len(slots)
  BY <1>1
<1>3. PICK k \in 1 .. n : slots[k] = i
  BY <1>1
<1>4. \A j \in 1 .. n : calls[j] \in Seq(EngineCall)
  <2>. SUFFICES ASSUME NEW j \in 1 .. n PROVE calls[j] \in Seq(EngineCall)
    OBVIOUS
  <2>1. slots[j] \in DOMAIN plan.timeSlots /\ calls[j] = CallsOfSlot(slots[j])
    BY <1>1
  <2>2. calls[j] \in Seq(CallsIn(slots[j]))
    BY <2>1, CallsOfSlotType
  <2>3. CallsIn(slots[j]) \subseteq EngineCall
    BY DEF CallsIn
  <2>. QED BY <2>2, <2>3
<1>5. calls \in Seq(Seq(EngineCall)) /\ Len(calls) = n /\ calls[k] = CallsOfSlot(i)
  BY <1>3, <1>4
<1>. HIDE DEF calls
<1>6. PICK m \in 1 .. Len(calls[k]) :
           calls[k][m] = [slot |-> i, category |-> c, taskSet |-> set]
  BY <1>5, CallsOfSlotCover
<1>7. \E z \in 1 .. Len(FlattenSeq(calls)) : FlattenSeq(calls)[z] = calls[k][m]
  <2>1. k \in 1 .. Len(calls) /\ m \in 1 .. Len(calls[k])
    BY <1>5
  <2>. QED BY <1>5, <2>1, FlattenCovers
<1>. QED BY <1>2, <1>6, <1>7

\* On other days nothing is.
LEMMA NoCallsOnDaysOff ==
    ASSUME NEW d, ~IsWorkday(d)
    PROVE  DayCalls(d) = <<>>
BY DEF DayCalls, SlotsForDate, FlattenSeq

\* The calls of a day follow the clock.
InOrder(calls) ==
    \A i, j \in 1 .. Len(calls) :
        i <= j => plan.timeSlots[calls[i].slot].start <= plan.timeSlots[calls[j].slot].start

LEMMA DayCallsInOrder ==
    ASSUME IsPlan(plan), NEW d
    PROVE  InOrder(DayCalls(d))
<1>. DEFINE slots == SlotsForDate(d)
            calls == [i \in 1 .. Len(slots) |-> CallsOfSlot(slots[i])]
            Start(i) == plan.timeSlots[i].start
<1>1. /\ slots \in Seq(DOMAIN plan.timeSlots)
      /\ \A i, j \in 1 .. Len(slots) : i < j => Start(slots[i]) <= Start(slots[j])
  BY SlotsOnce
<1>2. DayCalls(d) = FlattenSeq(calls)
  BY DEF DayCalls
<1>3. \A i \in DOMAIN plan.timeSlots : Start(i) \in Int
  BY PlansAssumption DEF IsPlan, Range
<1>. HIDE DEF slots
<1>. PICK n \in Nat : n = Len(slots) /\ \A i \in 1 .. n : slots[i] \in DOMAIN plan.timeSlots
  BY <1>1
<1>4. \A i \in 1 .. n : calls[i] \in Seq(CallsIn(slots[i])) /\ calls[i] \in Seq(EngineCall)
  <2>. SUFFICES ASSUME NEW i \in 1 .. n
                PROVE  calls[i] \in Seq(CallsIn(slots[i])) /\ calls[i] \in Seq(EngineCall)
    OBVIOUS
  <2>1. calls[i] \in Seq(CallsIn(slots[i]))
    BY CallsOfSlotType
  <2>2. CallsIn(slots[i]) \subseteq EngineCall
    BY DEF CallsIn
  <2>. QED BY <2>1, <2>2
<1>5. calls \in Seq(Seq(EngineCall)) /\ Len(calls) = n
  BY <1>4
<1>. HIDE DEF calls
<1>6. CASE calls = <<>>
  BY <1>2, <1>6 DEF FlattenSeq, InOrder
<1>7. CASE calls # <<>>
  <2>1. PICK f \in [1 .. n -> Seq(EngineCall)] :
             Flattens(f, calls, n) /\ FlattenSeq(calls) = f[n]
    BY <1>5, <1>7, FlattenDefined
  <2>. DEFINE At(i, k) == f[i][k].slot
              Good(i) == /\ \A k, l \in 1 .. Len(f[i]) : k <= l => Start(At(i, k)) <= Start(At(i, l))
                         /\ \A k \in 1 .. Len(f[i]) : \E j \in 1 .. i : At(i, k) = slots[j]
              T == {i \in Nat : i \in 1 .. n => Good(i)}
  <2>2. 0 \in T
    OBVIOUS
  <2>3. ASSUME NEW i \in Nat, i \in T PROVE i + 1 \in T
    <3>. SUFFICES ASSUME i + 1 \in 1 .. n PROVE Good(i + 1)
      OBVIOUS
    <3>. HIDE DEF Start
    <3>0. /\ calls[i + 1] \in Seq(CallsIn(slots[i + 1])) /\ calls[i + 1] \in Seq(EngineCall)
          /\ Start(slots[i + 1]) \in Int
      BY <1>3, <1>4
    <3>1. CASE i = 0
      <4>1. f[1] = calls[1]
        BY <2>1, <3>1, 1 \in 1 .. n DEF Flattens
      <4>2. \A k \in 1 .. Len(f[1]) : At(1, k) = slots[1]
        BY <3>0, <3>1, <4>1 DEF CallsIn
      <4>. QED BY <3>0, <3>1, <4>2
    <3>2. CASE i # 0
      <4>1. i \in 1 .. n /\ (i + 1) - 1 = i /\ i + 1 # 1
        BY <3>2
      <4>2. f[i + 1] = f[i] \o calls[i + 1] /\ f[i] \in Seq(EngineCall)
        BY <2>1, <4>1 DEF Flattens
      <4>3. Good(i)
        BY <2>3, <4>1
      <4>4. PICK a \in Nat, b \in Nat : a = Len(f[i]) /\ b = Len(calls[i + 1])
        BY <3>0, <4>2
      <4>5. /\ Len(f[i + 1]) = a + b
            /\ \A z \in 1 .. a + b : f[i + 1][z] = IF z <= a THEN f[i][z]
                                                   ELSE calls[i + 1][z - a]
        <5>. DEFINE joined == f[i] \o calls[i + 1]
        <5>1. /\ Len(joined) = a + b
              /\ \A z \in 1 .. a + b : joined[z] = IF z <= a THEN f[i][z]
                                                   ELSE calls[i + 1][z - a]
          BY <3>0, <4>2, <4>4, ConcatAt
        <5>2. f[i + 1] = joined
          BY <4>2
        <5>. HIDE DEF joined
        <5>. QED BY <5>1, <5>2
      <4>6. ASSUME NEW z \in 1 .. a + b
            PROVE  /\ z <= a => z \in 1 .. a /\ At(i + 1, z) = At(i, z)
                   /\ z > a => At(i + 1, z) = slots[i + 1]
        <5>1. CASE z <= a
          BY <4>5, <5>1
        <5>2. CASE z > a
          <6>1. z - a \in 1 .. b /\ ~(z <= a)
            BY <5>2
          <6>2. calls[i + 1][z - a].slot = slots[i + 1]
            BY <3>0, <4>4, <6>1 DEF CallsIn
          <6>. QED BY <4>5, <6>1, <6>2
        <5>. QED BY <5>1, <5>2
      <4>7. \A k \in 1 .. a : \E j \in 1 .. i : At(i, k) = slots[j]
        BY <4>3, <4>4
      <4>8. \A k \in 1 .. a : Start(At(i, k)) <= Start(slots[i + 1])
        <5>. SUFFICES ASSUME NEW k \in 1 .. a PROVE Start(At(i, k)) <= Start(slots[i + 1])
          OBVIOUS
        <5>1. PICK j \in 1 .. i : At(i, k) = slots[j]
          BY <4>7
        <5>2. j \in 1 .. n /\ j < i + 1
          BY <4>1
        <5>. QED BY <1>1, <5>1, <5>2
      <4>9. ASSUME NEW k \in 1 .. a + b, NEW l \in 1 .. a + b, k <= l
            PROVE  Start(At(i + 1, k)) <= Start(At(i + 1, l))
        <5>1. CASE l <= a
          <6>1. k \in 1 .. a /\ l \in 1 .. a /\ k <= a
            BY <4>9, <5>1
          <6>. QED BY <4>3, <4>4, <4>6, <4>9, <5>1, <6>1
        <5>2. CASE l > a /\ k <= a
          <6>1. k \in 1 .. a
            BY <5>2
          <6>. QED BY <4>6, <4>8, <5>2, <6>1
        <5>3. CASE l > a /\ k > a
          BY <3>0, <4>6, <5>3
        <5>. QED BY <5>1, <5>2, <5>3
      <4>10. ASSUME NEW k \in 1 .. a + b
             PROVE  \E j \in 1 .. i + 1 : At(i + 1, k) = slots[j]
        <5>0. i + 1 \in 1 .. i + 1
          OBVIOUS
        <5>1. CASE k <= a
          <6>1. PICK j \in 1 .. i : At(i, k) = slots[j]
            BY <4>6, <4>7, <5>1
          <6>2. j \in 1 .. i + 1
            OBVIOUS
          <6>. QED BY <4>6, <5>1, <6>1, <6>2
        <5>2. CASE k > a
          BY <4>6, <5>0, <5>2
        <5>3. k <= a \/ k > a
          OBVIOUS
        <5>. QED BY <5>1, <5>2, <5>3, Zenon
      <4>. QED BY <4>5, <4>9, <4>10
    <3>. QED BY <3>1, <3>2
  <2>4. Nat \subseteq T
    <3>. HIDE DEF T
    <3>. QED BY <2>2, <2>3, Counting
  <2>5. n \in 1 .. n
    BY <1>5, <1>7
  <2>6. Good(n)
    BY <2>4, <2>5
  <2>. QED BY <1>2, <2>1, <2>6 DEF InOrder
<1>. QED BY <1>6, <1>7

-----------------------------------------------------------------------------
(* The engine's proofs, about the engine of this module. *)

Proved == INSTANCE AssignmentEngine_proofs WITH Inputs <- {}

LEMMA EngineConstants == Proved!ConstantsAssumption /\ Proved!InputsAssumption
BY PlansAssumption DEF Proved!ConstantsAssumption, Proved!InputsAssumption

\* The module is instantiated twice: what the two instances define is the same.
LEMMA SameInputs ==
    /\ Engine!N = Proved!N
    /\ Engine!Target = Proved!Target
    /\ Engine!Worker = Proved!Worker
    /\ Engine!Task = Proved!Task
    /\ \A a, b : Engine!Conflicts(a, b) <=> Proved!Conflicts(a, b)
    /\ \A w : Engine!PriorTasks(w) = Proved!PriorTasks(w)
    /\ \A t : Engine!Required(t) = Proved!Required(t) /\ Engine!Seats(t) = Proved!Seats(t)
BY DEF Engine!N, Proved!N, Engine!Target, Proved!Target, Engine!Worker, Proved!Worker,
       Engine!Task, Proved!Task, Engine!Conflicts, Proved!Conflicts, Engine!ConflictsIn,
       Proved!ConflictsIn, Engine!PriorTasks, Proved!PriorTasks, Engine!Required,
       Proved!Required, Engine!Seats, Proved!Seats

LEMMA SameCardinality == \A S : Engine!Cardinality(S) = Proved!Cardinality(S)
BY Zenon DEF Engine!Cardinality, Proved!Cardinality

LEMMA SameComponent == \A t : Engine!Component(t) = Proved!Component(t)
BY Zenon DEF Engine!Component, Proved!Component, Engine!Target, Proved!Target, Engine!Task,
       Proved!Task, Engine!Conflicts, Proved!Conflicts, Engine!ConflictsIn, Proved!ConflictsIn

LEMMA SameRequiredSum == \A t : Engine!RequiredSum(t) = Proved!RequiredSum(t)
BY Zenon DEF Engine!RequiredSum, Proved!RequiredSum, Engine!MapThenSumSet,
       Proved!MapThenSumSet, Engine!MapThenFoldSet, Proved!MapThenFoldSet, MapThenFoldSet,
       Engine!Seats, Proved!Seats, Engine!Required, Proved!Required,
       Engine!Component, Proved!Component, Engine!Target, Proved!Target, Engine!Task,
       Proved!Task, Engine!Conflicts, Proved!Conflicts, Engine!ConflictsIn, Proved!ConflictsIn

LEMMA SamePlace == \A t : Engine!PlaceOf(t) = Proved!PlaceOf(t)
<1>1. \A t : Engine!FirstIndex(t) = Proved!FirstIndex(t)
  BY SameComponent DEF Engine!FirstIndex, Proved!FirstIndex, Engine!Min, Proved!Min
<1>2. \A a, b : Engine!Before(a, b) <=> Proved!Before(a, b)
  BY <1>1, SameRequiredSum DEF Engine!Before, Proved!Before
<1>3. ASSUME NEW t
      PROVE  {u \in Engine!Target \ {t} : Engine!Before(u, t)}
               = {u \in Proved!Target \ {t} : Proved!Before(u, t)}
  BY <1>2, SameInputs
<1>. QED BY <1>3, SameCardinality DEF Engine!PlaceOf, Proved!PlaceOf

LEMMA SameScan ==
    /\ Engine!Open = Proved!Open
    /\ \A t : Engine!IsCurrent(t) <=> Proved!IsCurrent(t)
    /\ \A step : Engine!Candidate(step) = Proved!Candidate(step)
    /\ \A t : Engine!Qualified(t) = Proved!Qualified(t)
    /\ \A t, step : Engine!Best(t, step) <=> Proved!Best(t, step)
    /\ \A step : Engine!NextCursor(step) = Proved!NextCursor(step)
<1>1. Engine!Open = Proved!Open
  BY SameInputs DEF Engine!Open, Proved!Open
<1>2. \A t : Engine!IsCurrent(t) <=> Proved!IsCurrent(t)
  BY <1>1 DEF Engine!IsCurrent, Proved!IsCurrent
<1>3. \A step : /\ Engine!Candidate(step) = Proved!Candidate(step)
                /\ Engine!NextCursor(step) = Proved!NextCursor(step)
  BY SameInputs DEF Engine!Candidate, Proved!Candidate, Engine!NextCursor, Proved!NextCursor
<1>4. \A w, t : Engine!Eligible(w, t) <=> Proved!Eligible(w, t)
  BY SameInputs DEF Engine!Eligible, Proved!Eligible, Engine!Holds, Proved!Holds,
                    Engine!BlockedBy, Proved!BlockedBy
<1>5. \A t : Engine!Qualified(t) = Proved!Qualified(t)
  BY <1>3, <1>4, SameInputs DEF Engine!Qualified, Proved!Qualified
<1>6. \A t, step : Engine!Best(t, step) <=> Proved!Best(t, step)
  BY <1>3, <1>5 DEF Engine!Best, Proved!Best, Engine!Score, Proved!Score
<1>. QED BY <1>1, <1>2, <1>3, <1>5, <1>6

\* A step of the one is a step of the other.
LEMMA SameStep ==
    ASSUME Engine!Step
    PROVE  Proved!Next /\ input' = input
<1>1. CASE Engine!NoWorkers
  <2>1. Proved!NoWorkers
    BY <1>1, SameInputs DEF Engine!NoWorkers, Proved!NoWorkers
  <2>2. input' = input
    BY <1>1 DEF Engine!NoWorkers
  <2>. QED BY <2>1, <2>2 DEF Proved!Step, Proved!Next
<1>2. CASE Engine!Start
  <2>1. Proved!Start
    <3>1. [t \in Engine!Task |-> IF t \in Engine!Target THEN Engine!PlaceOf(t) ELSE 0]
            = [t \in Proved!Task |-> IF t \in Proved!Target THEN Proved!PlaceOf(t) ELSE 0]
      BY SameInputs, SamePlace
    <3>2. /\ [w \in Engine!Worker |-> Engine!PriorTasks(w)]
               = [w \in Proved!Worker |-> Proved!PriorTasks(w)]
          /\ [w \in Engine!Worker |-> Engine!Cardinality(Engine!PriorTasks(w))]
               = [w \in Proved!Worker |-> Proved!Cardinality(Proved!PriorTasks(w))]
      BY SameInputs, SameCardinality
    <3>. QED BY <1>2, <3>1, <3>2, SameInputs DEF Engine!Start, Proved!Start
  <2>2. input' = input
    BY <1>2 DEF Engine!Start
  <2>. QED BY <2>1, <2>2 DEF Proved!Step, Proved!Next
<1>3. ASSUME NEW t \in Engine!Open, Engine!IsCurrent(t), Engine!SeatWorker(t)
      PROVE  Proved!Step /\ input' = input
  <2>1. t \in Proved!Open /\ Proved!IsCurrent(t) /\ Proved!SeatWorker(t)
    BY <1>3, SameInputs, SameScan DEF Engine!SeatWorker, Proved!SeatWorker
  <2>2. input' = input
    BY <1>3 DEF Engine!SeatWorker
  <2>. QED BY <2>1, <2>2 DEF Proved!Step, Proved!Next
<1>4. ASSUME NEW t \in Engine!Open, Engine!IsCurrent(t), Engine!LeaveUnassigned(t)
      PROVE  Proved!Step /\ input' = input
  <2>1. t \in Proved!Open /\ Proved!IsCurrent(t) /\ Proved!LeaveUnassigned(t)
    BY <1>4, SameScan DEF Engine!LeaveUnassigned, Proved!LeaveUnassigned
  <2>2. input' = input
    BY <1>4 DEF Engine!LeaveUnassigned
  <2>. QED BY <2>1, <2>2 DEF Proved!Step, Proved!Next
<1>5. CASE Engine!Finish
  <2>1. Proved!Finish
    BY <1>5, SameScan DEF Engine!Finish, Proved!Finish
  <2>2. input' = input
    BY <1>5 DEF Engine!Finish
  <2>. QED BY <2>1, <2>2 DEF Proved!Step, Proved!Next
<1>. QED BY <1>1, <1>2, <1>3, <1>4, <1>5 DEF Engine!Step, Proved!Next

\* What the engine's inductive invariants say, in this module's words.
LEMMA EngineStepKeeps ==
    ASSUME Proved!IInv, Engine!Step
    PROVE  Proved!IInv' /\ input' = input
BY SameStep, EngineConstants, Proved!IInvInductive

LEMMA EngineStepCounts ==
    ASSUME Proved!IInv, Proved!CountInv, Engine!Step
    PROVE  Proved!CountInv'
BY SameStep, EngineConstants, Proved!CountInductive

LEMMA EngineCallStarts ==
    ASSUME NEW in, in \in Engine!AssignInput, Engine!SoundPrior(in), Engine!Call(in)
    PROVE  Proved!IInv' /\ input' = in
<1>1. in \in Proved!AssignInput /\ Proved!SoundPrior(in)
  BY DEF Engine!AssignInput, Proved!AssignInput, Engine!Roster, Proved!Roster, Engine!TaskDef,
         Proved!TaskDef, Engine!Worker, Proved!Worker, Engine!Task, Proved!Task,
         Engine!SoundPrior, Proved!SoundPrior, Engine!ConflictsIn, Proved!ConflictsIn
<1>2. Proved!Call(in)
  BY DEF Engine!Call, Proved!Call, Engine!NoTasks, Proved!NoTasks, Engine!NoLoad,
         Proved!NoLoad, Engine!NoSeats, Proved!NoSeats, Engine!Worker, Proved!Worker,
         Engine!Task, Proved!Task
<1>3. Proved!IInv'
  BY <1>1, <1>2, EngineConstants, Proved!IInvCall
<1>. QED BY <1>3 DEF Engine!Call

\* What a returned call leaves, in this module's words.
LEMMA EngineResult ==
    ASSUME Proved!IInv, pc = "done"
    PROVE  /\ assignments \in Seq([taskId : Task, workerId : Worker])
           /\ unassigned \in [Task -> Nat] /\ cursor \in Int
           /\ \A i, k \in 1 .. Len(assignments) :
                 (i # k /\ assignments[i].workerId = assignments[k].workerId) =>
                    /\ assignments[i].taskId # assignments[k].taskId
                    /\ ~Engine!ConflictsIn(input.slotTasks, assignments[i].taskId, assignments[k].taskId)
           /\ input.crossSetConflicts =>
                 \A i \in 1 .. Len(assignments), t \in Task :
                    <<assignments[i].workerId, t>> \in input.priorAssignments =>
                       /\ assignments[i].taskId # t
                       /\ ~Engine!ConflictsIn(input.slotTasks, assignments[i].taskId, t)
<1>1. /\ Proved!TypeOK /\ Proved!ConflictFree /\ Proved!OneSeatPerTask
      /\ Proved!Worker = Worker /\ Proved!Task = Task
  BY DEF Proved!IInv, Proved!Worker, Worker, Proved!Task, Task
<1>2. /\ assignments \in Seq([taskId : Task, workerId : Worker])
      /\ unassigned \in [Task -> Nat] /\ cursor \in Int
  BY <1>1 DEF Proved!TypeOK
<1>3. ASSUME NEW i \in 1 .. Len(assignments)
      PROVE  /\ assignments[i].workerId \in Worker /\ assignments[i].taskId \in Task
             /\ i \in Proved!SeatsOf(assignments[i].workerId)
  <2>1. assignments[i] \in [taskId : Task, workerId : Worker]
    <3>. DEFINE Seat == [taskId : Task, workerId : Worker]
    <3>1. assignments \in Seq(Seat)
      BY <1>2
    <3>. HIDE DEF Seat
    <3>2. assignments[i] \in Seat
      BY <3>1
    <3>. QED BY <3>2 DEF Seat
  <2>2. i \in Proved!SeatsOf(assignments[i].workerId)
    BY DEF Proved!SeatsOf
  <2>. QED BY <2>1, <2>2
<1>4. \A w \in Worker : \A a, b \in Proved!Booked(w) : ~Engine!ConflictsIn(input.slotTasks, a, b)
  BY <1>1 DEF Proved!ConflictFree, Proved!Conflicts, Proved!ConflictsIn, Engine!ConflictsIn
<1>5. \A w \in Worker : \A i \in Proved!SeatsOf(w) :
         /\ assignments[i].taskId \notin Proved!PriorTasks(w)
         /\ \A j \in Proved!SeatsOf(w) \ {i} : assignments[i].taskId # assignments[j].taskId
  BY <1>1 DEF Proved!OneSeatPerTask
<1>6. \A w : \A i \in Proved!SeatsOf(w) : assignments[i].taskId \in Proved!Booked(w)
  BY DEF Proved!Booked
<1>7. input.crossSetConflicts =>
         \A w, t : t \in Task /\ <<w, t>> \in input.priorAssignments
                     => t \in Proved!PriorTasks(w) /\ t \in Proved!Booked(w)
  BY <1>1 DEF Proved!PriorTasks, Proved!Booked
<1>8. ASSUME NEW i \in 1 .. Len(assignments), NEW k \in 1 .. Len(assignments),
             i # k, assignments[i].workerId = assignments[k].workerId
      PROVE  /\ assignments[i].taskId # assignments[k].taskId
             /\ ~Engine!ConflictsIn(input.slotTasks, assignments[i].taskId, assignments[k].taskId)
  <2>1. PICK w \in Worker : /\ w = assignments[i].workerId
                            /\ i \in Proved!SeatsOf(w) /\ k \in Proved!SeatsOf(w)
    BY <1>3, <1>8
  <2>. QED BY <1>4, <1>5, <1>6, <1>8, <2>1
<1>9. ASSUME input.crossSetConflicts, NEW i \in 1 .. Len(assignments), NEW t \in Task,
             <<assignments[i].workerId, t>> \in input.priorAssignments
      PROVE  /\ assignments[i].taskId # t
             /\ ~Engine!ConflictsIn(input.slotTasks, assignments[i].taskId, t)
  <2>1. PICK w \in Worker : w = assignments[i].workerId /\ i \in Proved!SeatsOf(w)
    BY <1>3
  <2>2. t \in Proved!PriorTasks(w) /\ t \in Proved!Booked(w)
    BY <1>7, <1>9, <2>1
  <2>. QED BY <1>4, <1>5, <1>6, <2>1, <2>2
<1>. QED BY <1>2, <1>8, <1>9

LEMMA ConflictsBothWays ==
    ASSUME NEW tasks, NEW a, NEW b
    PROVE  Engine!ConflictsIn(tasks, a, b) <=> Engine!ConflictsIn(tasks, b, a)
BY DEF Engine!ConflictsIn

-----------------------------------------------------------------------------
(* The inductive invariant. *)

GivenBy(list) == {<<list[i].workerId, list[i].taskId>> : i \in 1 .. Len(list)}

\* Under plan p, seats k of row i and m of row j may go together on one worker.
Together(p, day, i, k, j, m) ==
    (<<i, k>> # <<j, m>>
     /\ day[i].assignments[k].workerId = day[j].assignments[m].workerId) =>
        /\ day[i].assignments[k].taskId # day[j].assignments[m].taskId
        /\ ~Engine!ConflictsIn(p.tasks, day[i].assignments[k].taskId,
                               day[j].assignments[m].taskId)

Free(p, day) ==
    \A i, j \in 1 .. Len(day) :
        (day[i].slot = day[j].slot /\ (i = j \/ p.crossSetConflicts)) =>
            \A k \in 1 .. Len(day[i].assignments), m \in 1 .. Len(day[j].assignments) :
                Together(p, day, i, k, j, m)

DayTypes ==
    /\ IsPlan(plan)
    /\ date \in 0 .. LastDate
    /\ calling \in BOOLEAN
    /\ available \in Engine!Roster
    /\ queue \in Seq(EngineCall)
    /\ rows \in Seq(Row)
    /\ cursors \in [TaskSet -> Int]
    /\ priorInSlot \subseteq Worker \X Task
    /\ snapshots \in [Date -> Seq(Row)]

\* The rows are the results of the first calls of the day; the queue holds the rest.
Progress ==
    date # 0 =>
        /\ Len(rows) + Len(queue) = Len(DayCalls(date))
        /\ \A i \in 1 .. Len(rows) : LET call == DayCalls(date)[i] IN
              rows[i].slot = call.slot /\ rows[i].category = call.category
                /\ rows[i].taskSet = call.taskSet
        /\ \A j \in 1 .. Len(queue) : queue[j] = DayCalls(date)[Len(rows) + j]

\* A running call is the one at the head of the queue.
CallRuns ==
    calling => /\ date # 0 /\ queue # <<>>
               /\ Proved!IInv
               /\ input = [weekday           |-> WeekdayOf[date],
                           taskSetId         |-> Head(queue).taskSet,
                           slotTasks         |-> plan.tasks,
                           availableWorkers  |-> available,
                           cursor            |-> cursors[Head(queue).taskSet],
                           crossSetConflicts |-> plan.crossSetConflicts,
                           priorAssignments  |-> priorInSlot]

\* What is carried over holds no conflict ...
PriorSound ==
    plan.crossSetConflicts =>
        \A p, q \in priorInSlot :
            p[1] = q[1] => ~Engine!ConflictsIn(plan.tasks, p[2], q[2])

\* ... and everything given out in the slot.
PriorCovers ==
    date # 0 =>
        LET slot == IF calling THEN Head(queue).slot ELSE rows[Len(rows)].slot
        IN  \A i \in 1 .. Len(rows) :
               rows[i].slot = slot => GivenBy(rows[i].assignments) \subseteq priorInSlot

RowsFree == date # 0 => Free(plan, rows)

StoredFree == \A d \in Date : Free(plan, snapshots[d])

DayInv ==
    /\ DayTypes
    /\ Progress
    /\ CallRuns
    /\ PriorSound
    /\ PriorCovers
    /\ RowsFree
    /\ StoredFree

LEMMA DayInit == Init => DayInv
<1>. SUFFICES ASSUME Init PROVE DayInv
  OBVIOUS
<1>1. DayTypes
  <2>1. <<>> \in Seq(Engine!Worker) /\ Len(<<>>) = 0
    OBVIOUS
  <2>2. \A i, j \in 1 .. 0 : FALSE
    OBVIOUS
  <2>3. <<>> \in Engine!Roster
    BY <2>1, <2>2, Zenon DEF Engine!Roster
  <2>4. available \in Engine!Roster
    BY <2>3 DEF Init
  <2>7. IsPlan(plan) /\ calling \in BOOLEAN
    BY PlansAssumption, Zenon DEF Init
  <2>5. /\ date \in 0 .. LastDate
        /\ queue \in Seq(EngineCall) /\ rows \in Seq(Row) /\ cursors \in [TaskSet -> Int]
        /\ priorInSlot \subseteq Worker \X Task
    BY PlansAssumption DEF Init
  <2>6. snapshots \in [Date -> Seq(Row)]
    BY DEF Init
  <2>. QED BY <2>4, <2>5, <2>6, <2>7, Zenon DEF DayTypes
<1>2. Progress /\ CallRuns /\ PriorCovers /\ RowsFree /\ PriorSound
  BY DEF Init, Progress, CallRuns, PriorCovers, RowsFree, PriorSound
<1>3. StoredFree
  BY DEF Init, StoredFree, Free
<1>. QED BY <1>1, <1>2, <1>3 DEF DayInv

-----------------------------------------------------------------------------
(* A day begins. *)

\* SlotsForDate, as a function of the plan.
SlotsUnder(p, d) ==
    LET slots == p.timeSlots
        due   == {i \in 1 .. Len(slots) :
                    /\ slots[i].weekdays = {} \/ WeekdayOf[d] \in slots[i].weekdays
                    /\ slots[i].start >= 0}
        Earlier(i, j) == \/ slots[i].start < slots[j].start
                         \/ slots[i].start = slots[j].start /\ i < j
    IN  IF WeekdayOf[d] \in p.workWeekdays /\ d \notin p.holidays
        THEN Sorted(due, Earlier) ELSE <<>>

LEMMA CallsStay ==
    ASSUME NEW d, plan' = plan, date' = d
    PROVE  DayCalls(date)' = DayCalls(d)
<1>1. SlotsForDate(date)' = SlotsForDate(d)
  <2>1. SlotsForDate(date)' = SlotsUnder(plan', date')
    BY DEF SlotsForDate, SlotsUnder, IsWorkday, Sorted
  <2>2. SlotsForDate(d) = SlotsUnder(plan, d)
    BY DEF SlotsForDate, SlotsUnder, IsWorkday, Sorted
  <2>. QED BY <2>1, <2>2
<1>2. \A c : SetsOf(c)' = SetsOf(c)
  BY Zenon DEF SetsOf
<1>3. \A i : CallsOfSlot(i)' = CallsOfSlot(i)
  BY <1>2, Zenon DEF CallsOfSlot
<1>. QED BY <1>1, <1>3, Zenon DEF DayCalls

LEMMA StoredStays ==
    ASSUME StoredFree, plan' = plan, snapshots' = snapshots
    PROVE  StoredFree'
BY Zenon DEF StoredFree

LEMMA ComputeDayKeeps ==
    ASSUME DayInv, NEW d \in Date, ComputeDay(d)
    PROVE  DayInv'
<1>0. /\ plan' = plan /\ date' = d /\ rows' = <<>> /\ queue' = DayCalls(d)
      /\ available' = AvailableWorkers(d) /\ priorInSlot' = {} /\ cursors' = cursors
      /\ snapshots' = snapshots
  BY DEF ComputeDay
<1>1. DayTypes'
  <2>1. /\ IsPlan(plan) /\ cursors \in [TaskSet -> Int] /\ snapshots \in [Date -> Seq(Row)]
        /\ (calling \in BOOLEAN)
    BY Zenon DEF DayInv, DayTypes
  <2>2. /\ date' \in 0 .. LastDate /\ queue' \in Seq(EngineCall) /\ rows' \in Seq(Row)
        /\ priorInSlot' \subseteq Worker \X Task
    BY <1>0, <2>1, DayCallsSound DEF Date
  <2>3. available' \in Engine!Roster
    BY <1>0, AvailableIsRoster
  <2>4. calling' \in BOOLEAN
    BY <2>1, Zenon DEF ComputeDay
  <2>. QED BY <1>0, <2>1, <2>2, <2>3, <2>4, Zenon DEF DayTypes
<1>2. Progress'
  <2>1. DayCalls(date)' = DayCalls(d) /\ DayCalls(d) \in Seq(EngineCall)
    BY <1>0, CallsStay, DayCallsSound DEF DayInv, DayTypes
  <2>. QED BY <1>0, <2>1 DEF Progress
<1>3. CallRuns'
  <2>1. date = 0 /\ calling' = calling
    BY Zenon DEF ComputeDay
  <2>2. ~calling
    BY <2>1, Zenon DEF DayInv, CallRuns
  <2>. QED BY <2>1, <2>2, Zenon DEF CallRuns
<1>4. PriorSound' /\ PriorCovers' /\ RowsFree'
  BY <1>0 DEF PriorSound, PriorCovers, RowsFree, Free
<1>5. StoredFree'
  BY <1>0, StoredStays DEF DayInv
<1>. QED BY <1>1, <1>2, <1>3, <1>4, <1>5 DEF DayInv

-----------------------------------------------------------------------------
(* A call starts, runs and returns. *)

LEMMA QueueHead ==
    ASSUME DayInv, date # 0, queue # <<>>
    PROVE  /\ Head(queue) \in EngineCall /\ Tail(queue) \in Seq(EngineCall)
           /\ Len(rows) \in Nat /\ Len(rows) + 1 \in 1 .. Len(DayCalls(date))
           /\ Head(queue) = DayCalls(date)[Len(rows) + 1]
           /\ Len(Tail(queue)) = Len(queue) - 1
           /\ \A j \in 1 .. Len(queue) - 1 : Tail(queue)[j] = queue[j + 1]
<1>1. queue \in Seq(EngineCall) /\ rows \in Seq(Row)
  BY DEF DayInv, DayTypes
<1>2. /\ Head(queue) \in EngineCall /\ Tail(queue) \in Seq(EngineCall)
      /\ Len(queue) \in Nat /\ Len(queue) >= 1 /\ Len(rows) \in Nat
      /\ Head(queue) = queue[1] /\ Len(Tail(queue)) = Len(queue) - 1
      /\ \A j \in 1 .. Len(queue) - 1 : Tail(queue)[j] = queue[j + 1]
  BY <1>1
<1>3. /\ Len(rows) + Len(queue) = Len(DayCalls(date))
      /\ \A j \in 1 .. Len(queue) : queue[j] = DayCalls(date)[Len(rows) + j]
  BY DEF DayInv, Progress
<1>. QED BY <1>2, <1>3

\* The rows of the slot at the head of the queue are the last ones.
LEMMA SlotIsLast ==
    ASSUME DayInv, date # 0, queue # <<>>, NEW i \in 1 .. Len(rows),
           rows[i].slot = Head(queue).slot
    PROVE  rows # <<>> /\ rows[Len(rows)].slot = Head(queue).slot
<1>. PICK n \in Nat : n = Len(rows)
  BY QueueHead
<1>1. /\ n + 1 \in 1 .. Len(DayCalls(date)) /\ Head(queue) = DayCalls(date)[n + 1]
      /\ i \in 1 .. n /\ n \in 1 .. n
  BY QueueHead
<1>2. \A k \in 1 .. n : rows[k].slot = DayCalls(date)[k].slot
  BY DEF DayInv, Progress
<1>3. Grouped(DayCalls(date)) /\ Len(DayCalls(date)) \in Nat
  BY DayCallsSound DEF DayInv, DayTypes
<1>4. /\ i \in 1 .. Len(DayCalls(date)) /\ n \in 1 .. Len(DayCalls(date))
      /\ i <= n /\ n <= n + 1
  BY <1>1, <1>3
<1>5. DayCalls(date)[i].slot = DayCalls(date)[n + 1].slot
  BY <1>1, <1>2
<1>6. DayCalls(date)[n].slot = DayCalls(date)[i].slot
  BY <1>1, <1>3, <1>4, <1>5 DEF Grouped
<1>. QED BY <1>1, <1>2, <1>5, <1>6

LEMMA CallsOfPlan ==
    ASSUME NEW d, plan' = plan
    PROVE  DayCalls(d)' = DayCalls(d)
<1>1. SlotsForDate(d)' = SlotsForDate(d)
  <2>1. SlotsForDate(d)' = SlotsUnder(plan', d)
    BY DEF SlotsForDate, SlotsUnder, IsWorkday, Sorted
  <2>2. SlotsForDate(d) = SlotsUnder(plan, d)
    BY DEF SlotsForDate, SlotsUnder, IsWorkday, Sorted
  <2>. QED BY <2>1, <2>2
<1>2. \A c : SetsOf(c)' = SetsOf(c)
  BY Zenon DEF SetsOf
<1>3. \A i : CallsOfSlot(i)' = CallsOfSlot(i)
  BY <1>2, Zenon DEF CallsOfSlot
<1>. QED BY <1>1, <1>3, Zenon DEF DayCalls

LEMMA CallEngineKeeps ==
    ASSUME DayInv, CallEngine
    PROVE  DayInv'
<1>0. /\ plan' = plan /\ date' = date /\ rows' = rows /\ queue' = queue
      /\ available' = available /\ priorInSlot' = CarriedOver /\ cursors' = cursors
      /\ snapshots' = snapshots /\ date # 0 /\ queue # <<>> /\ Engine!Call(CallInput)
  BY Zenon DEF CallEngine
<1>1. CarriedOver \subseteq priorInSlot
  BY DEF CarriedOver
<1>2. DayTypes'
  <2>1. /\ IsPlan(plan) /\ cursors \in [TaskSet -> Int] /\ snapshots \in [Date -> Seq(Row)]
        /\ date \in 0 .. LastDate /\ available \in Engine!Roster /\ queue \in Seq(EngineCall)
        /\ rows \in Seq(Row)
    BY Zenon DEF DayInv, DayTypes
  <2>2. priorInSlot' \subseteq Worker \X Task
    BY <1>0, <1>1 DEF DayInv, DayTypes
  <2>3. calling' \in BOOLEAN
    BY Zenon DEF CallEngine
  <2>. QED BY <1>0, <2>1, <2>2, <2>3, Zenon DEF DayTypes
<1>3. Progress'
  <2>1. DayCalls(date)' = DayCalls(date)
    BY <1>0, CallsStay
  <2>. QED BY <1>0, <2>1, Zenon DEF DayInv, Progress
<1>4. PriorSound'
  BY <1>0, <1>1 DEF DayInv, PriorSound
<1>5. CallRuns'
  <2>1. CallInput \in Engine!AssignInput
    <3>1. /\ IsPlan(plan) /\ date \in Date /\ available \in Engine!Roster
          /\ CarriedOver \subseteq Worker \X Task /\ Head(queue).taskSet \in TaskSet
          /\ cursors[Head(queue).taskSet] \in Int
      BY <1>0, <1>1, QueueHead DEF DayInv, DayTypes, EngineCall, Date
    <3>2. /\ plan.tasks \in [Task -> Engine!TaskDef] /\ plan.crossSetConflicts \in BOOLEAN
          /\ WeekdayOf[date] \in Weekday
      BY <3>1, PlansAssumption DEF IsPlan
    <3>3. Engine!Worker = Worker /\ Engine!Task = Task
      BY DEF Engine!Worker, Worker, Engine!Task, Task
    <3>. QED BY <3>1, <3>2, <3>3 DEF CallInput, Engine!AssignInput
  <2>2. Engine!SoundPrior(CallInput)
    BY <1>1 DEF DayInv, PriorSound, CallInput, Engine!SoundPrior
  <2>3. Proved!IInv' /\ input' = CallInput
    BY <1>0, <2>1, <2>2, EngineCallStarts
  <2>4. input' = [weekday           |-> WeekdayOf[date'],
                  taskSetId         |-> Head(queue').taskSet,
                  slotTasks         |-> plan'.tasks,
                  availableWorkers  |-> available',
                  cursor            |-> cursors'[Head(queue').taskSet],
                  crossSetConflicts |-> plan'.crossSetConflicts,
                  priorAssignments  |-> priorInSlot']
    BY <1>0, <2>3 DEF CallInput
  <2>. QED BY <1>0, <2>3, <2>4, Zenon DEF CallRuns
<1>6. PriorCovers'
  <2>1. calling'
    BY Zenon DEF CallEngine
  <2>2. ASSUME NEW i \in 1 .. Len(rows), rows[i].slot = Head(queue).slot
        PROVE  GivenBy(rows[i].assignments) \subseteq CarriedOver
    <3>1. rows # <<>> /\ rows[Len(rows)].slot = Head(queue).slot
      BY <1>0, <2>2, SlotIsLast
    <3>2. CarriedOver = priorInSlot
      BY <3>1 DEF CarriedOver
    <3>3. ~calling
      BY Zenon DEF CallEngine
    <3>. QED BY <1>0, <2>2, <3>1, <3>2, <3>3 DEF DayInv, PriorCovers
  <2>. QED BY <1>0, <2>1, <2>2 DEF PriorCovers
<1>7. RowsFree' /\ StoredFree'
  BY <1>0, StoredStays, Zenon DEF DayInv, RowsFree
<1>. QED BY <1>2, <1>3, <1>4, <1>5, <1>6, <1>7 DEF DayInv

LEMMA EngineStepKeepsDay ==
    ASSUME DayInv, EngineStep
    PROVE  DayInv'
<1>1. Proved!IInv' /\ input' = input
  BY EngineStepKeeps, Zenon DEF EngineStep, DayInv, CallRuns
<1>2. /\ plan' = plan /\ date' = date /\ rows' = rows /\ queue' = queue
      /\ available' = available /\ priorInSlot' = priorInSlot /\ cursors' = cursors
      /\ snapshots' = snapshots /\ calling' = calling
  BY Zenon DEF EngineStep, dayVars
<1>3. DayTypes' /\ PriorSound' /\ PriorCovers' /\ RowsFree'
  BY <1>2, Zenon DEF DayInv, DayTypes, PriorSound, PriorCovers, RowsFree
<1>4. Progress'
  <2>1. DayCalls(date)' = DayCalls(date)
    BY <1>2, CallsStay
  <2>. QED BY <1>2, <2>1, Zenon DEF DayInv, Progress
<1>5. CallRuns'
  BY <1>1, <1>2, Zenon DEF DayInv, CallRuns
<1>6. StoredFree'
  BY <1>2, StoredStays DEF DayInv
<1>. QED BY <1>3, <1>4, <1>5, <1>6 DEF DayInv

\* What a call gives out conflicts neither in itself nor with what was carried over.
LEMMA GivenSound ==
    ASSUME DayInv, calling, pc = "done"
    PROVE  /\ plan.crossSetConflicts =>
                 \A p, q \in priorInSlot \cup Given :
                    p[1] = q[1] => ~Engine!ConflictsIn(plan.tasks, p[2], q[2])
           /\ \A i, k \in 1 .. Len(assignments) :
                 (i # k /\ assignments[i].workerId = assignments[k].workerId) =>
                    /\ assignments[i].taskId # assignments[k].taskId
                    /\ ~Engine!ConflictsIn(plan.tasks, assignments[i].taskId, assignments[k].taskId)
           /\ plan.crossSetConflicts =>
                 \A i \in 1 .. Len(assignments), t \in Task :
                    <<assignments[i].workerId, t>> \in priorInSlot =>
                       /\ assignments[i].taskId # t
                       /\ ~Engine!ConflictsIn(plan.tasks, assignments[i].taskId, t)
           /\ assignments \in Seq([taskId : Task, workerId : Worker])
           /\ unassigned \in [Task -> Nat] /\ cursor \in Int
           /\ Given \subseteq Worker \X Task
<1>1. Proved!IInv /\ input.slotTasks = plan.tasks /\ input.priorAssignments = priorInSlot
      /\ (input.crossSetConflicts <=> plan.crossSetConflicts)
  BY DEF DayInv, CallRuns
<1>2. /\ assignments \in Seq([taskId : Task, workerId : Worker])
      /\ unassigned \in [Task -> Nat] /\ cursor \in Int
  BY <1>1, EngineResult
<1>3. \A i, k \in 1 .. Len(assignments) :
         (i # k /\ assignments[i].workerId = assignments[k].workerId) =>
            /\ assignments[i].taskId # assignments[k].taskId
            /\ ~Engine!ConflictsIn(plan.tasks, assignments[i].taskId, assignments[k].taskId)
  BY <1>1, EngineResult
<1>4. plan.crossSetConflicts =>
         \A i \in 1 .. Len(assignments), t \in Task :
            <<assignments[i].workerId, t>> \in priorInSlot =>
               /\ assignments[i].taskId # t
               /\ ~Engine!ConflictsIn(plan.tasks, assignments[i].taskId, t)
  BY <1>1, EngineResult
<1>5. \A p \in Given : \E i \in 1 .. Len(assignments) :
         p[1] = assignments[i].workerId /\ p[2] = assignments[i].taskId
  BY DEF Given
<1>6. priorInSlot \subseteq Worker \X Task
  BY DEF DayInv, DayTypes
<1>7. Given \subseteq Worker \X Task
  <2>. SUFFICES ASSUME NEW i \in 1 .. Len(assignments)
                PROVE  assignments[i].workerId \in Worker /\ assignments[i].taskId \in Task
    BY DEF Given
  <2>. DEFINE Seat == [taskId : Task, workerId : Worker]
  <2>1. assignments \in Seq(Seat)
    BY <1>2
  <2>. HIDE DEF Seat
  <2>2. assignments[i] \in Seat
    BY <2>1
  <2>. QED BY <2>2 DEF Seat
<1>8. ASSUME plan.crossSetConflicts, NEW p \in priorInSlot \cup Given,
             NEW q \in priorInSlot \cup Given, p[1] = q[1]
      PROVE  ~Engine!ConflictsIn(plan.tasks, p[2], q[2])
  <2>1. CASE p \in priorInSlot /\ q \in priorInSlot
    BY <1>8, <2>1 DEF DayInv, PriorSound
  <2>2. ASSUME NEW a \in Given, NEW b \in priorInSlot, a[1] = b[1]
        PROVE  ~Engine!ConflictsIn(plan.tasks, a[2], b[2])
    <3>1. PICK i \in 1 .. Len(assignments) :
               a[1] = assignments[i].workerId /\ a[2] = assignments[i].taskId
      BY <1>5, <2>2
    <3>2. b = <<b[1], b[2]>> /\ b[2] \in Task
      BY <1>6
    <3>3. <<assignments[i].workerId, b[2]>> \in priorInSlot
      BY <2>2, <3>1, <3>2
    <3>. QED BY <1>4, <1>8, <3>1, <3>2, <3>3
  <2>3. CASE p \in Given /\ q \in priorInSlot
    BY <1>8, <2>2, <2>3
  <2>4. CASE p \in priorInSlot /\ q \in Given
    BY <1>8, <2>2, <2>4, ConflictsBothWays
  <2>5. CASE p \in Given /\ q \in Given
    <3>1. PICK i \in 1 .. Len(assignments) :
               p[1] = assignments[i].workerId /\ p[2] = assignments[i].taskId
      BY <1>5, <2>5
    <3>2. PICK k \in 1 .. Len(assignments) :
               q[1] = assignments[k].workerId /\ q[2] = assignments[k].taskId
      BY <1>5, <2>5
    <3>3. CASE i = k
      BY <3>1, <3>2, <3>3 DEF Engine!ConflictsIn
    <3>4. CASE i # k
      BY <1>3, <1>8, <3>1, <3>2, <3>4
    <3>. QED BY <3>3, <3>4
  <2>. QED BY <2>1, <2>3, <2>4, <2>5
<1>9. plan.crossSetConflicts =>
         \A p, q \in priorInSlot \cup Given :
            p[1] = q[1] => ~Engine!ConflictsIn(plan.tasks, p[2], q[2])
  BY <1>8
<1>. QED BY <1>2, <1>3, <1>4, <1>7, <1>9

\* The row a call leaves.
NewRow == [slot |-> Head(queue).slot, category |-> Head(queue).category,
           taskSet |-> Head(queue).taskSet,
           assignments |-> assignments, unassigned |-> unassigned]

LEMMA TakeResultKeeps ==
    ASSUME DayInv, TakeResult
    PROVE  DayInv'
<1>0. /\ plan' = plan /\ date' = date /\ rows' = Append(rows, NewRow) /\ queue' = Tail(queue)
      /\ available' = available /\ priorInSlot' = priorInSlot \cup Given
      /\ cursors' = [cursors EXCEPT ![Head(queue).taskSet] = cursor]
      /\ snapshots' = snapshots /\ pc = "done"
  BY DEF TakeResult, NewRow, CursorsAfter
<1>1. calling /\ ~calling' /\ date # 0 /\ queue # <<>>
  BY Zenon DEF TakeResult, DayInv, CallRuns
<1>2. /\ assignments \in Seq([taskId : Task, workerId : Worker])
      /\ unassigned \in [Task -> Nat] /\ cursor \in Int
      /\ Given \subseteq Worker \X Task
  BY <1>0, <1>1, GivenSound
<1>3. /\ rows \in Seq(Row) /\ priorInSlot \subseteq Worker \X Task
      /\ cursors \in [TaskSet -> Int]
  BY DEF DayInv, DayTypes
<1>4. NewRow \in Row
  BY <1>1, <1>2, QueueHead DEF NewRow, Row, EngineCall
<1>. PICK n \in Nat : n = Len(rows)
  BY <1>3
<1>5. /\ rows' \in Seq(Row) /\ Len(rows') = n + 1
      /\ \A i \in 1 .. n : rows'[i] = rows[i]
      /\ rows'[n + 1] = NewRow
  BY <1>0, <1>3, <1>4
<1>6. DayTypes'
  <2>1. /\ IsPlan(plan) /\ snapshots \in [Date -> Seq(Row)]
        /\ date \in 0 .. LastDate /\ available \in Engine!Roster
    BY Zenon DEF DayInv, DayTypes
  <2>2. queue' \in Seq(EngineCall) /\ priorInSlot' \subseteq Worker \X Task
        /\ cursors' \in [TaskSet -> Int]
    BY <1>0, <1>1, <1>2, <1>3, QueueHead
  <2>3. calling' \in BOOLEAN
    BY Zenon DEF TakeResult
  <2>. QED BY <1>0, <1>5, <2>1, <2>2, <2>3, Zenon DEF DayTypes
<1>7. Progress'
  <2>1. DayCalls(date)' = DayCalls(date)
    BY <1>0, CallsStay
  <2>2. PICK calls \in Seq(EngineCall), m \in Nat : calls = DayCalls(date) /\ m = Len(queue)
    BY DayCallsSound DEF DayInv, DayTypes
  <2>3. /\ n + m = Len(calls)
        /\ \A i \in 1 .. n : rows[i].slot = calls[i].slot /\ rows[i].category = calls[i].category
                               /\ rows[i].taskSet = calls[i].taskSet
        /\ \A j \in 1 .. m : queue[j] = calls[n + j]
    BY <1>1, <2>2 DEF DayInv, Progress
  <2>4. /\ Head(queue) = calls[n + 1] /\ Len(queue') = m - 1
        /\ \A j \in 1 .. m - 1 : queue'[j] = queue[j + 1]
    BY <1>0, <1>1, <2>2, QueueHead
  <2>5. (n + 1) + Len(queue') = Len(calls)
    <3>1. \A c \in Nat : n + m = c => (n + 1) + (m - 1) = c
      OBVIOUS
    <3>2. Len(calls) \in Nat
      OBVIOUS
    <3>. QED BY <2>3, <2>4, <3>1, <3>2
  <2>6. ASSUME NEW i \in 1 .. n + 1
        PROVE  rows'[i].slot = calls[i].slot /\ rows'[i].category = calls[i].category
                 /\ rows'[i].taskSet = calls[i].taskSet
    <3>1. CASE i \in 1 .. n
      BY <1>5, <2>3, <3>1
    <3>2. CASE i = n + 1
      BY <1>5, <2>4, <3>2 DEF NewRow
    <3>. QED BY <3>1, <3>2
  <2>7. ASSUME NEW j \in 1 .. m - 1
        PROVE  queue'[j] = calls[(n + 1) + j]
    <3>1. j + 1 \in 1 .. m /\ n + (j + 1) = (n + 1) + j
      OBVIOUS
    <3>. QED BY <2>3, <2>4, <3>1
  <2>. QED BY <1>5, <2>1, <2>2, <2>4, <2>5, <2>6, <2>7 DEF Progress
<1>8. CallRuns'
  BY <1>1, Zenon DEF CallRuns
<1>9. PriorSound'
  BY <1>0, <1>1, GivenSound DEF PriorSound
<1>10. PriorCovers'
  <2>1. rows'[Len(rows')].slot = Head(queue).slot
    BY <1>5 DEF NewRow
  <2>2. ASSUME NEW i \in 1 .. n + 1, rows'[i].slot = Head(queue).slot
        PROVE  GivenBy(rows'[i].assignments) \subseteq priorInSlot'
    <3>1. CASE i \in 1 .. n
      <4>1. GivenBy(rows[i].assignments) \subseteq priorInSlot
        BY <1>1, <1>5, <2>2, <3>1 DEF DayInv, PriorCovers
      <4>. QED BY <1>0, <1>5, <3>1, <4>1
    <3>2. CASE i = n + 1
      <4>1. GivenBy(assignments) = Given
        BY DEF GivenBy, Given
      <4>2. rows'[i].assignments = assignments
        BY <1>5, <3>2 DEF NewRow
      <4>. QED BY <1>0, <4>1, <4>2
    <3>. QED BY <3>1, <3>2
  <2>. QED BY <1>1, <1>5, <2>1, <2>2 DEF PriorCovers
<1>11. RowsFree'
  <2>. DEFINE day == rows'
  <2>1. /\ Len(day) = n + 1 /\ \A i \in 1 .. n : day[i] = rows[i]
        /\ day[n + 1].assignments = assignments /\ day[n + 1].slot = Head(queue).slot
    BY <1>5 DEF NewRow
  <2>. HIDE DEF day
  <2>2. ASSUME NEW i \in 1 .. n, NEW j \in 1 .. n, day[i].slot = day[j].slot,
               i = j \/ plan.crossSetConflicts,
               NEW k \in 1 .. Len(day[i].assignments), NEW m \in 1 .. Len(day[j].assignments)
        PROVE  Together(plan, day, i, k, j, m)
    <3>1. Together(plan, rows, i, k, j, m)
      BY <1>1, <2>1, <2>2 DEF DayInv, RowsFree, Free
    <3>. QED BY <2>1, <3>1 DEF Together
  <2>3. ASSUME NEW k \in 1 .. Len(assignments), NEW m \in 1 .. Len(assignments)
        PROVE  Together(plan, day, n + 1, k, n + 1, m)
    <3>1. (k # m /\ assignments[k].workerId = assignments[m].workerId) =>
            /\ assignments[k].taskId # assignments[m].taskId
            /\ ~Engine!ConflictsIn(plan.tasks, assignments[k].taskId, assignments[m].taskId)
      BY <1>0, <1>1, GivenSound
    <3>. QED BY <2>1, <3>1 DEF Together
  <2>4. ASSUME plan.crossSetConflicts, NEW i \in 1 .. n, day[i].slot = day[n + 1].slot,
               NEW k \in 1 .. Len(day[i].assignments), NEW m \in 1 .. Len(assignments)
        PROVE  Together(plan, day, i, k, n + 1, m) /\ Together(plan, day, n + 1, m, i, k)
    <3>1. GivenBy(day[i].assignments) \subseteq priorInSlot
      BY <1>1, <2>1, <2>4 DEF DayInv, PriorCovers
    <3>2. <<day[i].assignments[k].workerId, day[i].assignments[k].taskId>> \in priorInSlot
      BY <3>1 DEF GivenBy
    <3>3. day[i].assignments[k].taskId \in Task
      BY <1>3, <3>2
    <3>4. day[i].assignments[k].workerId = assignments[m].workerId =>
             /\ assignments[m].taskId # day[i].assignments[k].taskId
             /\ ~Engine!ConflictsIn(plan.tasks, assignments[m].taskId, day[i].assignments[k].taskId)
      BY <1>0, <1>1, <2>4, <3>2, <3>3, GivenSound
    <3>. QED BY <2>1, <3>4, ConflictsBothWays DEF Together
  <2>5. Free(plan, day)
    <3>. SUFFICES ASSUME NEW i \in 1 .. n + 1, NEW j \in 1 .. n + 1, day[i].slot = day[j].slot,
                         i = j \/ plan.crossSetConflicts,
                         NEW k \in 1 .. Len(day[i].assignments),
                         NEW m \in 1 .. Len(day[j].assignments)
                  PROVE  Together(plan, day, i, k, j, m)
      BY <2>1 DEF Free
    <3>1. CASE i \in 1 .. n /\ j \in 1 .. n
      BY <2>2, <3>1
    <3>2. CASE i \in 1 .. n /\ j = n + 1
      BY <2>1, <2>4, <3>2
    <3>3. CASE i = n + 1 /\ j \in 1 .. n
      BY <2>1, <2>4, <3>3
    <3>4. CASE i = n + 1 /\ j = n + 1
      BY <2>1, <2>3, <3>4
    <3>. QED BY <3>1, <3>2, <3>3, <3>4
  <2>. QED BY <1>0, <2>5, Zenon DEF RowsFree, day
<1>12. StoredFree'
  BY <1>0, StoredStays DEF DayInv
<1>. QED BY <1>6, <1>7, <1>8, <1>9, <1>10, <1>11, <1>12 DEF DayInv

LEMMA StoreDayKeeps ==
    ASSUME DayInv, StoreDay
    PROVE  DayInv'
<1>0. /\ plan' = plan /\ date' = 0 /\ rows' = rows /\ queue' = queue
      /\ available' = available /\ priorInSlot' = priorInSlot /\ cursors' = cursors
      /\ snapshots' = [snapshots EXCEPT ![date] = rows] /\ date # 0
  BY Zenon DEF StoreDay
<1>1. calling' = calling /\ ~calling
  BY Zenon DEF StoreDay
<1>2. DayTypes'
  <2>1. /\ IsPlan(plan) /\ available \in Engine!Roster /\ queue \in Seq(EngineCall)
        /\ rows \in Seq(Row) /\ priorInSlot \subseteq Worker \X Task
        /\ cursors \in [TaskSet -> Int] /\ calling \in BOOLEAN
    BY Zenon DEF DayInv, DayTypes
  <2>2. date' \in 0 .. LastDate
    BY <1>0, PlansAssumption
  <2>3. snapshots \in [Date -> Seq(Row)] /\ rows \in Seq(Row)
    BY Zenon DEF DayInv, DayTypes
  <2>4. snapshots' \in [Date -> Seq(Row)]
    BY <1>0, <2>3
  <2>. QED BY <1>0, <1>1, <2>1, <2>2, <2>4, Zenon DEF DayTypes
<1>3. Progress' /\ CallRuns' /\ PriorCovers' /\ RowsFree'
  BY <1>0, <1>1, Zenon DEF Progress, CallRuns, PriorCovers, RowsFree
<1>4. PriorSound'
  BY <1>0, Zenon DEF DayInv, PriorSound
<1>5. StoredFree'
  <2>1. \A d \in Date : Free(plan, snapshots[d])
    BY Zenon DEF DayInv, StoredFree
  <2>2. Free(plan, rows)
    BY <1>0, Zenon DEF DayInv, RowsFree
  <2>3. \A d \in Date : snapshots'[d] = IF d = date THEN rows ELSE snapshots[d]
    BY <1>0 DEF DayInv, DayTypes
  <2>4. ASSUME NEW d \in Date PROVE Free(plan, snapshots'[d])
    BY <2>1, <2>2, <2>3
  <2>. QED BY <1>0, <2>4, Zenon DEF StoredFree
<1>. QED BY <1>2, <1>3, <1>4, <1>5 DEF DayInv

LEMMA StutterKeeps ==
    ASSUME DayInv, UNCHANGED vars
    PROVE  DayInv'
<1>1. /\ plan' = plan /\ date' = date /\ rows' = rows /\ queue' = queue
      /\ available' = available /\ priorInSlot' = priorInSlot /\ cursors' = cursors
      /\ snapshots' = snapshots /\ calling' = calling
  BY Zenon DEF vars, dayVars
<1>2. Proved!IInv => Proved!IInv'
  <2>1. UNCHANGED Proved!vars
    BY Zenon DEF vars, engineVars, Proved!vars
  <2>. QED BY <2>1, EngineConstants, Proved!IInvInductive
<1>3. input' = input
  BY Zenon DEF vars, engineVars
<1>4. DayTypes' /\ PriorSound' /\ PriorCovers' /\ RowsFree'
  BY <1>1, Zenon DEF DayInv, DayTypes, PriorSound, PriorCovers, RowsFree
<1>5. Progress'
  <2>1. DayCalls(date)' = DayCalls(date)
    BY <1>1, CallsStay
  <2>. QED BY <1>1, <2>1, Zenon DEF DayInv, Progress
<1>6. CallRuns'
  BY <1>1, <1>2, <1>3, Zenon DEF DayInv, CallRuns
<1>7. StoredFree'
  BY <1>1, StoredStays DEF DayInv
<1>. QED BY <1>4, <1>5, <1>6, <1>7 DEF DayInv

LEMMA DayStep ==
    ASSUME DayInv, [Next]_vars
    PROVE  DayInv'
BY ComputeDayKeeps, CallEngineKeeps, EngineStepKeepsDay, TakeResultKeeps, StoreDayKeeps,
   StutterKeeps DEF Next

LEMMA DayInductive == Spec => []DayInv
<1>1. DayInv /\ [Next]_vars => DayInv'
  BY DayStep
<1>. QED BY <1>1, DayInit, PTL DEF Spec

-----------------------------------------------------------------------------
\* Whatever computeDay passes to the engine is what the engine is proved
\* about: a date of the week, tasks and a roster of the right form, and
\* carried-over results that hold no conflict (day_assign.cpp, computeDay).
THEOREM CallsSound == Spec => []CallsAreSound
<1>1. DayInv => CallsAreSound
  <2>. SUFFICES ASSUME DayInv, calling
                PROVE  input \in Engine!AssignInput /\ Engine!SoundPrior(input)
    BY Zenon DEF CallsAreSound
  <2>0. /\ date # 0 /\ queue # <<>>
        /\ input = [weekday           |-> WeekdayOf[date],
                    taskSetId         |-> Head(queue).taskSet,
                    slotTasks         |-> plan.tasks,
                    availableWorkers  |-> available,
                    cursor            |-> cursors[Head(queue).taskSet],
                    crossSetConflicts |-> plan.crossSetConflicts,
                    priorAssignments  |-> priorInSlot]
    BY Zenon DEF DayInv, CallRuns
  <2>1. /\ IsPlan(plan) /\ date \in Date /\ available \in Engine!Roster
        /\ priorInSlot \subseteq Worker \X Task /\ Head(queue).taskSet \in TaskSet
        /\ cursors[Head(queue).taskSet] \in Int
    BY <2>0, QueueHead DEF DayInv, DayTypes, EngineCall, Date
  <2>2. /\ plan.tasks \in [Task -> Engine!TaskDef] /\ plan.crossSetConflicts \in BOOLEAN
        /\ WeekdayOf[date] \in Weekday
    BY <2>1, PlansAssumption DEF IsPlan
  <2>3. Engine!Worker = Worker /\ Engine!Task = Task
    BY DEF Engine!Worker, Worker, Engine!Task, Task
  <2>4. input \in Engine!AssignInput
    BY <2>0, <2>1, <2>2, <2>3 DEF Engine!AssignInput
  <2>5. Engine!SoundPrior(input)
    BY <2>0 DEF DayInv, PriorSound, Engine!SoundPrior
  <2>. QED BY <2>4, <2>5
<1>. QED BY <1>1, DayInductive, PTL

\* Whatever the plan, nobody is given conflicting tasks, or a task twice, in
\* one task set of a stored day, nor in one time slot of it while
\* crossSetConflicts is on (computeDay and the engine it calls; D-002).
THEOREM DaysConflictFree == Spec => []SlotsConflictFree
<1>1. DayInv => SlotsConflictFree
  BY DEF DayInv, StoredFree, Free, Together, SlotsConflictFree
<1>. QED BY <1>1, DayInductive, PTL

-----------------------------------------------------------------------------
(* Every seat of a stored day is on record. *)

LEMMA MaxWithZero ==
    ASSUME NEW x \in Int
    PROVE  Max({x, 0}) = IF x > 0 THEN x ELSE 0
<1>1. CASE x > 0
  <2>1. \A m \in {x, 0} : (\A y \in {x, 0} : m >= y) <=> m = x
    BY <1>1
  <2>. QED BY <1>1, <2>1 DEF Max
<1>2. CASE ~(x > 0)
  <2>1. \A m \in {x, 0} : (\A y \in {x, 0} : m >= y) <=> m = 0
    BY <1>2
  <2>. QED BY <1>2, <2>1 DEF Max
<1>. QED BY <1>1, <1>2

\* The task is one of the set, and of that weekday.
TaskDue(p, d, set, t) ==
    /\ set \in p.tasks[t].taskSetIds
    /\ p.tasks[t].weekdays = {} \/ WeekdayOf[d] \in p.tasks[t].weekdays

\* A row says of every seat of every task due who got it, or that nobody did,
\* and nothing of other tasks.
Counted(p, d, row) ==
    \A t \in Task :
        Cardinality({k \in 1 .. Len(row.assignments) : row.assignments[k].taskId = t})
            + row.unassigned[t]
          = IF TaskDue(p, d, row.taskSet, t) THEN Max({p.tasks[t].requiredCount, 0}) ELSE 0

\* The rows answer the calls.
Answers(day, calls) ==
    /\ Len(day) = Len(calls)
    /\ \A i \in 1 .. Len(day) : /\ day[i].slot = calls[i].slot
                                /\ day[i].category = calls[i].category
                                /\ day[i].taskSet = calls[i].taskSet

CallCounts == calling => Proved!CountInv

RowsCounted == date # 0 => \A i \in 1 .. Len(rows) : Counted(plan, date, rows[i])

StoredWhole ==
    \A d \in Date : snapshots[d] # <<>> =>
        /\ Answers(snapshots[d], DayCalls(d))
        /\ \A i \in 1 .. Len(snapshots[d]) : Counted(plan, d, snapshots[d][i])

RecordInv == CallCounts /\ RowsCounted /\ StoredWhole

LEMMA RecordInit ==
    ASSUME Init
    PROVE  RecordInv
<1>1. CallCounts
  BY Zenon DEF Init, CallCounts
<1>2. RowsCounted /\ StoredWhole
  BY DEF Init, RowsCounted, StoredWhole
<1>. QED BY <1>1, <1>2 DEF RecordInv

LEMMA NewRowCounted ==
    ASSUME DayInv, RecordInv, calling, pc = "done"
    PROVE  Counted(plan, date, NewRow)
<1>. SUFFICES ASSUME NEW t \in Task
              PROVE  Cardinality({k \in 1 .. Len(assignments) : assignments[k].taskId = t})
                         + unassigned[t]
                       = IF TaskDue(plan, date, Head(queue).taskSet, t)
                         THEN Max({plan.tasks[t].requiredCount, 0}) ELSE 0
  BY DEF Counted, NewRow
<1>1. Proved!CountInv /\ Proved!Task = Task
  BY Zenon DEF RecordInv, CallCounts, Proved!Task, Task
<1>2. Proved!Cardinality(Proved!SeatsFor(t)) + unassigned[t]
        = IF t \in Proved!Target THEN Proved!Seats(t) ELSE 0
  BY <1>1 DEF Proved!CountInv, Proved!SeatsAccounted
<1>3. /\ input.taskSetId = Head(queue).taskSet /\ input.slotTasks = plan.tasks
      /\ input.weekday = WeekdayOf[date]
  BY DEF DayInv, CallRuns
<1>4. t \in Proved!Target <=> TaskDue(plan, date, Head(queue).taskSet, t)
  BY <1>1, <1>3 DEF Proved!Target, TaskDue
<1>5. plan.tasks[t].requiredCount \in Int
  BY PlansAssumption DEF IsPlan, DayInv, DayTypes, Engine!TaskDef
<1>6. Proved!Seats(t) = Max({plan.tasks[t].requiredCount, 0})
  BY <1>3, <1>5, MaxWithZero DEF Proved!Seats, Proved!Required
<1>7. Proved!SeatsFor(t) = {k \in 1 .. Len(assignments) : assignments[k].taskId = t}
  BY DEF Proved!SeatsFor
<1>8. Proved!Cardinality(Proved!SeatsFor(t)) = Cardinality(Proved!SeatsFor(t))
  BY Zenon DEF Cardinality, Proved!Cardinality
<1>. QED BY <1>2, <1>4, <1>6, <1>7, <1>8

LEMMA StoredWholeStays ==
    ASSUME StoredWhole, plan' = plan, snapshots' = snapshots
    PROVE  StoredWhole'
<1>1. \A d : DayCalls(d)' = DayCalls(d)
  BY CallsOfPlan
<1>. QED BY <1>1, Zenon DEF StoredWhole

LEMMA RecordStep ==
    ASSUME DayInv, RecordInv, [Next]_vars
    PROVE  RecordInv'
<1>1. ASSUME NEW d \in Date, ComputeDay(d) PROVE RecordInv'
  <2>1. /\ plan' = plan /\ rows' = <<>> /\ snapshots' = snapshots
    BY <1>1 DEF ComputeDay
  <2>2. date = 0 /\ calling' = calling
    BY <1>1, Zenon DEF ComputeDay
  <2>3. ~calling
    BY <2>2, Zenon DEF DayInv, CallRuns
  <2>4. CallCounts'
    BY <2>2, <2>3, Zenon DEF CallCounts
  <2>5. RowsCounted'
    BY <2>1 DEF RowsCounted
  <2>. QED BY <2>1, <2>4, <2>5, StoredWholeStays DEF RecordInv
<1>2. CASE CallEngine
  <2>1. /\ plan' = plan /\ rows' = rows /\ snapshots' = snapshots /\ date' = date
        /\ Engine!Call(CallInput)
    BY <1>2, Zenon DEF CallEngine
  <2>2. pc' = "entry"
    BY <2>1 DEF Engine!Call
  <2>3. Proved!CountInv'
    BY <2>2 DEF Proved!CountInv, Proved!SeatsCounted, Proved!SeatsAccounted
  <2>4. CallCounts' /\ RowsCounted'
    BY <2>1, <2>3, Zenon DEF CallCounts, RowsCounted, RecordInv
  <2>. QED BY <2>1, <2>4, StoredWholeStays DEF RecordInv
<1>3. CASE EngineStep
  <2>1. /\ plan' = plan /\ rows' = rows /\ snapshots' = snapshots /\ date' = date
        /\ calling /\ Engine!Step
    BY <1>3, Zenon DEF EngineStep, dayVars
  <2>2. Proved!CountInv'
    BY <2>1, EngineStepCounts, Zenon DEF DayInv, CallRuns, RecordInv, CallCounts
  <2>3. CallCounts' /\ RowsCounted'
    BY <2>1, <2>2, Zenon DEF CallCounts, RowsCounted, RecordInv
  <2>. QED BY <2>1, <2>3, StoredWholeStays DEF RecordInv
<1>4. CASE TakeResult
  <2>1. /\ plan' = plan /\ rows' = Append(rows, NewRow) /\ snapshots' = snapshots
        /\ date' = date /\ pc = "done" /\ rows \in Seq(Row)
    BY <1>4 DEF TakeResult, NewRow, DayInv, DayTypes
  <2>2. calling /\ ~calling'
    BY <1>4, Zenon DEF TakeResult
  <2>3. Counted(plan, date, NewRow)
    BY <2>1, <2>2, NewRowCounted
  <2>. PICK n \in Nat : n = Len(rows)
    BY <2>1
  <2>4. /\ Len(rows') = n + 1 /\ rows'[n + 1] = NewRow
        /\ \A i \in 1 .. n : rows'[i] = rows[i]
    BY <2>1
  <2>5. RowsCounted'
    <3>. SUFFICES ASSUME date # 0, NEW i \in 1 .. n + 1 PROVE Counted(plan, date, rows'[i])
      BY <2>1, <2>4 DEF RowsCounted
    <3>1. CASE i \in 1 .. n
      BY <2>4, <3>1 DEF RecordInv, RowsCounted
    <3>2. CASE i = n + 1
      BY <2>3, <2>4, <3>2
    <3>. QED BY <3>1, <3>2
  <2>6. CallCounts'
    BY <2>2, Zenon DEF CallCounts
  <2>. QED BY <2>1, <2>5, <2>6, StoredWholeStays DEF RecordInv
<1>5. CASE StoreDay
  <2>1. /\ plan' = plan /\ rows' = rows /\ snapshots' = [snapshots EXCEPT ![date] = rows]
        /\ date # 0 /\ date' = 0 /\ queue = <<>>
    BY <1>5, Zenon DEF StoreDay
  <2>2. calling' = calling /\ ~calling
    BY <1>5, Zenon DEF StoreDay
  <2>3. CallCounts' /\ RowsCounted'
    BY <2>1, <2>2, Zenon DEF CallCounts, RowsCounted
  <2>4. Answers(rows, DayCalls(date))
    <3>1. Len(queue) = 0 /\ Len(rows) \in Nat
      BY <2>1 DEF DayInv, DayTypes
    <3>2. Len(rows) = Len(DayCalls(date))
      BY <2>1, <3>1 DEF DayInv, Progress
    <3>. QED BY <2>1, <3>2 DEF DayInv, Progress, Answers
  <2>5. \A i \in 1 .. Len(rows) : Counted(plan, date, rows[i])
    BY <2>1, Zenon DEF RecordInv, RowsCounted
  <2>6. \A d \in Date : snapshots'[d] = IF d = date THEN rows ELSE snapshots[d]
    BY <2>1 DEF DayInv, DayTypes
  <2>7. \A d : DayCalls(d)' = DayCalls(d)
    BY <2>1, CallsOfPlan
  <2>8. ASSUME NEW d \in Date, snapshots'[d] # <<>>
        PROVE  /\ Answers(snapshots'[d], DayCalls(d))
               /\ \A i \in 1 .. Len(snapshots'[d]) : Counted(plan, d, snapshots'[d][i])
    <3>1. CASE d = date
      BY <2>4, <2>5, <2>6, <3>1
    <3>2. CASE d # date
      BY <2>6, <2>8, <3>2, Zenon DEF RecordInv, StoredWhole
    <3>. QED BY <3>1, <3>2
  <2>9. StoredWhole'
    BY <2>1, <2>7, <2>8, Zenon DEF StoredWhole
  <2>. QED BY <2>3, <2>9 DEF RecordInv
<1>6. CASE UNCHANGED vars
  <2>1. /\ plan' = plan /\ rows' = rows /\ snapshots' = snapshots /\ date' = date
        /\ calling' = calling
    BY <1>6, Zenon DEF vars, dayVars
  <2>2. CallCounts'
    <3>1. UNCHANGED Proved!vars
      BY <1>6, Zenon DEF vars, engineVars, Proved!vars
    <3>2. calling => Proved!CountInv'
      BY <3>1, EngineConstants, Proved!CountInductive, Zenon DEF DayInv, CallRuns, RecordInv, CallCounts
    <3>. QED BY <2>1, <3>2, Zenon DEF CallCounts
  <2>3. RowsCounted'
    BY <2>1, Zenon DEF RecordInv, RowsCounted
  <2>. QED BY <2>1, <2>2, <2>3, StoredWholeStays DEF RecordInv
<1>. QED BY <1>1, <1>2, <1>3, <1>4, <1>5, <1>6 DEF Next

\* What EverySeatOnRecord says of one day, in its parts.
Runs(d, s, set, t) ==
    /\ plan.timeSlots[s].start >= 0
    /\ \/ plan.timeSlots[s].weekdays = {}
       \/ WeekdayOf[d] \in plan.timeSlots[s].weekdays
    /\ set \in plan.tasks[t].taskSetIds
    /\ plan.tasks[t].weekdays = {} \/ WeekdayOf[d] \in plan.tasks[t].weekdays

SeatsShown(day, s, c, set, t) ==
    \E i \in 1 .. Len(day) :
       /\ day[i].slot = s /\ day[i].category = c /\ day[i].taskSet = set
       /\ Cardinality({k \in 1 .. Len(day[i].assignments) :
                          day[i].assignments[k].taskId = t})
            + day[i].unassigned[t] = Max({plan.tasks[t].requiredCount, 0})

InFull(d, day) ==
    /\ \A i \in 1 .. Len(day) - 1 :
          plan.timeSlots[day[i].slot].start <= plan.timeSlots[day[i + 1].slot].start
    /\ \A s \in 1 .. Len(plan.timeSlots) :
       \A c \in Range(plan.timeSlots[s].categoryIds) \cap DOMAIN plan.categories :
       \A set \in Range(plan.categories[c]) :
       \A t \in Task : Runs(d, s, set, t) => SeatsShown(day, s, c, set, t)

\* Every seat of every task due on a stored day is on record, given or
\* unassigned, and the record follows the clock: no slot, category or set is
\* passed over, for any plan (computeDay, slotsForDate).
THEOREM EverySeatRecorded == Spec => []EverySeatOnRecord
<1>1. Init => RecordInv
  BY RecordInit
<1>2. DayInv /\ RecordInv => EverySeatOnRecord
  <2>. SUFFICES ASSUME DayInv, RecordInv
                PROVE  \A d \in Date : snapshots[d] # <<>> => InFull(d, snapshots[d])
    BY Zenon DEF EverySeatOnRecord, InFull, Runs, SeatsShown
  <2>. SUFFICES ASSUME NEW d \in Date, snapshots[d] # <<>>
                PROVE  InFull(d, snapshots[d])
    OBVIOUS
  <2>1. IsPlan(plan) /\ snapshots[d] \in Seq(Row)
    BY DEF DayInv, DayTypes
  <2>2. PICK day \in Seq(Row) : day = snapshots[d]
    BY <2>1
  <2>3. PICK calls \in Seq(EngineCall) : calls = DayCalls(d)
    BY <2>1, DayCallsSound
  <2>4. PICK n \in Nat : n = Len(day) /\ n = Len(calls)
    BY <2>2, <2>3 DEF RecordInv, StoredWhole, Answers
  <2>5. \A i \in 1 .. n : /\ day[i].slot = calls[i].slot /\ day[i].category = calls[i].category
                          /\ day[i].taskSet = calls[i].taskSet
                          /\ Counted(plan, d, day[i])
    BY <2>2, <2>3, <2>4 DEF RecordInv, StoredWhole, Answers
  <2>6. InOrder(calls)
    BY <2>1, <2>3, DayCallsInOrder
  <2>7. IsWorkday(d)
    <3>0. \A q \in Seq(Row) : Len(q) = 0 => q = <<>>
      OBVIOUS
    <3>1. n # 0
      BY <2>2, <2>4, <3>0, Zenon
    <3>. QED BY <2>3, <2>4, <3>1, NoCallsOnDaysOff
  <2>8. ASSUME NEW i \in 1 .. n - 1
        PROVE  plan.timeSlots[day[i].slot].start <= plan.timeSlots[day[i + 1].slot].start
    <3>1. i \in 1 .. n /\ i + 1 \in 1 .. n /\ i <= i + 1
      OBVIOUS
    <3>. QED BY <2>4, <2>5, <2>6, <3>1 DEF InOrder
  <2>9. ASSUME NEW s \in 1 .. Len(plan.timeSlots),
               NEW c \in Range(plan.timeSlots[s].categoryIds) \cap DOMAIN plan.categories,
               NEW set \in Range(plan.categories[c]),
               NEW t \in Task,
               Runs(d, s, set, t)
        PROVE  SeatsShown(day, s, c, set, t)
    <3>1. s \in DOMAIN plan.timeSlots
      <4>1. plan.timeSlots \in Seq(Range(plan.timeSlots))
        BY <2>1, PlansAssumption DEF IsPlan
      <4>. QED BY <4>1
    <3>2. PICK i \in 1 .. n : calls[i] = [slot |-> s, category |-> c, taskSet |-> set]
      BY <2>1, <2>3, <2>4, <2>7, <2>9, <3>1, DayCallsCover DEF Runs
    <3>3. day[i].slot = s /\ day[i].category = c /\ day[i].taskSet = set
      BY <2>5, <3>2
    <3>4. Cardinality({k \in 1 .. Len(day[i].assignments) : day[i].assignments[k].taskId = t})
            + day[i].unassigned[t] = Max({plan.tasks[t].requiredCount, 0})
      <4>1. TaskDue(plan, d, day[i].taskSet, t)
        BY <2>9, <3>3 DEF TaskDue, Runs
      <4>. QED BY <2>5, <4>1 DEF Counted
    <3>. QED BY <2>4, <3>3, <3>4 DEF SeatsShown
  <2>10. InFull(d, day)
    <3>1. \A i \in 1 .. Len(day) - 1 :
             plan.timeSlots[day[i].slot].start <= plan.timeSlots[day[i + 1].slot].start
      BY <2>4, <2>8
    <3>. QED BY <2>9, <3>1, Zenon DEF InFull
  <2>. QED BY <2>2, <2>10
<1>3. DayInv /\ RecordInv /\ [Next]_vars => RecordInv'
  BY RecordStep
<1>. QED BY <1>1, <1>2, <1>3, DayInductive, PTL DEF Spec

-----------------------------------------------------------------------------
(* The rotation, from one call of a task set to its next. *)

\* The engine's invariants about the cursor and the first round, carried along.
EngineStepTurns ==
    calling => Proved!CursorInv /\ Proved!FirstRound

Ascending(s) == \A i, j \in 1 .. Len(s) : i < j => s[i] < s[j]

Had(row) == {row.assignments[k].workerId : k \in 1 .. Len(row.assignments)}

\* What the cursor keeps of the last row of a task set: it points past the one
\* who got the last seat and, while anybody got none, at such a one.
PointsPast(row, at) ==
    row.assignments # <<>> =>
        \E k \in 1 .. Len(row.roster) :
           row.roster[k] = LastWorker(row) /\ at = k % Len(row.roster)

PointsAtLeft(row, at) ==
    Range(row.roster) \ Had(row) # {} =>
        row.roster[(at % Len(row.roster)) + 1] \notin Had(row)

Remembered(row, at, cross) == PointsPast(row, at) /\ (cross \/ PointsAtLeft(row, at))

TurnsKept ==
    \A s \in TaskSet : Remembered(lastRow[s], cursors[s], plan.crossSetConflicts)

TurnInv ==
    /\ EngineStepTurns
    /\ Ascending(available)
    /\ lastRow \in [TaskSet -> [roster : Engine!Roster,
                                assignments : Seq([taskId : Task, workerId : Worker])]]
    /\ TurnsKept

\* What a returned call leaves in the cursor, in this module's words.
LEMMA CallPointsPast ==
    ASSUME DayInv, TurnInv, calling, pc = "done"
    PROVE  PointsPast([roster |-> available, assignments |-> assignments], cursor)
<1>. DEFINE row == [roster |-> available, assignments |-> assignments]
<1>1. row.roster = available /\ row.assignments = assignments
  OBVIOUS
<1>. HIDE DEF row
<1>2. Proved!CursorAfterLastSeat /\ Proved!IInv
  BY Zenon DEF TurnInv, EngineStepTurns, Proved!CursorInv, DayInv, CallRuns
<1>3. input.availableWorkers = available /\ available \in Seq(Engine!Worker)
  BY DEF DayInv, DayTypes, CallRuns, Engine!Roster
<1>4. PICK n \in Nat : n = Len(available) /\ Proved!N = n
  BY <1>3 DEF Proved!N
<1>. SUFFICES ASSUME assignments # <<>>
              PROVE  \E k \in 1 .. n : available[k] = LastWorker(row) /\ cursor = k % n
  BY <1>1, <1>4 DEF PointsPast, row
<1>5. PICK k \in 0 .. n - 1 : /\ available[k + 1] = assignments[Len(assignments)].workerId
                              /\ cursor = (k + 1) % n
  BY <1>2, <1>3, <1>4 DEF Proved!CursorAfterLastSeat
<1>6. k + 1 \in 1 .. n
  BY <1>4
<1>. QED BY <1>1, <1>5, <1>6 DEF LastWorker

LEMMA CallPointsAtLeft ==
    ASSUME DayInv, TurnInv, calling, pc = "done", ~plan.crossSetConflicts
    PROVE  PointsAtLeft([roster |-> available, assignments |-> assignments], cursor)
<1>. DEFINE row == [roster |-> available, assignments |-> assignments]
<1>1. row.roster = available /\ row.assignments = assignments
  OBVIOUS
<1>. HIDE DEF row
<1>2. Proved!FirstRound /\ Proved!IInv
  BY Zenon DEF TurnInv, EngineStepTurns, DayInv, CallRuns
<1>3. /\ input.availableWorkers = available /\ available \in Seq(Engine!Worker)
      /\ ~input.crossSetConflicts
  BY DEF DayInv, DayTypes, CallRuns, Engine!Roster
<1>4. PICK n \in Nat : n = Len(available) /\ Proved!N = n
  BY <1>3 DEF Proved!N
<1>5. \A w : Proved!PriorTasks(w) = {}
  BY <1>3 DEF Proved!PriorTasks
<1>6. \A w : Proved!SeatsOf(w) = {} <=> w \notin Had(row)
  BY <1>1 DEF Proved!SeatsOf, Had
<1>. SUFFICES ASSUME NEW w \in Range(available), w \notin Had(row)
              PROVE  available[(cursor % n) + 1] \notin Had(row)
  BY <1>1, <1>4 DEF PointsAtLeft, row
<1>7. PICK k \in 1 .. n : available[k] = w
  BY <1>3, <1>4 DEF Range
<1>8. /\ cursor \in 0 .. n - 1
      /\ Proved!SeatsOf(available[cursor + 1]) = {}
  <2>1. Proved!SeatsOf(available[k]) = {}
    BY <1>6, <1>7
  <2>. QED BY <1>2, <1>3, <1>4, <1>5, <2>1, EngineConstants, Proved!CursorAtUnseated
<1>9. cursor % n = cursor
  BY <1>4, <1>8
<1>. QED BY <1>6, <1>8, <1>9

LEMMA TurnInit == Init => TurnInv
<1>. SUFFICES ASSUME Init PROVE TurnInv
  OBVIOUS
<1>1. EngineStepTurns
  BY Zenon DEF Init, EngineStepTurns
<1>2. available = <<>> /\ \A s \in TaskSet : lastRow[s] = NoRow
  BY DEF Init
<1>3. <<>> \in Engine!Roster
  <2>1. <<>> \in Seq(Engine!Worker) /\ Len(<<>>) = 0
    OBVIOUS
  <2>2. \A i, j \in 1 .. 0 : FALSE
    OBVIOUS
  <2>. QED BY <2>1, <2>2, Zenon DEF Engine!Roster
<1>4. Ascending(available)
  BY <1>2 DEF Ascending
<1>5. lastRow \in [TaskSet -> [roster : Engine!Roster,
                               assignments : Seq([taskId : Task, workerId : Worker])]]
  BY <1>3 DEF Init, NoRow
<1>6. \A at : PointsPast(NoRow, at) /\ PointsAtLeft(NoRow, at)
  <2>1. NoRow.assignments = <<>> /\ NoRow.roster = <<>> /\ Range(NoRow.roster) = {}
    BY DEF NoRow, Range
  <2>. QED BY <2>1 DEF PointsPast, PointsAtLeft
<1>7. TurnsKept
  BY <1>2, <1>6 DEF TurnsKept, Remembered
<1>. QED BY <1>1, <1>4, <1>5, <1>7 DEF TurnInv

LEMMA TurnsStay ==
    ASSUME TurnInv, plan' = plan, cursors' = cursors, lastRow' = lastRow,
           available' = available, EngineStepTurns'
    PROVE  TurnInv'
BY Zenon DEF TurnInv, TurnsKept

LEMMA TurnStep ==
    ASSUME DayInv, TurnInv, [Next]_vars
    PROVE  TurnInv'
<1>1. ASSUME NEW d \in Date, ComputeDay(d) PROVE TurnInv'
  <2>1. /\ plan' = plan /\ cursors' = cursors /\ lastRow' = lastRow
        /\ available' = AvailableWorkers(d)
    BY <1>1 DEF ComputeDay
  <2>2. calling' = calling /\ ~calling
    BY <1>1, Zenon DEF ComputeDay, DayInv, CallRuns
  <2>3. EngineStepTurns'
    BY <2>2, Zenon DEF EngineStepTurns
  <2>4. Ascending(available')
    <3>1. {w \in Worker : IsAvailable(w, d)} \subseteq Worker
      OBVIOUS
    <3>. QED BY <2>1, <3>1, SortedWorkers DEF AvailableWorkers, Ascending
  <2>. QED BY <2>1, <2>3, <2>4, Zenon DEF TurnInv, TurnsKept
<1>2. CASE CallEngine
  <2>1. /\ plan' = plan /\ cursors' = cursors /\ lastRow' = lastRow
        /\ available' = available /\ Engine!Call(CallInput)
    BY <1>2, Zenon DEF CallEngine
  <2>2. pc' = "entry" /\ cursor' = input'.cursor
    BY <2>1 DEF Engine!Call
  <2>3. Proved!CursorInv' /\ Proved!FirstRound'
    BY <2>2 DEF Proved!CursorInv, Proved!CursorAtEntry, Proved!CursorAfterLastSeat,
                Proved!FirstRound
  <2>. QED BY <2>1, <2>3, TurnsStay DEF EngineStepTurns
<1>3. CASE EngineStep
  <2>1. /\ plan' = plan /\ cursors' = cursors /\ lastRow' = lastRow
        /\ available' = available /\ calling /\ Engine!Step
    BY <1>3, Zenon DEF EngineStep, dayVars
  <2>2. Proved!IInv /\ Proved!CursorInv /\ Proved!FirstRound
    BY <2>1, Zenon DEF DayInv, CallRuns, TurnInv, EngineStepTurns
  <2>3. Proved!CursorInv' /\ Proved!FirstRound'
    BY <2>1, <2>2, SameStep, EngineConstants, Proved!CursorInductive,
       Proved!FirstRoundInductive
  <2>. QED BY <2>1, <2>3, TurnsStay DEF EngineStepTurns
<1>4. CASE TakeResult
  <2>1. /\ plan' = plan /\ available' = available /\ pc = "done"
        /\ cursors' = [cursors EXCEPT ![Head(queue).taskSet] = cursor]
        /\ lastRow' = [lastRow EXCEPT ![Head(queue).taskSet] =
                          [roster |-> available, assignments |-> assignments]]
    BY <1>4 DEF TakeResult, CursorsAfter
  <2>2. calling /\ ~calling'
    BY <1>4, Zenon DEF TakeResult
  <2>3. EngineStepTurns'
    BY <2>2, Zenon DEF EngineStepTurns
  <2>4. /\ cursors \in [TaskSet -> Int] /\ available \in Engine!Roster
        /\ assignments \in Seq([taskId : Task, workerId : Worker])
    BY <2>1, <2>2, GivenSound DEF DayInv, DayTypes
  <2>5. PICK row : row = [roster |-> available, assignments |-> assignments]
    OBVIOUS
  <2>6. lastRow' \in [TaskSet -> [roster : Engine!Roster,
                                  assignments : Seq([taskId : Task, workerId : Worker])]]
    BY <2>1, <2>4 DEF TurnInv
  <2>7. Remembered(row, cursor, plan.crossSetConflicts)
    BY <2>1, <2>2, <2>5, CallPointsPast, CallPointsAtLeft DEF Remembered
  <2>8. TurnsKept'
    <3>. SUFFICES ASSUME NEW s \in TaskSet
                  PROVE  Remembered(lastRow'[s], cursors'[s], plan.crossSetConflicts)
      BY <2>1 DEF TurnsKept
    <3>1. CASE s = Head(queue).taskSet
      <4>1. lastRow'[s] = row /\ cursors'[s] = cursor
        BY <2>1, <2>4, <2>5, <3>1 DEF TurnInv
      <4>. QED BY <2>7, <4>1
    <3>2. CASE s # Head(queue).taskSet
      <4>1. lastRow'[s] = lastRow[s] /\ cursors'[s] = cursors[s]
        BY <2>1, <2>4, <3>2 DEF TurnInv
      <4>. QED BY <4>1 DEF TurnInv, TurnsKept
    <3>. QED BY <3>1, <3>2
  <2>. QED BY <2>1, <2>3, <2>6, <2>8, Zenon DEF TurnInv
<1>5. CASE StoreDay
  <2>1. /\ plan' = plan /\ cursors' = cursors /\ lastRow' = lastRow
        /\ available' = available
    BY <1>5, Zenon DEF StoreDay
  <2>2. calling' = calling /\ ~calling
    BY <1>5, Zenon DEF StoreDay
  <2>. QED BY <2>1, <2>2, TurnsStay, Zenon DEF EngineStepTurns
<1>6. CASE UNCHANGED vars
  <2>1. /\ plan' = plan /\ cursors' = cursors /\ lastRow' = lastRow
        /\ available' = available /\ calling' = calling
    BY <1>6, Zenon DEF vars, dayVars
  <2>2. UNCHANGED Proved!vars
    BY <1>6, Zenon DEF vars, engineVars, Proved!vars
  <2>3. calling => Proved!CursorInv' /\ Proved!FirstRound'
    BY <2>2, EngineConstants, Proved!CursorInductive, Proved!FirstRoundInductive, Zenon
       DEF DayInv, CallRuns, TurnInv, EngineStepTurns
  <2>. QED BY <2>1, <2>3, TurnsStay, Zenon DEF EngineStepTurns
<1>. QED BY <1>1, <1>2, <1>3, <1>4, <1>5, <1>6 DEF Next

LEMMA TurnInductive == Spec => []TurnInv
BY TurnInit, TurnStep, DayInductive, PTL DEF Spec

\* The first seat of a running call without carried-over results.
LEMMA FirstOfCall ==
    ASSUME DayInv, TurnInv, calling, ~plan.crossSetConflicts, assignments # <<>>,
           NEW s, s = Head(queue).taskSet
    PROVE  /\ Len(available) \in Nat /\ Len(available) > 0
           /\ assignments[1].workerId = available[(cursors[s] % Len(available)) + 1]
<1>1. /\ input.availableWorkers = available /\ ~input.crossSetConflicts
      /\ input.cursor = cursors[s]
  BY DEF DayInv, CallRuns
<1>2. Proved!IInv /\ Proved!FirstRound
  BY Zenon DEF DayInv, CallRuns, TurnInv, EngineStepTurns
<1>3. \A w : Proved!PriorTasks(w) = {}
  BY <1>1 DEF Proved!PriorTasks
<1>4. pc # "entry"
  BY <1>2 DEF Proved!IInv, Proved!EntryFresh
<1>5. Proved!N = Len(available)
  BY <1>1 DEF Proved!N
<1>. QED BY <1>1, <1>2, <1>3, <1>4, <1>5, EngineConstants, Proved!FirstSeat

\* In an ascending roster the next after the one at place k is at place k + 1.
LEMMA NextInRoster ==
    ASSUME NEW roster \in Seq(Worker), Ascending(roster),
           NEW k \in 1 .. Len(roster)
    PROVE  NextAfter(roster[k], roster) = roster[(k % Len(roster)) + 1]
<1>1. Worker \subseteq Int
  BY DEF Worker
<1>2. PICK n \in Nat : n = Len(roster) /\ n > 0
  OBVIOUS
<1>3. \A i \in 1 .. n : roster[i] \in Int
  <2>1. \A i \in 1 .. n : roster[i] \in Worker
    BY <1>2
  <2>. QED BY <1>1, <2>1
<1>4. \A i \in 1 .. n : roster[i] > roster[k] <=> i > k
  <2>. TAKE i \in 1 .. n
  <2>1. /\ i < k => roster[i] < roster[k]
        /\ k < i => roster[k] < roster[i]
    BY <1>2 DEF Ascending
  <2>. QED BY <1>2, <1>3, <2>1
<1>. DEFINE after == {i \in 1 .. Len(roster) : roster[i] > roster[k]}
<1>5. after = k + 1 .. n
  BY <1>2, <1>4
<1>. HIDE DEF after
<1>6. CASE k < n
  <2>1. after # {}
    <3>1. k + 1 \in after
      BY <1>2, <1>5, <1>6
    <3>. QED BY <3>1
  <2>2. Min(after) = k + 1
    <3>1. \A m \in after : (\A y \in after : m <= y) <=> m = k + 1
      BY <1>2, <1>5, <1>6
    <3>2. k + 1 \in after
      BY <1>2, <1>5, <1>6
    <3>. QED BY <3>1, <3>2 DEF Min
  <2>3. k % n = k
    BY <1>2, <1>6
  <2>. QED BY <1>2, <2>1, <2>2, <2>3 DEF NextAfter, after
<1>7. CASE k = n
  <2>1. after = {}
    BY <1>2, <1>5, <1>7
  <2>2. k % n = 0
    BY <1>2, <1>7
  <2>. QED BY <1>2, <2>1, <2>2 DEF NextAfter, after
<1>. QED BY <1>2, <1>6, <1>7

\* While the same people are there, a task set goes on with the person after
\* the one who got its last seat, whatever was computed in between: the stored
\* cursor says it all (DESIGN 3.2; D-004), for any plan and any run of days.
THEOREM RotationGoesOn == Spec => []RotationContinues
<1>1. DayInv /\ TurnInv => RotationContinues
  <2>. SUFFICES ASSUME DayInv, TurnInv, NEW s \in TaskSet,
                       calling, Head(queue).taskSet = s, ~plan.crossSetConflicts,
                       assignments # <<>>, lastRow[s].assignments # <<>>,
                       lastRow[s].roster = available
                PROVE  Continues(s)
    BY Zenon DEF RotationContinues
  <2>1. PICK n \in Nat : /\ n = Len(available) /\ n > 0
                         /\ assignments[1].workerId = available[(cursors[s] % n) + 1]
    BY FirstOfCall
  <2>2. PICK k \in 1 .. n : available[k] = LastWorker(lastRow[s]) /\ cursors[s] = k % n
    BY <2>1 DEF TurnInv, TurnsKept, Remembered, PointsPast
  <2>3. (k % n) % n = k % n
    <3>1. CASE k < n
      BY <2>1, <3>1
    <3>2. CASE k = n
      BY <2>1, <3>2
    <3>. QED BY <2>1, <3>1, <3>2
  <2>4. available \in Seq(Worker) /\ Ascending(available)
    BY DEF DayInv, DayTypes, TurnInv, Engine!Roster, Engine!Worker, Worker
  <2>5. NextAfter(available[k], available) = available[(k % n) + 1]
    BY <2>1, <2>4, NextInRoster
  <2>. QED BY <2>1, <2>2, <2>3, <2>5 DEF Continues
<1>. QED BY <1>1, DayInductive, TurnInductive, PTL

\* While the same people are there, whoever got nothing in a task set last
\* time is served before everybody else the next time, for any plan (DESIGN
\* 3.2, D-004).
THEOREM LeftOverFirst == Spec => []LeftOverGoFirst
<1>1. DayInv /\ TurnInv => LeftOverGoFirst
  <2>. SUFFICES ASSUME DayInv, TurnInv, NEW s \in TaskSet,
                       calling, Head(queue).taskSet = s, ~plan.crossSetConflicts,
                       lastRow[s].roster = available, assignments # <<>>,
                       Range(available) \ Had(lastRow[s]) # {}
                PROVE  assignments[1].workerId \in Range(available) \ Had(lastRow[s])
    BY Zenon DEF LeftOverGoFirst, Had
  <2>1. PICK n \in Nat : /\ n = Len(available) /\ n > 0
                         /\ assignments[1].workerId = available[(cursors[s] % n) + 1]
    BY FirstOfCall
  <2>2. available[(cursors[s] % n) + 1] \notin Had(lastRow[s])
    BY <2>1 DEF TurnInv, TurnsKept, Remembered, PointsAtLeft
  <2>3. (cursors[s] % n) + 1 \in 1 .. n
    <3>1. cursors[s] \in Int
      BY DEF DayInv, DayTypes
    <3>. QED BY <2>1, <3>1
  <2>4. available[(cursors[s] % n) + 1] \in Range(available)
    <3>1. available \in Seq(Engine!Worker)
      BY DEF DayInv, DayTypes, Engine!Roster
    <3>. QED BY <2>1, <2>3, <3>1 DEF Range
  <2>. QED BY <2>1, <2>2, <2>4
<1>. QED BY <1>1, DayInductive, TurnInductive, PTL

-----------------------------------------------------------------------------
(* The types. *)

CursorsWhole == runs \in 0 .. MaxRuns /\ cursors \in [TaskSet -> Nat]

\* A call that starts from a place returns a place.
LEMMA CursorIsNat ==
    ASSUME DayInv, TurnInv, CursorsWhole, calling, pc = "done"
    PROVE  cursor \in Nat
<1>1. Proved!CursorAfterLastSeat
  BY Zenon DEF TurnInv, EngineStepTurns, Proved!CursorInv
<1>2. input.cursor \in Nat /\ input.availableWorkers \in Seq(Engine!Worker)
  <2>1. queue # <<>> /\ date # 0
    BY Zenon DEF DayInv, CallRuns
  <2>2. Head(queue).taskSet \in TaskSet
    BY <2>1, QueueHead DEF EngineCall
  <2>3. /\ input.cursor = cursors[Head(queue).taskSet]
        /\ input.availableWorkers = available /\ available \in Engine!Roster
    BY DEF DayInv, DayTypes, CallRuns
  <2>. QED BY <2>2, <2>3 DEF CursorsWhole, Engine!Roster
<1>3. PICK n \in Nat : n = Proved!N
  BY <1>2 DEF Proved!N
<1>4. \/ \E k \in 0 .. n - 1 : cursor = (k + 1) % n
      \/ cursor = input.cursor
      \/ n # 0 /\ cursor = input.cursor % n
  BY <1>1, <1>3 DEF Proved!CursorAfterLastSeat
<1>5. n # 0 => \A x \in Nat : x % n \in Nat
  BY <1>3
<1>6. ASSUME NEW k \in 0 .. n - 1, cursor = (k + 1) % n PROVE cursor \in Nat
  <2>1. k + 1 \in Nat /\ n # 0
    BY <1>3
  <2>. QED BY <1>5, <1>6, <2>1
<1>. QED BY <1>2, <1>4, <1>5, <1>6

LEMMA CursorsStep ==
    ASSUME DayInv, TurnInv, CursorsWhole, [Next]_vars
    PROVE  CursorsWhole'
<1>1. ASSUME NEW d \in Date, ComputeDay(d) PROVE CursorsWhole'
  BY <1>1, PlansAssumption DEF ComputeDay, CursorsWhole
<1>2. CASE CallEngine
  BY <1>2 DEF CallEngine, CursorsWhole
<1>3. CASE EngineStep
  BY <1>3 DEF EngineStep, dayVars, CursorsWhole
<1>4. CASE TakeResult
  <2>1. calling /\ pc = "done"
    BY <1>4, Zenon DEF TakeResult
  <2>2. runs' = runs /\ cursors' = [cursors EXCEPT ![Head(queue).taskSet] = cursor]
    BY <1>4 DEF TakeResult, CursorsAfter
  <2>3. cursor \in Nat
    BY <2>1, CursorIsNat
  <2>. QED BY <2>2, <2>3 DEF CursorsWhole
<1>5. CASE StoreDay
  BY <1>5 DEF StoreDay, CursorsWhole
<1>6. CASE UNCHANGED vars
  BY <1>6 DEF vars, dayVars, CursorsWhole
<1>. QED BY <1>1, <1>2, <1>3, <1>4, <1>5, <1>6 DEF Next

\* Every value is of its kind at every moment, for any plan; in particular a
\* stored cursor is never negative, whatever the roster it comes from.
THEOREM TypeCorrect == Spec => []TypeOK
<1>1. Init => CursorsWhole
  BY PlansAssumption DEF Init, CursorsWhole
<1>2. DayInv /\ TurnInv /\ CursorsWhole /\ [Next]_vars => CursorsWhole'
  BY CursorsStep
<1>3. DayInv /\ TurnInv /\ CursorsWhole => TypeOK
  BY Zenon DEF DayInv, DayTypes, TurnInv, CursorsWhole, TypeOK, EngineCall
<1>. QED BY <1>1, <1>2, <1>3, DayInductive, TurnInductive, PTL DEF Spec

-----------------------------------------------------------------------------
(* The screen of today. *)

LEMMA MinIs ==
    ASSUME NEW S, S \subseteq Nat, S # {}
    PROVE  Min(S) \in S /\ \A k \in S : Min(S) <= k
BY LeastExists DEF Min

EndsAreTimes == \A i \in DOMAIN plan.timeSlots : Slot(i).end \in Int

\* A slot comes up on a day.
IsDue(i, d) ==
    /\ i \in DOMAIN plan.timeSlots
    /\ IsWorkday(d)
    /\ Slot(i).weekdays = {} \/ WeekdayOf[d] \in Slot(i).weekdays
    /\ Slot(i).start >= 0

LEMMA DueSlots ==
    ASSUME IsPlan(plan), NEW d
    PROVE  /\ Len(SlotsForDate(d)) \in Nat
           /\ DOMAIN SlotsForDate(d) = 1 .. Len(SlotsForDate(d))
           /\ \A k \in DOMAIN SlotsForDate(d) : IsDue(SlotsForDate(d)[k], d)
           /\ \A i : IsDue(i, d) => \E k \in DOMAIN SlotsForDate(d) : SlotsForDate(d)[k] = i
           /\ \A i \in DOMAIN plan.timeSlots : Slot(i).start \in Int
           /\ \A j, k \in DOMAIN SlotsForDate(d) :
                 j <= k => Slot(SlotsForDate(d)[j]).start <= Slot(SlotsForDate(d)[k]).start
<1>. DEFINE s == SlotsForDate(d)
<1>1. /\ s \in Seq(DOMAIN plan.timeSlots)
      /\ \A i, j \in 1 .. Len(s) :
            i < j => plan.timeSlots[s[i]].start <= plan.timeSlots[s[j]].start
      /\ IsWorkday(d) =>
            \A i \in DOMAIN plan.timeSlots :
               (/\ plan.timeSlots[i].weekdays = {} \/ WeekdayOf[d] \in plan.timeSlots[i].weekdays
                /\ plan.timeSlots[i].start >= 0)
               => \E k \in 1 .. Len(s) : s[k] = i
      /\ \A k \in 1 .. Len(s) :
            /\ IsWorkday(d)
            /\ plan.timeSlots[s[k]].weekdays = {} \/ WeekdayOf[d] \in plan.timeSlots[s[k]].weekdays
            /\ plan.timeSlots[s[k]].start >= 0
  BY SlotsOnce
<1>. HIDE DEF s
<1>. PICK n \in Nat : n = Len(s) /\ DOMAIN s = 1 .. n
  BY <1>1
<1>2. \A k \in 1 .. n : s[k] \in DOMAIN plan.timeSlots
  BY <1>1
<1>3. \A k \in DOMAIN s : IsDue(s[k], d)
  BY <1>1, <1>2 DEF IsDue, Slot
<1>4. \A i : IsDue(i, d) => \E k \in DOMAIN s : s[k] = i
  BY <1>1 DEF IsDue, Slot
<1>5. \A i \in DOMAIN plan.timeSlots : Slot(i).start \in Int
  BY DEF IsPlan, Slot, Range
<1>6. ASSUME NEW j \in DOMAIN s, NEW k \in DOMAIN s, j <= k
      PROVE  Slot(s[j]).start <= Slot(s[k]).start
  <2>1. CASE j = k
    BY <1>2, <1>5, <2>1
  <2>2. CASE j < k
    BY <1>1, <2>2 DEF Slot
  <2>. QED BY <1>6, <2>1, <2>2
<1>. QED BY <1>3, <1>4, <1>5, <1>6 DEF s

\* The first later day with slots is that of the next slot.
LEMMA NextDayIs ==
    ASSUME IsPlan(plan), NEW d \in Nat, NEW e \in d + 1 .. d + SearchLimit, NEW i, IsDue(i, e)
    PROVE  \E first \in d + 1 .. e :
              /\ NextWorkdayWithSlots(d) = {first}
              /\ SlotsForDate(first) # <<>>
<1>. DEFINE days == {x \in d + 1 .. d + SearchLimit : SlotsForDate(x) # <<>>}
<1>1. SlotsForDate(e) # <<>>
  <2>1. PICK k \in DOMAIN SlotsForDate(e) : TRUE
    BY DueSlots
  <2>. QED BY <2>1
<1>2. e \in days /\ days \subseteq Nat
  BY <1>1
<1>3. Min(days) \in days /\ Min(days) <= e
  BY <1>2, MinIs
<1>4. NextWorkdayWithSlots(d) = {Min(days)}
  BY <1>2 DEF NextWorkdayWithSlots
<1>. QED BY <1>3, <1>4

LEMMA ScreenAnswers ==
    ASSUME IsPlan(plan), EndsAreTimes
    PROVE  NowOrNext
<1>. SUFFICES ASSUME NEW now \in Moment
              PROVE  LET running == {i \in Range(SlotsForDate(now.date)) :
                                       Slot(i).start <= now.time /\ now.time < Slot(i).end}
                         current == Current(now.date, now)
                         next    == Upcoming(now.date, now)
                     IN  /\ running # {} => /\ Cardinality(current) = 1
                                            /\ current \subseteq running \ Past(now.date, now)
                                            /\ next = {}
                         /\ running = {} /\ Ahead(now) # {} =>
                               /\ current = {}
                               /\ \E found \in next :
                                     /\ [date |-> found.date, slot |-> found.slot] \in Ahead(now)
                                     /\ \A other \in Ahead(now) :
                                           \/ found.date < other.date
                                           \/ /\ found.date = other.date
                                              /\ Slot(found.slot).start <= Slot(other.slot).start
  BY Zenon DEF NowOrNext
<1>. DEFINE d       == now.date
            today   == SlotsForDate(d)
            running == {i \in Range(today) : Slot(i).start <= now.time /\ now.time < Slot(i).end}
            inside  == {k \in DOMAIN today : Inside(today[k], now.time)}
            later   == {k \in DOMAIN today : now.time < Slot(today[k]).start}
<1>1. d \in Nat /\ now.time \in Int
  BY DEF Moment
<1>2. /\ DOMAIN today \subseteq Nat
      /\ \A k \in DOMAIN today : IsDue(today[k], d) /\ Slot(today[k]).start \in Int
      /\ \A i : IsDue(i, d) => \E k \in DOMAIN today : today[k] = i
      /\ \A j, k \in DOMAIN today : j <= k => Slot(today[j]).start <= Slot(today[k]).start
  BY DueSlots DEF IsDue
<1>3. running = {today[k] : k \in inside}
  BY DEF Inside, Range
<1>4. ASSUME NEW o \in Ahead(now)
      PROVE  /\ o.date \in d .. d + SearchLimit /\ IsDue(o.slot, o.date)
             /\ o.date = d => now.time < Slot(o.slot).start
             /\ o = [date |-> o.date, slot |-> o.slot]
  BY <1>1 DEF Ahead, IsDue
<1>5. ASSUME NEW e \in d .. d + SearchLimit, NEW i, IsDue(i, e),
             e > d \/ Slot(i).start > now.time
      PROVE  [date |-> e, slot |-> i] \in Ahead(now)
  BY <1>5 DEF Ahead, IsDue
<1>6. CASE inside # {}
  <2>. DEFINE m == Min(inside)
  <2>1. m \in inside
    BY <1>2, <1>6, MinIs
  <2>2. FindSlot(now) = Found("inside", d, today[m])
    BY <1>6 DEF FindSlot
  <2>. HIDE DEF m
  <2>3. Current(d, now) = {today[m]}
    BY <2>1, <2>2 DEF Current, Found, Range
  <2>4. Cardinality(Current(d, now)) = 1
    BY <2>3, FS_Singleton
  <2>5. today[m] \in running /\ today[m] \notin Past(d, now)
    <3>1. Inside(today[m], now.time) /\ today[m] \in Range(today)
      BY <2>1 DEF Range
    <3>2. Slot(today[m]).end \in Int
      BY <1>2, <2>1 DEF IsDue, EndsAreTimes
    <3>. QED BY <1>1, <3>1, <3>2 DEF Inside, Past
  <2>6. Upcoming(d, now) = {}
    BY <2>2 DEF Upcoming, Found
  <2>. QED BY <2>3, <2>4, <2>5, <2>6
<1>7. CASE inside = {} /\ Ahead(now) # {} /\ later # {}
  <2>. DEFINE m == Min(later)
  <2>1. m \in later /\ \A k \in later : m <= k
    BY <1>2, <1>7, MinIs
  <2>2. FindSlot(now) = Found("upcoming", d, today[m])
    BY <1>7 DEF FindSlot
  <2>. HIDE DEF m
  <2>3. running = {} /\ Current(d, now) = {} /\ Upcoming(d, now) = {Found("upcoming", d, today[m])}
    BY <1>3, <1>7, <2>2 DEF Current, Upcoming, Found
  <2>4. [date |-> d, slot |-> today[m]] \in Ahead(now)
    <3>1. d \in d .. d + SearchLimit
      BY <1>1, ViewAssumption
    <3>. QED BY <1>2, <1>5, <2>1, <3>1
  <2>5. ASSUME NEW o \in Ahead(now), ~(d < o.date)
        PROVE  d = o.date /\ Slot(today[m]).start <= Slot(o.slot).start
    <3>1. o.date = d /\ IsDue(o.slot, d) /\ now.time < Slot(o.slot).start
      BY <1>1, <1>4, <2>5
    <3>2. PICK k \in DOMAIN today : today[k] = o.slot
      BY <1>2, <3>1
    <3>. QED BY <1>2, <2>1, <3>1, <3>2
  <2>. QED BY <2>3, <2>4, <2>5 DEF Found
<1>8. CASE inside = {} /\ Ahead(now) # {} /\ later = {}
  <2>1. \A o \in Ahead(now) : o.date \in d + 1 .. d + SearchLimit
    <3>. SUFFICES ASSUME NEW o \in Ahead(now), o.date = d PROVE FALSE
      BY <1>1, <1>4, ViewAssumption
    <3>1. IsDue(o.slot, d) /\ now.time < Slot(o.slot).start
      BY <1>4
    <3>2. PICK k \in DOMAIN today : today[k] = o.slot
      BY <1>2, <3>1
    <3>. QED BY <1>8, <3>1, <3>2
  <2>2. PICK some \in Ahead(now) : TRUE
    BY <1>8
  <2>3. PICK e \in d + 1 .. d + SearchLimit :
              NextWorkdayWithSlots(d) = {e} /\ SlotsForDate(e) # <<>>
    <3>1. PICK e \in d + 1 .. some.date :
                NextWorkdayWithSlots(d) = {e} /\ SlotsForDate(e) # <<>>
      BY <1>1, <1>4, <2>1, NextDayIs
    <3>. QED BY <1>1, <2>1, <3>1, ViewAssumption
  <2>4. Min({e}) = e
    BY DEF Min
  <2>5. FindSlot(now) = Found("upcoming", e, SlotsForDate(e)[1])
    <3>1. NextWorkdayWithSlots(now.date) # {} /\ Min(NextWorkdayWithSlots(now.date)) = e
      BY <2>3, <2>4
    <3>. QED BY <1>8, <3>1, Zenon DEF FindSlot
  <2>. DEFINE first == SlotsForDate(e)[1]
  <2>6. IsDue(first, e) /\ 1 \in DOMAIN SlotsForDate(e)
    <3>1. SlotsForDate(e) \in Seq(DOMAIN plan.timeSlots)
      BY SlotsOnce
    <3>2. 1 \in DOMAIN SlotsForDate(e)
      BY <2>3, <3>1
    <3>. QED BY <3>2, DueSlots
  <2>7. running = {} /\ Current(d, now) = {} /\ Upcoming(d, now) = {Found("upcoming", e, first)}
    BY <1>3, <1>8, <2>5 DEF Current, Upcoming, Found
  <2>8. [date |-> e, slot |-> first] \in Ahead(now)
    BY <1>1, <1>5, <2>6
  <2>9. ASSUME NEW o \in Ahead(now), ~(e < o.date)
        PROVE  e = o.date /\ Slot(first).start <= Slot(o.slot).start
    <3>1. o.date \in d + 1 .. d + SearchLimit /\ IsDue(o.slot, o.date)
      BY <1>4, <2>1
    <3>2. PICK f \in d + 1 .. o.date : NextWorkdayWithSlots(d) = {f}
      BY <1>1, <3>1, NextDayIs
    <3>6. {e} = {f}
      BY <2>3, <3>2
    <3>3. e = f /\ e = o.date
      BY <1>1, <2>9, <3>1, <3>6, ViewAssumption
    <3>4. PICK k \in DOMAIN SlotsForDate(e) : SlotsForDate(e)[k] = o.slot
      BY <3>1, <3>3, DueSlots
    <3>5. k \in Nat /\ 1 <= k
      BY DueSlots
    <3>. QED BY <2>6, <3>3, <3>4, <3>5, DueSlots
  <2>. HIDE DEF first
  <2>. QED BY <2>7, <2>8, <2>9 DEF Found
<1>9. CASE inside = {} /\ Ahead(now) = {}
  <2>1. running = {}
    BY <1>3, <1>9
  <2>. QED BY <1>9, <2>1
<1>. QED BY <1>6, <1>7, <1>8, <1>9

-----------------------------------------------------------------------------
(* Between two computed days, absences and days off change. *)

\* Everything but these is as it was loaded.
FromPlans ==
    /\ Lasting \subseteq DOMAIN plan
    /\ \E p \in Plans : \A f \in Lasting : plan[f] = p[f]

ShowInv == DayInv /\ RecordInv /\ FromPlans

LEMMA LikePlan ==
    ASSUME NEW q, NEW p \in Plans, \A f \in Lasting : q[f] = p[f]
    PROVE  IsPlan(q) /\ \A slot \in Range(q.timeSlots) : slot.end \in Int
<1>1. /\ q.tasks = p.tasks /\ q.crossSetConflicts = p.crossSetConflicts
      /\ q.timeSlots = p.timeSlots /\ q.categories = p.categories
  BY DEF Lasting
<1>2. IsPlan(p) /\ \A slot \in Range(p.timeSlots) : slot.end \in Int
  BY PlansAssumption, ViewAssumption
<1>. QED BY <1>1, <1>2 DEF IsPlan

LEMMA PlanFacts ==
    ASSUME FromPlans
    PROVE  EndsAreTimes
BY LikePlan DEF FromPlans, EndsAreTimes, Slot, Range

\* What a day has to answer depends on nothing else.
LEMMA CallsOfLasting ==
    ASSUME \A f \in Lasting : plan'[f] = plan[f], NEW d
    PROVE  DayCalls(d)' = DayCalls(d)
<1>0. /\ plan'.timeSlots = plan.timeSlots /\ plan'.categories = plan.categories
      /\ plan'.workWeekdays = plan.workWeekdays /\ plan'.holidays = plan.holidays
  BY DEF Lasting
<1>1. SlotsForDate(d)' = SlotsForDate(d)
  <2>1. SlotsForDate(d)' = SlotsUnder(plan', d)
    BY DEF SlotsForDate, SlotsUnder, IsWorkday, Sorted
  <2>2. SlotsForDate(d) = SlotsUnder(plan, d)
    BY DEF SlotsForDate, SlotsUnder, IsWorkday, Sorted
  <2>3. SlotsUnder(plan', d) = SlotsUnder(plan, d)
    BY <1>0 DEF SlotsUnder
  <2>. QED BY <2>1, <2>2, <2>3
<1>2. \A c : SetsOf(c)' = SetsOf(c)
  BY <1>0, Zenon DEF SetsOf
<1>3. \A i : CallsOfSlot(i)' = CallsOfSlot(i)
  BY <1>0, <1>2, Zenon DEF CallsOfSlot
<1>. QED BY <1>1, <1>3, Zenon DEF DayCalls

LEMMA BetweenChanges ==
    ASSUME FromPlans, Between
    PROVE  FromPlans' /\ \A f \in Lasting : plan'[f] = plan[f]
<1>1. DOMAIN plan' = DOMAIN plan /\ \A f \in Lasting : plan'[f] = plan[f]
  <2>0. Lasting \subseteq DOMAIN plan
    BY DEF FromPlans
  <2>1. ASSUME NEW a \in LateAbsence, AddAbsence(a)
        PROVE  DOMAIN plan' = DOMAIN plan /\ \A f \in Lasting : plan'[f] = plan[f]
    BY <2>0, <2>1 DEF AddAbsence, Lasting
  <2>2. ASSUME NEW w \in Worker, NEW d \in Date, RemoveAbsence(w, d)
        PROVE  DOMAIN plan' = DOMAIN plan /\ \A f \in Lasting : plan'[f] = plan[f]
    BY <2>0, <2>2 DEF RemoveAbsence, Lasting
  <2>3. ASSUME NEW w \in Worker, NEW days \in WeeklyOff, SetWeeklyOff(w, days)
        PROVE  DOMAIN plan' = DOMAIN plan /\ \A f \in Lasting : plan'[f] = plan[f]
    BY <2>0, <2>3 DEF SetWeeklyOff, Lasting
  <2>. QED BY <2>1, <2>2, <2>3 DEF Between
<1>. QED BY <1>1 DEF FromPlans

LEMMA FreeOfTasks ==
    ASSUME NEW p, NEW q, q.tasks = p.tasks, q.crossSetConflicts = p.crossSetConflicts,
           NEW day, Free(p, day)
    PROVE  Free(q, day)
BY DEF Free, Together

LEMMA BetweenKeeps ==
    ASSUME ShowInv, Between
    PROVE  ShowInv'
<1>1. FromPlans' /\ \A f \in Lasting : plan'[f] = plan[f]
  BY BetweenChanges DEF ShowInv
<1>2. /\ cursors' = cursors /\ snapshots' = snapshots /\ available' = available
      /\ queue' = queue /\ rows' = rows /\ priorInSlot' = priorInSlot /\ date' = 0
  BY Zenon DEF Between
<1>3. calling' = calling /\ ~calling
  BY Zenon DEF Between, ShowInv, DayInv, CallRuns
<1>4. plan'.tasks = plan.tasks /\ plan'.crossSetConflicts = plan.crossSetConflicts
  BY <1>1 DEF Lasting
<1>5. DayTypes'
  <2>1. IsPlan(plan)'
    BY <1>1, LikePlan DEF FromPlans
  <2>2. date' \in 0 .. LastDate
    BY <1>2, PlansAssumption
  <2>. QED BY <1>2, <1>3, <2>1, <2>2, Zenon DEF ShowInv, DayInv, DayTypes
<1>6. Progress' /\ CallRuns' /\ PriorCovers' /\ RowsFree' /\ CallCounts' /\ RowsCounted'
  BY <1>2, <1>3, Zenon DEF Progress, CallRuns, PriorCovers, RowsFree, CallCounts, RowsCounted
<1>7. PriorSound'
  BY <1>2, <1>4, Zenon DEF ShowInv, DayInv, PriorSound
<1>8. StoredFree'
  <2>1. \A day : Free(plan, day) => Free(plan', day)
    BY <1>4, FreeOfTasks
  <2>. QED BY <1>2, <2>1, Zenon DEF ShowInv, DayInv, StoredFree
<1>9. StoredWhole'
  <2>1. \A d : DayCalls(d)' = DayCalls(d)
    BY <1>1, CallsOfLasting
  <2>2. \A d, row : Counted(plan, d, row) => Counted(plan', d, row)
    BY <1>4 DEF Counted, TaskDue
  <2>. QED BY <1>2, <2>1, <2>2, Zenon DEF ShowInv, RecordInv, StoredWhole
<1>. QED BY <1>1, <1>5, <1>6, <1>7, <1>8, <1>9, Zenon DEF ShowInv, DayInv, RecordInv

LEMMA ShowInductive == ShowSpec => []ShowInv
<1>1. Init => ShowInv
  <2>. SUFFICES ASSUME Init PROVE ShowInv
    OBVIOUS
  <2>1. DayInv
    BY DayInit
  <2>2. RecordInv
    BY RecordInit
  <2>3. FromPlans
    BY ViewAssumption, Zenon DEF Init, FromPlans
  <2>. QED BY <2>1, <2>2, <2>3 DEF ShowInv
<1>2. ShowInv /\ [Next]_vars => ShowInv'
  <2>. SUFFICES ASSUME ShowInv, [Next]_vars PROVE ShowInv'
    OBVIOUS
  <2>1. DayInv'
    BY DayStep, Zenon DEF ShowInv
  <2>2. RecordInv'
    BY RecordStep, Zenon DEF ShowInv
  <2>3. plan' = plan
    BY Zenon DEF Next, ComputeDay, CallEngine, EngineStep, dayVars, TakeResult, StoreDay, vars
  <2>4. FromPlans'
    BY <2>3, Zenon DEF ShowInv, FromPlans
  <2>. QED BY <2>1, <2>2, <2>4, Zenon DEF ShowInv
<1>3. ShowInv /\ [Next \/ Between]_vars => ShowInv'
  BY <1>2, BetweenKeeps
<1>. QED BY <1>1, <1>3, PTL DEF ShowSpec

\* Whatever the plan and the changes to it, the screen of today marks one slot
\* that runs now, or else announces the first of all slots still to come
\* (findSlot, nextWorkdayWithSlots, buildDayView; D-003).
THEOREM ScreenNeverEmpty == ShowSpec => []NowOrNext
<1>1. ShowInv => NowOrNext
  BY PlanFacts, ScreenAnswers DEF ShowInv, DayInv, DayTypes
<1>. QED BY <1>1, ShowInductive, PTL

-----------------------------------------------------------------------------
(* A folder without errors. *)

\* The calls a slot can have: its categories and their sets, no others.
NamedCalls(i) ==
    {c \in EngineCall :
        /\ c.slot = i
        /\ c.category \in Range(plan.timeSlots[i].categoryIds) \cap DOMAIN plan.categories
        /\ c.taskSet \in Range(plan.categories[c.category])}

LEMMA CallsOfSlotNamed ==
    ASSUME IsPlan(plan), NEW i \in DOMAIN plan.timeSlots
    PROVE  CallsOfSlot(i) \in Seq(NamedCalls(i))
<1>. DEFINE categoryIds == plan.timeSlots[i].categoryIds
            CallsOf(c) == [k \in 1 .. Len(SetsOf(c)) |->
                             [slot |-> i, category |-> c, taskSet |-> SetsOf(c)[k]]]
            calls == [c \in 1 .. Len(categoryIds) |-> CallsOf(categoryIds[c])]
<1>1. categoryIds \in Seq(Category)
  BY DEF IsPlan, Range
<1>2. i \in Nat
  <2>1. plan.timeSlots \in Seq(Range(plan.timeSlots))
    BY DEF IsPlan
  <2>. QED BY <2>1
<1>3. ASSUME NEW x \in 1 .. Len(categoryIds) PROVE CallsOf(categoryIds[x]) \in Seq(NamedCalls(i))
  <2>. DEFINE c == categoryIds[x]
  <2>1. c \in Category /\ c \in Range(categoryIds)
    BY <1>1 DEF Range
  <2>. HIDE DEF c
  <2>2. CASE c \in DOMAIN plan.categories
    <3>1. SetsOf(c) = plan.categories[c] /\ SetsOf(c) \in Seq(TaskSet)
      BY <2>2 DEF IsPlan, SetsOf
    <3>. PICK n \in Nat : n = Len(SetsOf(c))
      BY <3>1
    <3>2. ASSUME NEW k \in 1 .. n
          PROVE  SetsOf(c)[k] \in TaskSet /\ SetsOf(c)[k] \in Range(plan.categories[c])
      BY <3>1 DEF Range
    <3>3. ASSUME NEW k \in 1 .. n PROVE CallsOf(c)[k] \in NamedCalls(i)
      BY <1>2, <2>1, <2>2, <3>2 DEF NamedCalls, EngineCall
    <3>. QED BY <3>3 DEF c
  <2>3. CASE c \notin DOMAIN plan.categories
    <3>1. SetsOf(c) = <<>>
      BY <2>3 DEF SetsOf
    <3>. QED BY <3>1 DEF c
  <2>. QED BY <2>2, <2>3
<1>. HIDE DEF CallsOf, categoryIds
<1>4. calls \in Seq(Seq(NamedCalls(i)))
  BY <1>1, <1>3
<1>5. CallsOfSlot(i) = FlattenSeq(calls)
  BY DEF CallsOfSlot, CallsOf, categoryIds
<1>. HIDE DEF calls
<1>. QED BY <1>4, <1>5, FlattenType

\* Every call of a day is of a slot that is due, and named by it.
LEMMA DayCallsNamed ==
    ASSUME IsPlan(plan), NEW d, NEW m \in DOMAIN DayCalls(d)
    PROVE  LET call == DayCalls(d)[m] IN
           IsDue(call.slot, d) /\ call \in NamedCalls(call.slot)
<1>. DEFINE slots == SlotsForDate(d)
            calls == [i \in 1 .. Len(slots) |-> CallsOfSlot(slots[i])]
            X == {c \in EngineCall : IsDue(c.slot, d) /\ c \in NamedCalls(c.slot)}
<1>1. /\ slots \in Seq(DOMAIN plan.timeSlots)
      /\ \A k \in 1 .. Len(slots) : IsDue(slots[k], d)
  BY SlotsOnce, DueSlots
<1>2. DayCalls(d) = FlattenSeq(calls)
  BY DEF DayCalls
<1>. HIDE DEF slots
<1>3. ASSUME NEW k \in 1 .. Len(slots) PROVE calls[k] \in Seq(X)
  <2>1. calls[k] \in Seq(NamedCalls(slots[k]))
    BY <1>1, CallsOfSlotNamed
  <2>2. NamedCalls(slots[k]) \subseteq X
    BY <1>1 DEF NamedCalls
  <2>. QED BY <2>1, <2>2
<1>4. calls \in Seq(Seq(X))
  BY <1>1, <1>3
<1>. HIDE DEF calls, X
<1>5. DayCalls(d) \in Seq(X)
  BY <1>2, <1>4, FlattenType
<1>6. DayCalls(d)[m] \in X
  BY <1>5
<1>. QED BY <1>6 DEF X

\* If all sets are defined, all of them are on the screen.
LEMMA BlocksWhole ==
    ASSUME IsPlan(plan), NEW d,
           \A c \in DOMAIN plan.categories : Range(plan.categories[c]) \subseteq plan.taskSets
    PROVE  Blocks(d) = DayCalls(d)
<1>. DEFINE calls == DayCalls(d)
            s == [i \in DOMAIN calls |-> IF calls[i].taskSet \in plan.taskSets
                                         THEN <<calls[i]>> ELSE <<>>]
<1>1. calls \in Seq(EngineCall)
  BY DayCallsSound
<1>2. \A m \in DOMAIN calls : calls[m].taskSet \in plan.taskSets
  <2>. TAKE m \in DOMAIN calls
  <2>1. calls[m] \in NamedCalls(calls[m].slot)
    BY DayCallsNamed
  <2>. QED BY <2>1 DEF NamedCalls
<1>3. Blocks(d) = FlattenSeq(s)
  BY DEF Blocks
<1>. HIDE DEF calls
<1>. PICK n \in Nat : n = Len(calls) /\ DOMAIN calls = 1 .. n
  BY <1>1
<1>4. \A i \in 1 .. n : s[i] = <<calls[i]>> /\ calls[i] \in EngineCall
  BY <1>1, <1>2
<1>5. s \in Seq(Seq(EngineCall)) /\ Len(s) = n
  <2>1. DOMAIN s = 1 .. n
    OBVIOUS
  <2>2. s = [i \in 1 .. n |-> s[i]]
    OBVIOUS
  <2>. HIDE DEF s
  <2>3. \A i \in 1 .. n : s[i] \in Seq(EngineCall)
    <3>. TAKE i \in 1 .. n
    <3>1. PICK call \in EngineCall : s[i] = <<call>>
      BY <1>4
    <3>. QED BY <3>1
  <2>. QED BY <2>1, <2>2, <2>3
<1>. HIDE DEF s
<1>6. FlattenSeq(s) = calls
  BY <1>1, <1>4, <1>5, FlattenKeeps
<1>. QED BY <1>3, <1>6 DEF calls

LEMMA NoErrors ==
    ASSUME Errors = {}
    PROVE  /\ \A i \in Slots : CategoryIds(i) \subseteq Categories /\ IsTime(i)
           /\ \A c \in Categories : TaskSetIds(c) # {} /\ TaskSetIds(c) \subseteq plan.taskSets
           /\ Overlaps = {}
<1>1. \A what, things : About(what, things) \subseteq Errors => things = {}
  BY DEF About
<1>2. /\ About("slot of no category", {i \in Slots : ~(CategoryIds(i) \subseteq Categories)})
           \subseteq Errors
      /\ About("category without set", {c \in Categories : TaskSetIds(c) = {}}) \subseteq Errors
      /\ About("category of no set", {c \in Categories : ~(TaskSetIds(c) \subseteq plan.taskSets)})
           \subseteq Errors
      /\ About("not a time", {i \in Slots : ~IsTime(i)}) \subseteq Errors
      /\ About("overlap", Overlaps) \subseteq Errors
  BY DEF Errors, CheckReferences, CheckTimeSlots
<1>. QED BY <1>1, <1>2

\* What runs at the same moment of a day overlaps.
LEMMA OneAtATime ==
    ASSUME IsPlan(plan), EndsAreTimes, Overlaps = {}, NEW d, NEW time \in Int
    PROVE  Cardinality({i \in Range(SlotsForDate(d)) : Inside(i, time)}) <= 1
<1>. DEFINE S == {i \in Range(SlotsForDate(d)) : Inside(i, time)}
<1>1. \A i \in S : IsDue(i, d) /\ Inside(i, time)
  BY DueSlots DEF Range
<1>2. \A i \in DOMAIN plan.timeSlots : i \in Nat /\ Slot(i).start \in Int /\ Slot(i).end \in Int
  <2>1. plan.timeSlots \in Seq(Range(plan.timeSlots))
    BY DEF IsPlan
  <2>2. \A i \in DOMAIN plan.timeSlots : i \in Nat
    BY <2>1
  <2>. QED BY <2>2, DueSlots DEF EndsAreTimes
<1>3. ASSUME NEW i \in S, NEW j \in S, i < j PROVE FALSE
  <2>1. /\ i \in Slots /\ j \in Slots /\ IsTime(i) /\ IsTime(j)
        /\ WeekdayOf[d] \in EffectiveWeekdays(i) /\ WeekdayOf[d] \in EffectiveWeekdays(j)
    BY <1>1 DEF IsDue, Slots, IsTime, EffectiveWeekdays, IsWorkday
  <2>2. Slot(i).start < Slot(j).end /\ Slot(j).start < Slot(i).end
    BY <1>1, <1>2, <2>1 DEF Inside, Slots
  <2>3. <<i, j>> \in Overlaps
    BY <1>3, <2>1, <2>2 DEF Overlaps
  <2>. QED BY <2>3
<1>4. \A i, j \in S : i = j
  BY <1>1, <1>2, <1>3 DEF IsDue
<1>. HIDE DEF S
<1>5. CASE S = {}
  BY <1>5, FS_EmptySet DEF S
<1>6. CASE S # {}
  <2>1. PICK i \in S : TRUE
    BY <1>6
  <2>2. S = {i}
    BY <1>4
  <2>3. Cardinality(S) = 1
    BY <2>2, FS_Singleton
  <2>. QED BY <2>3 DEF S
<1>. QED BY <1>5, <1>6

\* What the readers pass over the validator has reported, whatever the plan
\* (validate, slotsForDate, buildDayView; D-012).
THEOREM CleanPlans == ShowSpec => []CleanPlansWhole
<1>1. ShowInv => CleanPlansWhole
  <2>. SUFFICES ASSUME ShowInv, Errors = {}, NEW d \in Date, IsWorkday(d)
                PROVE  /\ \A i \in Slots : Slot(i).weekdays = {} \/ WeekdayOf[d] \in Slot(i).weekdays =>
                             \A c \in CategoryIds(i) :
                                \E b \in Range(Blocks(d)) : b.slot = i /\ b.category = c
                       /\ Blocks(d) = DayCalls(d)
                       /\ \A time \in 0 .. LastTime :
                             Cardinality({i \in Range(SlotsForDate(d)) : Inside(i, time)}) <= 1
    BY Zenon DEF CleanPlansWhole
  <2>1. IsPlan(plan) /\ EndsAreTimes
    BY PlanFacts DEF ShowInv, DayInv, DayTypes
  <2>2. Blocks(d) = DayCalls(d)
    BY <2>1, NoErrors, BlocksWhole DEF Categories, TaskSetIds
  <2>3. ASSUME NEW i \in Slots, Slot(i).weekdays = {} \/ WeekdayOf[d] \in Slot(i).weekdays,
               NEW c \in CategoryIds(i)
        PROVE  \E b \in Range(Blocks(d)) : b.slot = i /\ b.category = c
    <3>1. c \in Categories /\ Slot(i).start >= 0
      BY NoErrors DEF IsTime
    <3>2. PICK set \in TaskSetIds(c) : TRUE
      BY <3>1, NoErrors
    <3>3. PICK m \in 1 .. Len(DayCalls(d)) :
                DayCalls(d)[m] = [slot |-> i, category |-> c, taskSet |-> set]
      BY <2>1, <2>3, <3>1, <3>2, DayCallsCover DEF Slots, Slot, CategoryIds, Categories, TaskSetIds
    <3>4. DayCalls(d) \in Seq(EngineCall)
      BY <2>1, DayCallsSound
    <3>5. DayCalls(d)[m] \in Range(Blocks(d))
      BY <2>2, <3>4 DEF Range
    <3>. QED BY <3>3, <3>5
  <2>4. \A time \in 0 .. LastTime :
           Cardinality({i \in Range(SlotsForDate(d)) : Inside(i, time)}) <= 1
    BY <2>1, NoErrors, OneAtATime
  <2>. QED BY <2>2, <2>3, <2>4
<1>. QED BY <1>1, ShowInductive, PTL

-----------------------------------------------------------------------------
(* Nothing of a stored day is hidden. *)

\* A plan without names given twice: `cat add` and `slot add` can write others
\* (README, section 4).
NamedOnce(p) ==
    /\ \A slot \in Range(p.timeSlots) : IsInjective(slot.categoryIds)
    /\ \A c \in DOMAIN p.categories : /\ IsInjective(p.categories[c])
                                      /\ Range(p.categories[c]) \subseteq p.taskSets

LEMMA CallsOfSlotOnce ==
    ASSUME IsPlan(plan), NamedOnce(plan), NEW i \in DOMAIN plan.timeSlots
    PROVE  Once(CallsOfSlot(i))
<1>. DEFINE categoryIds == plan.timeSlots[i].categoryIds
            CallsOf(x) == [k \in 1 .. Len(SetsOf(x)) |->
                             [slot |-> i, category |-> x, taskSet |-> SetsOf(x)[k]]]
            calls == [x \in 1 .. Len(categoryIds) |-> CallsOf(categoryIds[x])]
            Call == [slot : {i}, category : Category, taskSet : TaskSet]
<1>1. categoryIds \in Seq(Category) /\ IsInjective(categoryIds)
  BY DEF IsPlan, NamedOnce, Range
<1>2. \A x \in Category : SetsOf(x) \in Seq(TaskSet) /\ IsInjective(SetsOf(x))
  <2>. TAKE x \in Category
  <2>1. CASE x \in DOMAIN plan.categories
    BY <2>1 DEF IsPlan, NamedOnce, SetsOf
  <2>2. CASE x \notin DOMAIN plan.categories
    <3>1. SetsOf(x) = <<>>
      BY <2>2 DEF SetsOf
    <3>. QED BY <3>1 DEF IsInjective
  <2>. QED BY <2>1, <2>2
<1>3. ASSUME NEW x \in Category
      PROVE  /\ CallsOf(x) \in Seq(Call)
             /\ Len(CallsOf(x)) = Len(SetsOf(x))
             /\ \A k \in 1 .. Len(SetsOf(x)) :
                   CallsOf(x)[k] = [slot |-> i, category |-> x, taskSet |-> SetsOf(x)[k]]
  <2>1. PICK n \in Nat : n = Len(SetsOf(x)) /\ \A k \in 1 .. n : SetsOf(x)[k] \in TaskSet
    BY <1>2
  <2>2. \A k \in 1 .. n : CallsOf(x)[k] \in Call
    BY <2>1
  <2>. QED BY <2>1, <2>2
<1>. HIDE DEF CallsOf, categoryIds, Call
<1>4. calls \in Seq(Seq(Call)) /\ Len(calls) = Len(categoryIds)
  BY <1>1, <1>3
<1>5. ASSUME NEW x \in 1 .. Len(calls), NEW y \in 1 .. Len(calls),
             NEW k \in 1 .. Len(calls[x]), NEW l \in 1 .. Len(calls[y]), calls[x][k] = calls[y][l]
      PROVE  x = y /\ k = l
  <2>1. /\ categoryIds[x] \in Category /\ calls[x] = CallsOf(categoryIds[x])
        /\ categoryIds[y] \in Category /\ calls[y] = CallsOf(categoryIds[y])
    BY <1>1, <1>4
  <2>2. calls[x][k] = [slot |-> i, category |-> categoryIds[x], taskSet |-> SetsOf(categoryIds[x])[k]]
    BY <1>3, <2>1
  <2>3. calls[y][l] = [slot |-> i, category |-> categoryIds[y], taskSet |-> SetsOf(categoryIds[y])[l]]
    BY <1>3, <2>1
  <2>4. /\ categoryIds[x] = categoryIds[y]
        /\ SetsOf(categoryIds[x])[k] = SetsOf(categoryIds[y])[l]
    BY <1>5, <2>2, <2>3
  <2>5. x = y
    <3>1. x \in DOMAIN categoryIds /\ y \in DOMAIN categoryIds
      BY <1>1, <1>4
    <3>. QED BY <1>1, <2>4, <3>1 DEF IsInjective
  <2>6. k = l
    <3>1. SetsOf(categoryIds[x]) \in Seq(TaskSet) /\ IsInjective(SetsOf(categoryIds[x]))
      BY <1>2, <2>1
    <3>2. k \in 1 .. Len(SetsOf(categoryIds[x])) /\ l \in 1 .. Len(SetsOf(categoryIds[x]))
      BY <1>3, <2>1, <2>5
    <3>3. k \in DOMAIN SetsOf(categoryIds[x]) /\ l \in DOMAIN SetsOf(categoryIds[x])
      BY <3>1, <3>2
    <3>. QED BY <2>4, <3>1, <3>3 DEF IsInjective
  <2>. QED BY <2>5, <2>6
<1>6. CallsOfSlot(i) = FlattenSeq(calls)
  BY DEF CallsOfSlot, CallsOf, categoryIds
<1>. HIDE DEF calls
<1>7. Apart(calls)
  BY <1>5 DEF Apart
<1>. QED BY <1>4, <1>6, <1>7, FlattenOnce

LEMMA DayCallsOnce ==
    ASSUME IsPlan(plan), NamedOnce(plan), NEW d
    PROVE  Once(DayCalls(d))
<1>. DEFINE slots == SlotsForDate(d)
            calls == [j \in 1 .. Len(slots) |-> CallsOfSlot(slots[j])]
<1>1. /\ slots \in Seq(DOMAIN plan.timeSlots)
      /\ \A j, k \in 1 .. Len(slots) : slots[j] = slots[k] => j = k
  BY SlotsOnce
<1>2. DayCalls(d) = FlattenSeq(calls)
  BY DEF DayCalls
<1>. HIDE DEF slots
<1>. PICK n \in Nat : n = Len(slots)
  BY <1>1
<1>3. ASSUME NEW j \in 1 .. n
      PROVE  /\ calls[j] \in Seq(EngineCall) /\ Once(calls[j])
             /\ \A k \in 1 .. Len(calls[j]) : calls[j][k].slot = slots[j]
  <2>1. slots[j] \in DOMAIN plan.timeSlots /\ calls[j] = CallsOfSlot(slots[j])
    BY <1>1
  <2>2. calls[j] \in Seq(CallsIn(slots[j])) /\ Once(calls[j])
    BY <2>1, CallsOfSlotType, CallsOfSlotOnce
  <2>3. CallsIn(slots[j]) \subseteq EngineCall /\ \A c \in CallsIn(slots[j]) : c.slot = slots[j]
    BY DEF CallsIn
  <2>. HIDE DEF calls
  <2>4. \A k \in 1 .. Len(calls[j]) : calls[j][k] \in CallsIn(slots[j])
    BY <2>2
  <2>. QED BY <2>2, <2>3, <2>4
<1>4. calls \in Seq(Seq(EngineCall)) /\ Len(calls) = n
  BY <1>3
<1>. HIDE DEF calls
<1>5. ASSUME NEW i \in 1 .. n, NEW j \in 1 .. n,
             NEW k \in 1 .. Len(calls[i]), NEW l \in 1 .. Len(calls[j]), calls[i][k] = calls[j][l]
      PROVE  i = j /\ k = l
  <2>1. slots[i] = slots[j]
    BY <1>3, <1>5
  <2>2. i = j
    BY <1>1, <2>1
  <2>. QED BY <1>3, <1>5, <2>2 DEF Once
<1>6. Apart(calls)
  BY <1>4, <1>5 DEF Apart
<1>. QED BY <1>2, <1>4, <1>6, FlattenOnce

LEMMA SumOfOne ==
    ASSUME NEW n \in Int
    PROVE  SumSet({n}) = n
<1>. DEFINE Adds(f) == f = [s \in SUBSET {n} |->
                              IF s = {} THEN 0
                              ELSE LET x == CHOOSE x \in s : TRUE IN x + f[s \ {x}]]
            g == [s \in SUBSET {n} |-> IF s = {} THEN 0 ELSE n]
            sum == CHOOSE f : Adds(f)
<1>1. ASSUME NEW s \in SUBSET {n}
      PROVE  g[s] = IF s = {} THEN 0 ELSE LET x == CHOOSE x \in s : TRUE IN x + g[s \ {x}]
  <2>1. CASE s = {}
    BY <2>1
  <2>2. CASE s # {}
    <3>1. s = {n} /\ (CHOOSE x \in s : TRUE) = n /\ s \ {n} = {}
      BY <2>2
    <3>2. g[{}] = 0 /\ g[{n}] = n
      OBVIOUS
    <3>. QED BY <3>1, <3>2
  <2>. QED BY <2>1, <2>2
<1>2. Adds(g)
  <2>1. g = [s \in SUBSET {n} |-> g[s]]
    OBVIOUS
  <2>. HIDE DEF g
  <2>. QED BY <1>1, <2>1
<1>3. Adds(sum)
  BY <1>2
<1>4. SumSet({n}) = sum[{n}]
  BY DEF SumSet, FoldSet, MapThenFoldSet
<1>. HIDE DEF sum
<1>5. /\ sum[{}] = 0
      /\ sum[{n}] = LET x == CHOOSE x \in {n} : TRUE IN x + sum[{n} \ {x}]
  BY <1>3
<1>6. (CHOOSE x \in {n} : TRUE) = n /\ {n} \ {n} = {}
  OBVIOUS
<1>7. sum[{n}] = n + sum[{}]
  BY <1>5, <1>6
<1>. QED BY <1>4, <1>5, <1>7

SeatsIn(list, t) == {k \in 1 .. Len(list) : list[k].taskId = t}

LEMMA SeatsFinite ==
    ASSUME NEW list \in Seq([taskId : Task, workerId : Worker]), NEW t
    PROVE  /\ IsFiniteSet(SeatsIn(list, t)) /\ Cardinality(SeatsIn(list, t)) \in Nat
           /\ \A k \in DOMAIN list : list[k].taskId \in Task /\ k \in SeatsIn(list, list[k].taskId)
<1>1. PICK n \in Nat : /\ n = Len(list)
                       /\ DOMAIN list = 1 .. n
                       /\ \A k \in 1 .. n : list[k] \in [taskId : Task, workerId : Worker]
  BY SequenceAt
<1>2. IsFiniteSet(1 .. n)
  BY FS_Interval
<1>3. SeatsIn(list, t) \in SUBSET (1 .. n)
  BY <1>1 DEF SeatsIn
<1>4. IsFiniteSet(SeatsIn(list, t))
  BY <1>2, <1>3, FS_Subset
<1>5. \A k \in DOMAIN list : list[k].taskId \in Task /\ k \in SeatsIn(list, list[k].taskId)
  <2>. TAKE k \in DOMAIN list
  <2>1. k \in 1 .. n /\ list[k] \in [taskId : Task, workerId : Worker]
    BY <1>1
  <2>. QED BY <1>1, <2>1 DEF SeatsIn
<1>. QED BY <1>4, <1>5, FS_CardinalityType

\* The people on as many seats: each has one.
LEMMA OneEach ==
    ASSUME NEW list \in Seq([taskId : Task, workerId : Worker]), NEW t,
           \A k, m \in SeatsIn(list, t) : list[k].workerId = list[m].workerId => k = m
    PROVE  LET people == {list[k].workerId : k \in SeatsIn(list, t)} IN
           IsFiniteSet(people) /\ Cardinality(people) = Cardinality(SeatsIn(list, t))
<1>. DEFINE seats == SeatsIn(list, t)
            people == {list[k].workerId : k \in seats}
            f == [k \in seats |-> list[k].workerId]
<1>1. IsFiniteSet(seats)
  BY SeatsFinite
<1>. HIDE DEF seats
<1>2. \A k, m \in seats : list[k].workerId = list[m].workerId => k = m
  BY DEF seats
<1>3. f \in Surjection(seats, people)
  BY DEF Surjection
<1>4. f \in Injection(seats, people)
  BY <1>2 DEF Injection, IsInjective
<1>. HIDE DEF people, f
<1>5. IsFiniteSet(people) /\ Cardinality(people) = Cardinality(seats)
  BY <1>1, <1>3, <1>4, FS_Surjection
<1>. QED BY <1>5 DEF people, seats

\* Every record is found again, and only in its place.
LEMMA RecordIsFound ==
    ASSUME NEW d \in Date, snapshots[d] \in Seq(Row),
           NEW calls \in Seq(EngineCall), Once(calls),
           Answers(snapshots[d], calls), NEW i \in 1 .. Len(calls)
    PROVE  RecordOf(d, calls[i]) = {snapshots[d][i]}
<1>. DEFINE day == snapshots[d]
            at == {j \in DOMAIN day : /\ day[j].slot = calls[i].slot
                                      /\ day[j].category = calls[i].category
                                      /\ day[j].taskSet = calls[i].taskSet}
<1>. PICK n \in Nat : n = Len(calls)
  OBVIOUS
<1>0. DOMAIN day = 1 .. n
  BY DEF Answers
<1>1. at = {i}
  <2>1. i \in at
    BY <1>0 DEF Answers
  <2>2. ASSUME NEW j \in at PROVE j = i
    <3>1. calls[j] \in EngineCall /\ calls[i] \in EngineCall /\ j \in 1 .. n
      BY <1>0
    <3>2. calls[j].slot = calls[i].slot /\ calls[j].category = calls[i].category
            /\ calls[j].taskSet = calls[i].taskSet
      BY <1>0 DEF Answers
    <3>3. calls[j] = calls[i]
      BY <3>1, <3>2 DEF EngineCall
    <3>. QED BY <3>1, <3>3 DEF Once
  <2>. HIDE DEF at
  <2>. QED BY <2>1, <2>2
<1>2. Min({i}) = i
  BY DEF Min
<1>3. RecordOf(d, calls[i]) = IF at = {} THEN {} ELSE {day[Min(at)]}
  BY DEF RecordOf
<1>. HIDE DEF at
<1>. QED BY <1>1, <1>2, <1>3

\* The lines of a block tell all its record does.
LEMMA LinesOfRecord ==
    ASSUME IsPlan(plan), NEW d, NEW block, NEW row \in Row, RecordOf(d, block) = {row},
           row.taskSet = block.taskSet, Counted(plan, d, row),
           \A k, m \in DOMAIN row.assignments :
              (/\ row.assignments[k].workerId = row.assignments[m].workerId
               /\ row.assignments[k].taskId = row.assignments[m].taskId) => k = m
    PROVE  /\ \A k \in DOMAIN row.assignments :
                 /\ row.assignments[k].taskId \in DOMAIN Lines(d, block)
                 /\ row.assignments[k].workerId
                       \in Lines(d, block)[row.assignments[k].taskId].workers
           /\ \A t \in DOMAIN Lines(d, block) :
                 Cardinality(Lines(d, block)[t].workers) + Lines(d, block)[t].unassigned
                    = Max({plan.tasks[t].requiredCount, 0})
<1>. DEFINE list == row.assignments
            due == {t \in Task : TaskDue(plan, d, block.taskSet, t)}
            people(t) == {list[k].workerId : k \in SeatsIn(list, t)}
<1>1. /\ list \in Seq([taskId : Task, workerId : Worker])
      /\ row.unassigned \in [Task -> Nat]
  BY DEF Row
<1>2. DOMAIN list = 1 .. Len(list)
  BY <1>1
<1>3. /\ DOMAIN Lines(d, block) = due
      /\ \A t \in due : /\ Lines(d, block)[t].workers = people(t)
                        /\ Lines(d, block)[t].unassigned = row.unassigned[t]
  <2>. DEFINE onRecord(t) == UNION {{r.assignments[k].workerId :
                                  k \in {j \in DOMAIN r.assignments :
                                            r.assignments[j].taskId = t}} :
                              r \in RecordOf(d, block)}
  <2>1. \A t : onRecord(t) = people(t)
    BY <1>2 DEF SeatsIn
  <2>2. \A t \in due : SumSet({r.unassigned[t] : r \in RecordOf(d, block)}) = row.unassigned[t]
    <3>. TAKE t \in due
    <3>1. {r.unassigned[t] : r \in RecordOf(d, block)} = {row.unassigned[t]}
      OBVIOUS
    <3>2. row.unassigned[t] \in Int
      BY <1>1
    <3>. QED BY <3>1, <3>2, SumOfOne
  <2>3. Lines(d, block) =
          [t \in due |-> [workers    |-> onRecord(t),
                          absent     |-> {w \in onRecord(t) : IsAbsentOn(w, d)},
                          unassigned |-> SumSet({r.unassigned[t] : r \in RecordOf(d, block)})]]
    BY DEF Lines, TaskDue
  <2>. HIDE DEF onRecord, people, due
  <2>. QED BY <2>1, <2>2, <2>3
<1>4. ASSUME NEW t \in Task
      PROVE  /\ IsFiniteSet(people(t)) /\ Cardinality(people(t)) = Cardinality(SeatsIn(list, t))
             /\ IsFiniteSet(SeatsIn(list, t)) /\ Cardinality(SeatsIn(list, t)) \in Nat
             /\ Cardinality(SeatsIn(list, t)) + row.unassigned[t]
                  = IF t \in due THEN Max({plan.tasks[t].requiredCount, 0}) ELSE 0
  <2>1. \A k, m \in SeatsIn(list, t) : list[k].workerId = list[m].workerId => k = m
    BY <1>2 DEF SeatsIn
  <2>2. IsFiniteSet(people(t)) /\ Cardinality(people(t)) = Cardinality(SeatsIn(list, t))
    BY <1>1, <2>1, OneEach
  <2>3. IsFiniteSet(SeatsIn(list, t)) /\ Cardinality(SeatsIn(list, t)) \in Nat
    BY <1>1, SeatsFinite
  <2>4. Cardinality(SeatsIn(list, t)) + row.unassigned[t]
          = IF t \in due THEN Max({plan.tasks[t].requiredCount, 0}) ELSE 0
    BY DEF Counted, SeatsIn
  <2>. QED BY <2>2, <2>3, <2>4
<1>5. ASSUME NEW k \in DOMAIN list
      PROVE  list[k].taskId \in due /\ list[k].workerId \in people(list[k].taskId)
  <2>1. PICK t \in Task : t = list[k].taskId /\ k \in SeatsIn(list, t)
    BY <1>1, SeatsFinite
  <2>2. Cardinality(SeatsIn(list, t)) # 0
    BY <1>4, <2>1, FS_EmptySet
  <2>3. row.unassigned[t] \in Nat
    BY <1>1
  <2>4. list[k].workerId \in people(t)
    BY <2>1
  <2>. HIDE DEF due, people
  <2>5. ASSUME t \notin due PROVE FALSE
    <3>1. Cardinality(SeatsIn(list, t)) + row.unassigned[t] = 0
      BY <1>4, <2>5
    <3>2. Cardinality(SeatsIn(list, t)) \in Nat
      BY <1>4
    <3>. QED BY <2>2, <2>3, <3>1, <3>2
  <2>. QED BY <2>1, <2>4, <2>5
<1>. HIDE DEF people, due
<1>6. due \subseteq Task
  BY DEF due
<1>. QED BY <1>3, <1>4, <1>5, <1>6

\* The view of a day, record by record.
LEMMA DayIsShown ==
    ASSUME ShowInv, NamedOnce(plan), NEW d \in Date, snapshots[d] # <<>>
    PROVE  /\ Len(View(d)) = Len(snapshots[d])
           /\ \A i \in DOMAIN snapshots[d] :
                LET row == snapshots[d][i] IN
                \E b \in DOMAIN View(d) :
                   LET lines == View(d)[b].lines IN
                   /\ View(d)[b].at = [slot |-> row.slot, category |-> row.category,
                                       taskSet |-> row.taskSet]
                   /\ \A k \in DOMAIN row.assignments :
                         /\ row.assignments[k].taskId \in DOMAIN lines
                         /\ row.assignments[k].workerId
                               \in lines[row.assignments[k].taskId].workers
                   /\ \A t \in DOMAIN lines :
                         Cardinality(lines[t].workers) + lines[t].unassigned
                            = Max({plan.tasks[t].requiredCount, 0})
<1>. DEFINE day == snapshots[d]
<1>1. IsPlan(plan) /\ day \in Seq(Row)
  BY DEF ShowInv, DayInv, DayTypes
<1>2. Blocks(d) = DayCalls(d)
  BY <1>1, BlocksWhole DEF NamedOnce
<1>3. PICK calls \in Seq(EngineCall) : calls = DayCalls(d) /\ Once(calls)
  BY <1>1, DayCallsSound, DayCallsOnce
<1>4. Answers(day, calls) /\ \A i \in 1 .. Len(day) : Counted(plan, d, day[i])
  BY <1>3 DEF ShowInv, RecordInv, StoredWhole
<1>5. Free(plan, day)
  BY DEF ShowInv, DayInv, StoredFree
<1>6. PICK n \in Nat : n = Len(calls) /\ n = Len(day) /\ DOMAIN day = 1 .. n
  BY <1>1, <1>4 DEF Answers
<1>7. /\ Len(View(d)) = n /\ DOMAIN View(d) = 1 .. n
      /\ \A b \in 1 .. n : /\ View(d)[b].at = calls[b]
                           /\ View(d)[b].lines = Lines(d, calls[b])
  <2>0. Blocks(d) = calls
    BY <1>2, <1>3
  <2>1. DOMAIN calls = 1 .. n
    <3>1. \A q \in Seq(EngineCall) : DOMAIN q = 1 .. Len(q)
      OBVIOUS
    <3>. QED BY <1>3, <1>6, <3>1
  <2>2. View(d) = [b \in 1 .. n |-> [at |-> calls[b], lines |-> Lines(d, calls[b])]]
    BY <2>0, <2>1 DEF View
  <2>. QED BY <2>2
<1>. HIDE DEF day
<1>8. ASSUME NEW i \in 1 .. n
      PROVE  LET row == day[i]  lines == View(d)[i].lines IN
             /\ View(d)[i].at = [slot |-> row.slot, category |-> row.category,
                                 taskSet |-> row.taskSet]
             /\ \A k \in DOMAIN row.assignments :
                   /\ row.assignments[k].taskId \in DOMAIN lines
                   /\ row.assignments[k].workerId \in lines[row.assignments[k].taskId].workers
             /\ \A t \in DOMAIN lines :
                   Cardinality(lines[t].workers) + lines[t].unassigned
                      = Max({plan.tasks[t].requiredCount, 0})
  <2>0. i \in 1 .. Len(day) /\ i \in 1 .. Len(calls)
    BY <1>6
  <2>1. day[i] \in Row /\ calls[i] \in EngineCall
    BY <1>1, <2>0
  <2>2. /\ day[i].slot = calls[i].slot /\ day[i].category = calls[i].category
        /\ day[i].taskSet = calls[i].taskSet
    BY <1>4, <1>6 DEF Answers
  <2>3. calls[i] = [slot |-> day[i].slot, category |-> day[i].category,
                    taskSet |-> day[i].taskSet]
    BY <2>1, <2>2 DEF EngineCall
  <2>4. RecordOf(d, calls[i]) = {day[i]}
    BY <1>1, <1>3, <1>4, <1>6, RecordIsFound DEF day
  <2>5. ASSUME NEW k \in DOMAIN day[i].assignments, NEW m \in DOMAIN day[i].assignments,
               day[i].assignments[k].workerId = day[i].assignments[m].workerId,
               day[i].assignments[k].taskId = day[i].assignments[m].taskId, k # m
        PROVE  FALSE
    <3>1. day[i].assignments \in Seq([taskId : Task, workerId : Worker])
      BY <2>1 DEF Row
    <3>2. k \in 1 .. Len(day[i].assignments) /\ m \in 1 .. Len(day[i].assignments)
      BY <3>1
    <3>3. Together(plan, day, i, k, i, m)
      BY <1>5, <1>6, <3>2 DEF Free
    <3>. QED BY <2>5, <3>3 DEF Together
  <2>6. Counted(plan, d, day[i])
    BY <1>4, <1>6
  <2>7. \A k, m \in DOMAIN day[i].assignments :
              (/\ day[i].assignments[k].workerId = day[i].assignments[m].workerId
               /\ day[i].assignments[k].taskId = day[i].assignments[m].taskId) => k = m
    BY <2>5
  <2>8. PICK row \in Row, block \in EngineCall : row = day[i] /\ block = calls[i]
    BY <2>1
  <2>9. /\ \A k \in DOMAIN row.assignments :
              /\ row.assignments[k].taskId \in DOMAIN Lines(d, block)
              /\ row.assignments[k].workerId
                    \in Lines(d, block)[row.assignments[k].taskId].workers
        /\ \A t \in DOMAIN Lines(d, block) :
              Cardinality(Lines(d, block)[t].workers) + Lines(d, block)[t].unassigned
                 = Max({plan.tasks[t].requiredCount, 0})
    BY <1>1, <2>2, <2>4, <2>6, <2>7, <2>8, LinesOfRecord
  <2>. QED BY <1>7, <2>3, <2>8, <2>9, Zenon
<1>. QED BY <1>6, <1>7, <1>8 DEF day

\* Of a plan that names nothing twice, whatever absences and days off change
\* after a day was stored, its screen shows every record in its place, every
\* person and every seat (buildDayView, findSnapshotSet, tasksIn; D-009).
THEOREM RecordsShown ==
    ASSUME \A p \in Plans : NamedOnce(p)
    PROVE  ShowSpec => []EveryRecordShown
<1>1. ShowInv => EveryRecordShown
  <2>. SUFFICES ASSUME ShowInv PROVE EveryRecordShown
    OBVIOUS
  <2>1. NamedOnce(plan)
    <3>1. PICK p \in Plans : \A f \in Lasting : plan[f] = p[f]
      BY DEF ShowInv, FromPlans
    <3>2. plan.timeSlots = p.timeSlots /\ plan.categories = p.categories
            /\ plan.taskSets = p.taskSets
      BY <3>1 DEF Lasting
    <3>. QED BY <3>2 DEF NamedOnce
  <2>. QED BY <2>1, DayIsShown, Zenon DEF EveryRecordShown
<1>. QED BY <1>1, ShowInductive, PTL

-----------------------------------------------------------------------------
(* Seats nobody can take. *)

\* One of the tasks names the other.
Mutual(u, v) == u \in plan.tasks[v].conflictsWith \/ v \in plan.tasks[u].conflictsWith

\* The tasks k conflicts away from t, and nearer.
Reaches(f, s, t, n) ==
    \A k \in 0 .. n :
        f[k] = IF k = 0 THEN {t}
               ELSE f[k - 1] \cup {u \in Members(s) : \E v \in f[k - 1] : Mutual(u, v)}

LEMMA ReachExists ==
    ASSUME NEW s, NEW t \in Members(s), NEW n \in Nat
    PROVE  \E f \in [0 .. n -> SUBSET Members(s)] : Reaches(f, s, t, n)
<1>. DEFINE T == {k \in Nat : \E f \in [0 .. k -> SUBSET Members(s)] : Reaches(f, s, t, k)}
<1>1. 0 \in T
  <2>. DEFINE f == [k \in 0 .. 0 |-> {t}]
  <2>1. f \in [0 .. 0 -> SUBSET Members(s)] /\ Reaches(f, s, t, 0)
    BY DEF Reaches
  <2>. QED BY <2>1
<1>2. ASSUME NEW m \in Nat, m \in T PROVE m + 1 \in T
  <2>1. PICK f \in [0 .. m -> SUBSET Members(s)] : Reaches(f, s, t, m)
    BY <1>2
  <2>. DEFINE next == f[m] \cup {u \in Members(s) : \E v \in f[m] : Mutual(u, v)}
              h == [k \in 0 .. m + 1 |-> IF k = m + 1 THEN next ELSE f[k]]
  <2>2. next \in SUBSET Members(s)
    BY <2>1
  <2>3. ASSUME NEW k \in 0 .. m + 1
        PROVE  h[k] = IF k = 0 THEN {t}
                      ELSE h[k - 1] \cup {u \in Members(s) : \E v \in h[k - 1] : Mutual(u, v)}
    <3>1. CASE k = m + 1
      <4>1. k # 0 /\ k - 1 = m /\ m \in 0 .. m + 1 /\ m # m + 1
        BY <3>1
      <4>2. h[m] = f[m]
        BY <4>1
      <4>. QED BY <3>1, <4>1, <4>2
    <3>2. CASE k # m + 1
      <4>1. k \in 0 .. m /\ (k # 0 => k - 1 \in 0 .. m + 1 /\ k - 1 # m + 1)
        BY <3>2
      <4>2. h[k] = f[k] /\ (k # 0 => h[k - 1] = f[k - 1])
        BY <3>2, <4>1
      <4>3. f[k] = IF k = 0 THEN {t}
                   ELSE f[k - 1] \cup {u \in Members(s) : \E v \in f[k - 1] : Mutual(u, v)}
        BY <2>1, <4>1 DEF Reaches
      <4>. QED BY <4>2, <4>3
    <3>. QED BY <3>1, <3>2
  <2>4. h \in [0 .. m + 1 -> SUBSET Members(s)]
    BY <2>2
  <2>. HIDE DEF h
  <2>5. Reaches(h, s, t, m + 1)
    BY <2>3 DEF Reaches
  <2>. QED BY <2>4, <2>5
<1>3. Nat \subseteq T
  <2>. HIDE DEF T
  <2>. QED BY <1>1, <1>2, Counting
<1>. QED BY <1>3

\* The group of a task holds the task itself and all that exclude it.
LEMMA GroupHolds ==
    ASSUME NEW s, NEW t \in Members(s)
    PROVE  /\ ConflictComponent(s, t) \subseteq Members(s)
           /\ t \in ConflictComponent(s, t)
           /\ \A u \in Members(s) : Mutual(u, t) => u \in ConflictComponent(s, t)
<1>. DEFINE Is(f) == f = [k \in 0 .. NTasks |->
                           IF k = 0 THEN {t}
                           ELSE f[k - 1] \cup
                                  {u \in Members(s) : \E v \in f[k - 1] : Mutual(u, v)}]
            reach == CHOOSE f : Is(f)
            near == {t} \cup {u \in Members(s) : Mutual(u, t)}
<1>0. NTasks \in Nat /\ NTasks >= 1
  BY PlansAssumption DEF Members, Task
<1>1. PICK g \in [0 .. NTasks -> SUBSET Members(s)] : Reaches(g, s, t, NTasks)
  BY <1>0, ReachExists
<1>2. Is(g)
  <2>1. g = [k \in 0 .. NTasks |-> g[k]]
    OBVIOUS
  <2>. QED BY <1>1, <2>1 DEF Reaches
<1>3. Is(reach)
  BY <1>2
<1>4. ConflictComponent(s, t) = reach[NTasks]
  BY Zenon DEF ConflictComponent, Mutual
<1>. HIDE DEF reach
<1>5. reach[0] = {t}
  BY <1>0, <1>3
<1>6. \A k \in Nat : k + 1 \in 0 .. NTasks =>
         reach[k + 1] = reach[k] \cup {u \in Members(s) : \E v \in reach[k] : Mutual(u, v)}
  <2>. TAKE k \in Nat
  <2>1. k + 1 # 0 /\ (k + 1) - 1 = k
    OBVIOUS
  <2>. QED BY <1>3, <2>1
<1>. HIDE DEF Is
<1>. DEFINE T == {k \in Nat : k + 1 \in 0 .. NTasks =>
                                 near \subseteq reach[k + 1] /\ reach[k + 1] \subseteq Members(s)}
<1>7. 0 \in T
  <2>1. reach[1] = {t} \cup {u \in Members(s) : Mutual(u, t)}
    BY <1>0, <1>5, <1>6
  <2>. QED BY <2>1
<1>8. ASSUME NEW k \in Nat, k \in T PROVE k + 1 \in T
  <2>. SUFFICES ASSUME (k + 1) + 1 \in 0 .. NTasks
                PROVE  near \subseteq reach[(k + 1) + 1] /\ reach[(k + 1) + 1] \subseteq Members(s)
    OBVIOUS
  <2>1. k + 1 \in 0 .. NTasks /\ k + 1 \in Nat
    BY <1>0
  <2>2. near \subseteq reach[k + 1] /\ reach[k + 1] \subseteq Members(s)
    BY <1>8, <2>1
  <2>. HIDE DEF near
  <2>3. reach[(k + 1) + 1] = reach[k + 1] \cup
                               {u \in Members(s) : \E v \in reach[k + 1] : Mutual(u, v)}
    BY <1>6, <2>1
  <2>. QED BY <2>2, <2>3
<1>9. Nat \subseteq T
  <2>. HIDE DEF T
  <2>. QED BY <1>7, <1>8, Counting
<1>10. NTasks - 1 \in Nat /\ (NTasks - 1) + 1 = NTasks
  BY <1>0
<1>11. near \subseteq reach[NTasks] /\ reach[NTasks] \subseteq Members(s)
  BY <1>0, <1>9, <1>10
<1>. QED BY <1>4, <1>11

\* Whoever is there and could take a seat that was left has the task already, or
\* one excluded with it, in the same row.
HeldOff(p, people, row) ==
    \A t \in Task : row.unassigned[t] > 0 =>
        \A w \in Range(people) : \E k \in DOMAIN row.assignments :
            /\ row.assignments[k].workerId = w
            /\ \/ row.assignments[k].taskId = t
               \/ Engine!ConflictsIn(p.tasks, row.assignments[k].taskId, t)

RowsHeldOff ==
    (date # 0 /\ ~plan.crossSetConflicts) =>
        \A i \in 1 .. Len(rows) : HeldOff(plan, available, rows[i])

LEMMA NewRowHeldOff ==
    ASSUME DayInv, calling, pc = "done", ~plan.crossSetConflicts
    PROVE  HeldOff(plan, available, NewRow)
<1>. SUFFICES ASSUME NEW t \in Task, unassigned[t] > 0, NEW w \in Range(available)
              PROVE  \E k \in DOMAIN assignments :
                        /\ assignments[k].workerId = w
                        /\ \/ assignments[k].taskId = t
                           \/ Engine!ConflictsIn(plan.tasks, assignments[k].taskId, t)
  BY DEF HeldOff, NewRow
<1>1. /\ Proved!IInv /\ input.slotTasks = plan.tasks /\ input.availableWorkers = available
      /\ (input.crossSetConflicts <=> plan.crossSetConflicts)
      /\ available \in Engine!Roster
  BY DEF DayInv, CallRuns, DayTypes
<1>2. assignments \in Seq([taskId : Task, workerId : Worker])
  BY <1>1, EngineResult
<1>3. available \in Seq(Worker)
  BY <1>1 DEF Engine!Roster, Engine!Worker, Worker
<1>4. PICK k \in 1 .. Len(available) : available[k] = w
  <2>1. DOMAIN available = 1 .. Len(available)
    BY <1>3, SequenceAt
  <2>. QED BY <2>1 DEF Range
<1>5. ~Proved!Eligible(w, t)
  <2>1. \A j \in 1 .. Proved!N : ~Proved!Eligible(input.availableWorkers[j], t)
    BY <1>1, Zenon DEF Proved!IInv, Proved!UnassignedForGood, Proved!Task, Task
  <2>2. Proved!N = Len(available)
    BY <1>1, Zenon DEF Proved!N
  <2>. QED BY <1>1, <1>4, <2>1, <2>2
<1>6. ledger[w] = {assignments[i].taskId : i \in Proved!SeatsOf(w)}
  <2>1. w \in Worker /\ Proved!N > 0
    BY <1>1, <1>3, <1>4, SequenceAt DEF Proved!N
  <2>2. ledger[w] = Proved!Booked(w)
    BY <1>1, <2>1 DEF Proved!IInv, Proved!LedgerIsBooked, Proved!Worker, Worker
  <2>3. Proved!PriorTasks(w) = {}
    BY <1>1 DEF Proved!PriorTasks
  <2>. QED BY <2>2, <2>3 DEF Proved!Booked
<1>7. PICK held \in ledger[w] : held = t \/ Engine!ConflictsIn(plan.tasks, held, t)
  BY <1>1, <1>5 DEF Proved!Eligible, Proved!Holds, Proved!BlockedBy, Proved!Conflicts,
                    Proved!ConflictsIn, Engine!ConflictsIn
<1>8. PICK i \in Proved!SeatsOf(w) : assignments[i].taskId = held
  BY <1>6
<1>9. i \in DOMAIN assignments /\ assignments[i].workerId = w
  <2>1. i \in 1 .. Len(assignments) /\ assignments[i].workerId = w
    BY DEF Proved!SeatsOf
  <2>. QED BY <1>2, <2>1, SequenceAt
<1>. QED BY <1>7, <1>8, <1>9

LEMMA HeldOffStep ==
    ASSUME DayInv, RowsHeldOff, [Next \/ Between]_vars
    PROVE  RowsHeldOff'
<1>1. CASE date' = 0
  BY <1>1 DEF RowsHeldOff
<1>2. ASSUME NEW d \in Date, ComputeDay(d) PROVE RowsHeldOff'
  <2>1. rows' = <<>>
    BY <1>2 DEF ComputeDay
  <2>. QED BY <2>1 DEF RowsHeldOff
<1>3. CASE CallEngine \/ EngineStep \/ UNCHANGED vars
  <2>1. plan' = plan /\ rows' = rows /\ available' = available /\ date' = date
    BY <1>3, Zenon DEF CallEngine, EngineStep, dayVars, vars
  <2>. QED BY <2>1, Zenon DEF RowsHeldOff
<1>4. CASE TakeResult
  <2>1. /\ plan' = plan /\ rows' = Append(rows, NewRow) /\ date' = date
        /\ available' = available /\ calling /\ pc = "done" /\ rows \in Seq(Row)
    BY <1>4 DEF TakeResult, NewRow, DayInv, DayTypes
  <2>. PICK n \in Nat : n = Len(rows)
    BY <2>1
  <2>2. /\ Len(rows') = n + 1 /\ rows'[n + 1] = NewRow
        /\ \A i \in 1 .. n : rows'[i] = rows[i]
    BY <2>1
  <2>3. \A i \in 1 .. n + 1 : i = n + 1 \/ i \in 1 .. n
    OBVIOUS
  <2>. SUFFICES ASSUME date # 0, ~plan.crossSetConflicts, NEW i \in 1 .. n + 1
                PROVE  HeldOff(plan, available, rows'[i])
    BY <2>1, <2>2, Zenon DEF RowsHeldOff
  <2>4. CASE i \in 1 .. n
    BY <2>2, <2>4, Zenon DEF RowsHeldOff
  <2>5. CASE i = n + 1
    BY <2>1, <2>2, <2>5, NewRowHeldOff, Zenon
  <2>. QED BY <2>3, <2>4, <2>5
<1>5. CASE StoreDay
  BY <1>1, <1>5, Zenon DEF StoreDay
<1>6. CASE Between
  BY <1>1, <1>6, Zenon DEF Between
<1>. QED BY <1>2, <1>3, <1>4, <1>5, <1>6 DEF Next

\* People on a row are no more than its seats.
LEMMA PeopleAndSeats ==
    ASSUME NEW list \in Seq([taskId : Task, workerId : Worker]), NEW t
    PROVE  LET people == {list[k].workerId : k \in SeatsIn(list, t)} IN
           /\ IsFiniteSet(people) /\ Cardinality(people) \in Nat
           /\ Cardinality(people) <= Cardinality(SeatsIn(list, t))
<1>. DEFINE seats == SeatsIn(list, t)
            people == {list[k].workerId : k \in seats}
            f == [k \in seats |-> list[k].workerId]
<1>1. IsFiniteSet(seats)
  BY SeatsFinite
<1>. HIDE DEF seats
<1>2. f \in Surjection(seats, people)
  BY DEF Surjection
<1>. HIDE DEF people, f
<1>3. IsFiniteSet(people) /\ Cardinality(people) <= Cardinality(seats)
  BY <1>1, <1>2, FS_Surjection
<1>. QED BY <1>3, FS_CardinalityType DEF people, seats

\* A group with a seat that nobody can take needs more people than there are.
LEMMA GroupIsShort ==
    ASSUME IsPlan(plan), NEW d, NEW row \in Row, Counted(plan, d, row),
           HeldOff(plan, available, row), Range(available) = Active,
           NEW t \in Task, row.unassigned[t] > 0
    PROVE  /\ t \in Members(row.taskSet)
           /\ IsShort(ConflictComponent(row.taskSet, t))
<1>. DEFINE list == row.assignments
            s == row.taskSet
            group == ConflictComponent(s, t)
            people(u) == {list[k].workerId : k \in SeatsIn(list, u)}
<1>1. /\ list \in Seq([taskId : Task, workerId : Worker])
      /\ row.unassigned \in [Task -> Nat]
  BY DEF Row
<1>2. ASSUME NEW u \in Task
      PROVE  /\ Needed(u) \in Nat
             /\ IsFiniteSet(people(u)) /\ Cardinality(people(u)) \in Nat
             /\ Cardinality(people(u)) + row.unassigned[u] <= Needed(u)
             /\ Cardinality(people(u)) + row.unassigned[u] > 0 => u \in Members(s)
  <2>1. plan.tasks[u].requiredCount \in Int
    BY DEF IsPlan, Engine!TaskDef
  <2>2. Needed(u) \in Nat
    BY <2>1, MaxWithZero DEF Needed
  <2>3. /\ IsFiniteSet(people(u)) /\ Cardinality(people(u)) \in Nat
        /\ Cardinality(people(u)) <= Cardinality(SeatsIn(list, u))
    BY <1>1, PeopleAndSeats
  <2>4. Cardinality(SeatsIn(list, u)) \in Nat /\ row.unassigned[u] \in Nat
    BY <1>1, SeatsFinite
  <2>. HIDE DEF people
  <2>5. Cardinality(SeatsIn(list, u)) + row.unassigned[u]
          = IF TaskDue(plan, d, s, u) THEN Needed(u) ELSE 0
    BY DEF Counted, SeatsIn, Needed
  <2>6. CASE TaskDue(plan, d, s, u)
    <3>1. u \in Members(s)
      BY <2>6 DEF TaskDue, Members
    <3>2. Cardinality(people(u)) + row.unassigned[u] <= Needed(u)
      BY <2>2, <2>3, <2>4, <2>5, <2>6
    <3>. QED BY <2>2, <2>3, <3>1, <3>2
  <2>7. CASE ~TaskDue(plan, d, s, u)
    <3>1. Cardinality(people(u)) + row.unassigned[u] = 0
      BY <2>3, <2>4, <2>5, <2>7
    <3>. QED BY <2>2, <2>3, <3>1
  <2>. QED BY <2>6, <2>7
<1>3. t \in Members(s)
  <2>1. row.unassigned[t] \in Nat
    BY <1>1
  <2>2. Cardinality(people(t)) \in Nat
    BY <1>2
  <2>. HIDE DEF people
  <2>. QED BY <1>2, <2>1, <2>2
<1>4. /\ group \subseteq Members(s) /\ t \in group
      /\ \A u \in Members(s) : Mutual(u, t) => u \in group
  BY <1>3, GroupHolds
<1>5. group \subseteq Task /\ IsFiniteSet(group)
  <2>1. group \subseteq Task
    BY <1>4 DEF Members
  <2>2. IsFiniteSet(Task)
    BY PlansAssumption, FS_Interval DEF Task
  <2>. HIDE DEF group
  <2>. QED BY <2>1, <2>2, FS_Subset
<1>6. IsFiniteSet(Active) /\ Active \subseteq Worker /\ 0 \notin Active
  <2>1. IsFiniteSet(Worker) /\ 0 \notin Worker
    BY PlansAssumption, FS_Interval DEF Worker
  <2>2. Active \subseteq Worker
    BY DEF Active
  <2>. QED BY <2>1, <2>2, FS_Subset
\* Zero stands for the seat that was left.
<1>. DEFINE F == [u \in group |-> Needed(u)]
            A == [u \in group |-> IF u = t THEN people(u) \cup {0} ELSE people(u)]
<1>7. ASSUME NEW u \in group
      PROVE  IsFiniteSet(A[u]) /\ Cardinality(A[u]) <= F[u]
  <2>1. PICK P : P = people(u) /\ IsFiniteSet(P) /\ Cardinality(P) \in Nat
                 /\ Cardinality(P) + row.unassigned[u] <= Needed(u)
    BY <1>2, <1>5
  <2>2. row.unassigned[u] \in Nat /\ Needed(u) \in Nat
    BY <1>1, <1>2, <1>5
  <2>. HIDE DEF people, group
  <2>3. CASE u = t
    <3>1. A[u] = P \cup {0}
      BY <2>1, <2>3
    <3>0. /\ IsFiniteSet(P \cup {0})
          /\ Cardinality(P \cup {0}) = IF 0 \in P THEN Cardinality(P) ELSE Cardinality(P) + 1
      BY <2>1, FS_AddElement, Zenon
    <3>2. IsFiniteSet(P \cup {0}) /\ Cardinality(P \cup {0}) <= Cardinality(P) + 1
      BY <2>1, <3>0
    <3>3. Cardinality(P \cup {0}) \in Nat
      BY <3>2, FS_CardinalityType
    <3>4. Cardinality(P) + 1 <= Needed(u)
      BY <2>1, <2>2, <2>3
    <3>5. Cardinality(P \cup {0}) <= Needed(u)
      BY <2>1, <2>2, <3>2, <3>3, <3>4
    <3>. QED BY <3>1, <3>2, <3>5
  <2>4. CASE u # t
    <3>1. A[u] = P
      BY <2>1, <2>4
    <3>2. Cardinality(P) <= Needed(u)
      BY <2>1, <2>2
    <3>. QED BY <2>1, <3>1, <3>2
  <2>. QED BY <2>3, <2>4
<1>8. F \in [group -> Nat]
  <2>1. \A u \in group : Needed(u) \in Nat
    BY <1>2, <1>5
  <2>. HIDE DEF group
  <2>. QED BY <2>1
<1>9. Active \cup {0} \subseteq UNION {A[u] : u \in group}
  <2>1. 0 \in A[t]
    BY <1>4
  <2>2. ASSUME NEW w \in Active PROVE \E u \in group : w \in A[u]
    <3>1. PICK k \in DOMAIN list :
              /\ list[k].workerId = w
              /\ list[k].taskId = t \/ Engine!ConflictsIn(plan.tasks, list[k].taskId, t)
      BY DEF HeldOff
    <3>2. PICK u \in Task : u = list[k].taskId /\ k \in SeatsIn(list, u)
      BY <1>1, SeatsFinite
    <3>3. w \in people(u)
      BY <3>1, <3>2
    <3>4. u \in group
      <4>1. CASE u = t
        BY <1>4, <4>1
      <4>2. CASE u # t
        <5>1. Mutual(u, t)
          BY <3>1, <3>2, <4>2 DEF Engine!ConflictsIn, Mutual
        <5>2. Cardinality(people(u)) # 0
          BY <1>2, <3>3, FS_EmptySet
        <5>3. Cardinality(people(u)) \in Nat /\ row.unassigned[u] \in Nat
          BY <1>1, <1>2
        <5>4. Cardinality(people(u)) + row.unassigned[u] > 0
          BY <5>2, <5>3
        <5>5. u \in Members(s)
          BY <1>2, <5>4
        <5>. QED BY <1>4, <5>1, <5>5
      <4>. QED BY <4>1, <4>2
    <3>. QED BY <3>3, <3>4
  <2>. HIDE DEF A, group
  <2>. QED BY <1>4, <2>1, <2>2
<1>. HIDE DEF A, group
<1>10. PICK g : g = (CHOOSE f : Sums(f, F, group)) /\ Sums(g, F, group)
  BY <1>5, <1>8, SumsExist
<1>11. MapThenSumSet(Needed, group) = g[group]
  <2>1. (CHOOSE f : Sums(f, F, group))
          = (CHOOSE f : f = [x \in SUBSET group |->
                               IF x = {} THEN 0
                               ELSE LET y == CHOOSE z \in x : TRUE IN Needed(y) + f[x \ {y}]])
    <3>. DEFINE Part(f, x) == IF x = {} THEN 0
                              ELSE LET y == CHOOSE z \in x : TRUE IN Needed(y) + f[x \ {y}]
                FPart(f, x) == IF x = {} THEN 0
                               ELSE LET y == CHOOSE z \in x : TRUE IN F[y] + f[x \ {y}]
    <3>0. ASSUME NEW f, NEW x \in SUBSET group PROVE FPart(f, x) = Part(f, x)
      <4>1. CASE x = {}
        BY <4>1
      <4>2. CASE x # {}
        <5>1. (CHOOSE z \in x : TRUE) \in group
          BY <4>2
        <5>. QED BY <4>2, <5>1
      <4>. QED BY <4>1, <4>2
    <3>. HIDE DEF Part, FPart
    <3>1. \A f : [x \in SUBSET group |-> FPart(f, x)] = [x \in SUBSET group |-> Part(f, x)]
      BY <3>0
    <3>2. (CHOOSE f : f = [x \in SUBSET group |-> FPart(f, x)])
            = (CHOOSE f : f = [x \in SUBSET group |-> Part(f, x)])
      BY <3>1, Zenon
    <3>. QED BY <3>2, Zenon DEF Sums, Part, FPart
  <2>. QED BY <1>10, <2>1, Zenon DEF MapThenSumSet, MapThenFoldSet
<1>. HIDE DEF F
<1>12. /\ g[group] \in Nat
       /\ IsFiniteSet(UNION {A[u] : u \in group})
       /\ Cardinality(UNION {A[u] : u \in group}) <= g[group]
  <2>1. \A u \in group : IsFiniteSet(A[u]) /\ Cardinality(A[u]) <= F[u]
    BY <1>7
  <2>2. IsFiniteSet(group) /\ F \in [group -> Nat] /\ Sums(g, F, group)
    BY <1>5, <1>8, <1>10
  <2>. QED BY <2>1, <2>2, SumBounds, Zenon
<1>13. /\ Cardinality(Active \cup {0}) = Cardinality(Active) + 1
       /\ Cardinality(Active) \in Nat
  BY <1>6, FS_AddElement, FS_CardinalityType
<1>14. /\ Cardinality(Active \cup {0}) <= Cardinality(UNION {A[u] : u \in group})
       /\ Cardinality(UNION {A[u] : u \in group}) \in Nat
  BY <1>9, <1>12, FS_Subset, FS_CardinalityType
<1>15. IsShort(group)
  BY <1>11, <1>12, <1>13, <1>14 DEF IsShort
<1>. QED BY <1>3, <1>15 DEF group

\* Whatever the plan, a seat left open on a day with every active worker there
\* was announced: the validator has warned of its conflict group (validate,
\* conflictComponents, assignTaskSet).
THEOREM ShortagesWarned == ShowSpec => []ShortageIsWarned
<1>1. ShowInv /\ RowsHeldOff => ShortageIsWarned
  <2>. SUFFICES ASSUME ShowInv, RowsHeldOff, date # 0, ~plan.crossSetConflicts,
                       Range(available) = Active,
                       NEW row \in Range(rows), NEW t \in Task,
                       row.unassigned[t] > 0, row.taskSet \in plan.taskSets
                PROVE  <<"group short of people",
                         <<row.taskSet, ConflictComponent(row.taskSet, t)>>>> \in Warnings
    BY Zenon DEF ShortageIsWarned
  <2>1. IsPlan(plan) /\ rows \in Seq(Row)
    BY DEF ShowInv, DayInv, DayTypes
  <2>2. PICK i \in 1 .. Len(rows) : row = rows[i]
    BY <2>1, SequenceAt DEF Range
  <2>3. row \in Row
    BY <2>1, <2>2, SequenceAt
  <2>4. Counted(plan, date, row) /\ HeldOff(plan, available, row)
    BY <2>2 DEF ShowInv, RecordInv, RowsCounted, RowsHeldOff
  <2>5. t \in Members(row.taskSet) /\ IsShort(ConflictComponent(row.taskSet, t))
    BY <2>1, <2>3, <2>4, GroupIsShort
  <2>6. <<row.taskSet, ConflictComponent(row.taskSet, t)>> \in ShortGroups
    <3>. DEFINE groups == {ConflictComponent(row.taskSet, u) : u \in Members(row.taskSet)}
    <3>1. ConflictComponent(row.taskSet, t) \in {g \in groups : IsShort(g)}
      BY <2>5
    <3>2. <<row.taskSet, ConflictComponent(row.taskSet, t)>>
             \in About(row.taskSet, {g \in groups : IsShort(g)})
      BY <3>1, Zenon DEF About
    <3>. QED BY <3>2 DEF ShortGroups
  <2>. QED BY <2>6, Zenon DEF Warnings, About
<1>2. Init => RowsHeldOff
  BY DEF Init, RowsHeldOff
<1>3. ShowInv /\ RowsHeldOff /\ [Next \/ Between]_vars => RowsHeldOff'
  BY HeldOffStep, Zenon DEF ShowInv
<1>. QED BY <1>1, <1>2, <1>3, ShowInductive, PTL DEF ShowSpec

===============================================================================
