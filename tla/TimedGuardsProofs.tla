-------------------------- MODULE TimedGuardsProofs --------------------------
(* Proofs about TimedGuards for any set of threads and any set of mutexes.    *)
EXTENDS TimedGuards, WellFoundedInduction, TLAPS

(* A thread owns exactly the mutexes of the guard it is constructing, using   *)
(* or destroying, from lock to unlock; holder_ names it from assignment to    *)
(* unassignment; only a double guard is in the code for the second mutex.     *)
OwnerInv ==
    \A t \in Threads, m \in Mutexes :
        owner[m] = t <=> \/ pc[t] \in HasFirst /\ m = First(t)
                         \/ pc[t] \in HasSecond /\ m = Second(t)
HolderInv ==
    \A t \in Threads, m \in Mutexes :
        holder[m] = t <=> \/ pc[t] \in NamedFirst /\ m = First(t)
                          \/ pc[t] \in NamedSecond /\ m = Second(t)
DoubleInv ==
    \A t \in Threads :
        pc[t] \in {"lock2", "assign2", "unassign2", "unlock2"} => double[t]

IInv == TypeOK /\ OwnerInv /\ HolderInv /\ DoubleInv

USE NoThreadAssumption, AddressAssumption

(* The order of a guard's mutexes: they are the arguments, the first below    *)
(* the second unless there is only one.                                       *)
LEMMA OrderFacts ==
    ASSUME TypeOK, NEW t \in Threads
    PROVE  /\ First(t) \in Mutexes /\ Second(t) \in Mutexes
           /\ First(t) \in Nat /\ Second(t) \in Nat
           /\ double[t] => First(t) < Second(t)
           /\ ~double[t] => First(t) = Second(t)
           /\ lhs[t] \in {First(t), Second(t)}
           /\ rhs[t] \in {First(t), Second(t)}
<1>1. lhs[t] \in Mutexes /\ rhs[t] \in Mutexes
  BY DEF TypeOK
<1>2. lhs[t] \in Nat /\ rhs[t] \in Nat
  <2>1. \A m \in Mutexes : m \in Nat
    OBVIOUS
  <2>2. QED  BY <1>1, <2>1
<1>3. CASE lhs[t] < rhs[t]
  BY <1>1, <1>2, <1>3 DEF First, Second, Order, TypeOK
<1>4. CASE ~(lhs[t] < rhs[t])
  BY <1>1, <1>2, <1>4 DEF First, Second, Order, TypeOK
<1>5. QED  BY <1>3, <1>4

(* A step that leaves the arguments alone leaves the order alone.             *)
LEMMA OrderStays ==
    ASSUME UNCHANGED <<lhs, rhs, double>>
    PROVE  \A t : First(t)' = First(t) /\ Second(t)' = Second(t)
                  /\ (double'[t] <=> double[t])
BY DEF First, Second, Order

LEMMA InitInv == Init => IInv
<1> SUFFICES ASSUME Init PROVE IInv
  OBVIOUS
<1> PICK m0 \in Mutexes : lhs = [t \in Threads |-> m0]
  BY DEF Init
<1>1. TypeOK
  BY DEF Init, TypeOK, Labels
<1>2. \A t \in Threads, m \in Mutexes : owner[m] # t /\ holder[m] # t
  BY DEF Init
<1>3. \A t \in Threads : pc[t] = "idle"
  BY DEF Init
<1>4. QED  BY <1>1, <1>2, <1>3 DEF IInv, OwnerInv, HolderInv, DoubleInv,
                                 HasFirst, HasSecond, NamedFirst, NamedSecond

LEMMA TakeInv ==
    ASSUME IInv, NEW t \in Threads, NEW l \in Mutexes, NEW r \in Mutexes,
           pc[t] = "idle",
           lhs' = [lhs EXCEPT ![t] = l], rhs' = [rhs EXCEPT ![t] = r],
           double' = [double EXCEPT ![t] = (l # r)],
           Goto(t, "lock1"), UNCHANGED <<owner, holder, aborted>>
    PROVE  IInv'
<1> USE DEF IInv, Goto
<1>1. TypeOK'
  BY DEF TypeOK, Labels
<1>2. \A u \in Threads \ {t} : /\ First(u)' = First(u) /\ Second(u)' = Second(u)
                               /\ double'[u] <=> double[u] /\ pc'[u] = pc[u]
  BY DEF TypeOK, First, Second, Order
<1>3. pc'[t] = "lock1"
  BY DEF TypeOK
<1>4. \A m \in Mutexes : owner[m] # t /\ holder[m] # t
  BY DEF OwnerInv, HolderInv, HasFirst, HasSecond, NamedFirst, NamedSecond
<1>5. OwnerInv'
  BY <1>2, <1>3, <1>4 DEF OwnerInv, HasFirst, HasSecond
<1>6. HolderInv'
  <2> SUFFICES ASSUME NEW u \in Threads, NEW m \in Mutexes
               PROVE  (holder[m] = u <=> \/ pc[u] \in NamedFirst /\ m = First(u)
                                         \/ pc[u] \in NamedSecond /\ m = Second(u))'
    BY DEF HolderInv
  <2>1. CASE u = t
    BY <1>3, <1>4, <2>1 DEF NamedFirst, NamedSecond
  <2>2. CASE u # t
    BY <1>2, <2>2 DEF HolderInv
  <2>3. QED  BY <2>1, <2>2
<1>7. DoubleInv'
  BY <1>2, <1>3 DEF DoubleInv
<1>8. QED  BY <1>1, <1>5, <1>6, <1>7

LEMMA StepInv ==
    ASSUME IInv, NEW t \in Threads, GuardStep(t)
    PROVE  IInv'
<1> USE DEF IInv, Goto
<1>0. TypeOK
  OBVIOUS
<1> DEFINE f == First(t)
           s == Second(t)
<1>1. /\ f \in Mutexes /\ s \in Mutexes /\ f \in Nat /\ s \in Nat
      /\ double[t] => f < s
      /\ ~double[t] => f = s
  BY <1>0, OrderFacts
<1>2. UNCHANGED <<lhs, rhs, double>>
  BY DEF GuardStep, Lock1, Assign1, Lock2, Assign2, Leave, Unassign2, Unlock2,
         Unassign1, Unlock1
<1>3. \A u : First(u)' = First(u) /\ Second(u)' = Second(u)
  BY <1>2, OrderStays
<1>T. /\ pc \in [Threads -> Labels]
      /\ owner \in [Mutexes -> Threads \cup {NoThread}]
      /\ holder \in [Mutexes -> Threads \cup {NoThread}]
  BY DEF TypeOK
<1>4. double[t] => f # s
  BY <1>1
<1> HIDE DEF f, s
<1> DEFINE Kept(u) == pc'[u] = pc[u]
<1>5. CASE Lock1(t)
  <2>1. /\ pc[t] = "lock1" /\ pc' = [pc EXCEPT ![t] = "assign1"]
        /\ owner[f] = NoThread /\ owner' = [owner EXCEPT ![f] = t]
        /\ holder' = holder /\ aborted' = aborted
    BY <1>5 DEF Lock1, f
  <2>2. TypeOK'
    BY <1>1, <1>2, <2>1 DEF TypeOK, Labels, HasFirst
  <2>3. OwnerInv'
    BY <1>T, <1>1, <1>3, <2>1 DEF OwnerInv, HasFirst, HasSecond, f, s
  <2>4. HolderInv'
    BY <1>T, <1>1, <1>3, <2>1 DEF HolderInv, NamedFirst, NamedSecond, f, s
  <2>5. DoubleInv'
    BY <1>T, <1>2, <2>1 DEF DoubleInv
  <2>6. QED  BY <2>2, <2>3, <2>4, <2>5
<1>6. CASE Assign1(t)
  <2>1. /\ pc[t] = "assign1" /\ pc' = [pc EXCEPT ![t] = IF double[t] THEN "lock2" ELSE "inside"]
        /\ holder' = [holder EXCEPT ![f] = t]
        /\ owner' = owner /\ aborted' = aborted
    BY <1>6 DEF Assign1, f
  <2>2. TypeOK'
    BY <1>1, <1>2, <2>1 DEF TypeOK, Labels, HasFirst
  <2>3. OwnerInv'
    BY <1>T, <1>1, <1>3, <2>1 DEF OwnerInv, HasFirst, HasSecond, f, s
  <2>4. owner[f] = t
    BY <1>1, <2>1 DEF OwnerInv, HasFirst, f
  <2>5. \A u \in Threads \ {t} : holder[f] # u
    BY <1>1, <2>4 DEF OwnerInv, HolderInv, HasFirst, HasSecond, NamedFirst, NamedSecond
  <2>6. HolderInv'
    BY <1>T, <1>1, <1>3, <2>1, <2>5 DEF HolderInv, NamedFirst, NamedSecond, f, s
  <2>7. DoubleInv'
    BY <1>T, <1>2, <2>1 DEF DoubleInv
  <2>8. QED  BY <2>2, <2>3, <2>6, <2>7
<1>7. CASE Lock2(t)
  <2>1. /\ pc[t] = "lock2" /\ pc' = [pc EXCEPT ![t] = "assign2"]
        /\ owner[s] = NoThread /\ owner' = [owner EXCEPT ![s] = t]
        /\ holder' = holder /\ aborted' = aborted
    BY <1>7 DEF Lock2, s
  <2>2. TypeOK'
    BY <1>1, <1>2, <2>1 DEF TypeOK, Labels, HasFirst
  <2>3. OwnerInv'
    BY <1>T, <1>1, <1>3, <2>1 DEF OwnerInv, HasFirst, HasSecond, f, s
  <2>4. HolderInv'
    BY <1>T, <1>1, <1>3, <2>1 DEF HolderInv, NamedFirst, NamedSecond, f, s
  <2>5. DoubleInv'
    BY <1>T, <1>2, <2>1 DEF DoubleInv
  <2>6. QED  BY <2>2, <2>3, <2>4, <2>5
<1>8. CASE Assign2(t)
  <2>1. /\ pc[t] = "assign2" /\ pc' = [pc EXCEPT ![t] = "inside"]
        /\ holder' = [holder EXCEPT ![s] = t]
        /\ owner' = owner /\ aborted' = aborted
    BY <1>8 DEF Assign2, s
  <2>2. TypeOK'
    BY <1>1, <1>2, <2>1 DEF TypeOK, Labels, HasFirst
  <2>3. OwnerInv'
    BY <1>T, <1>1, <1>3, <2>1 DEF OwnerInv, HasFirst, HasSecond, f, s
  <2>4. owner[s] = t
    BY <1>1, <2>1 DEF OwnerInv, HasSecond, s
  <2>5. \A u \in Threads \ {t} : holder[s] # u
    BY <1>1, <2>4 DEF OwnerInv, HolderInv, HasFirst, HasSecond, NamedFirst, NamedSecond
  <2>6. HolderInv'
    BY <1>T, <1>1, <1>3, <2>1, <2>5 DEF HolderInv, NamedFirst, NamedSecond, f, s
  <2>7. DoubleInv'
    BY <1>T, <1>2, <2>1 DEF DoubleInv
  <2>8. QED  BY <2>2, <2>3, <2>6, <2>7
<1>9. CASE Leave(t)
  <2>1. /\ pc[t] = "inside"
        /\ pc' = [pc EXCEPT ![t] = IF double[t] THEN "unassign2" ELSE "unassign1"]
        /\ owner' = owner /\ holder' = holder /\ aborted' = aborted
    BY <1>9 DEF Leave
  <2>2. TypeOK'
    BY <1>1, <1>2, <2>1 DEF TypeOK, Labels, HasFirst
  <2>3. OwnerInv'
    BY <1>T, <1>1, <1>3, <2>1 DEF OwnerInv, HasFirst, HasSecond, f, s
  <2>4. HolderInv'
    BY <1>T, <1>1, <1>3, <2>1 DEF HolderInv, NamedFirst, NamedSecond, f, s
  <2>5. DoubleInv'
    BY <1>T, <1>2, <2>1 DEF DoubleInv
  <2>6. QED  BY <2>2, <2>3, <2>4, <2>5
<1>10. CASE Unassign2(t)
  <2>1. /\ pc[t] = "unassign2" /\ pc' = [pc EXCEPT ![t] = "unlock2"]
        /\ holder' = [holder EXCEPT ![s] = NoThread]
        /\ owner' = owner /\ aborted' = aborted
    BY <1>10 DEF Unassign2, s
  <2>2. TypeOK'
    BY <1>1, <1>2, <2>1 DEF TypeOK, Labels, HasFirst
  <2>3. OwnerInv'
    BY <1>T, <1>1, <1>3, <2>1 DEF OwnerInv, HasFirst, HasSecond, f, s
  <2>4. f # s
    BY <1>4, <2>1 DEF DoubleInv
  <2>5. holder[s] = t
    BY <1>1, <2>1 DEF HolderInv, NamedSecond, s
  <2>6. HolderInv'
    BY <1>T, <1>1, <1>3, <2>1, <2>4, <2>5 DEF HolderInv, NamedFirst, NamedSecond, f, s
  <2>7. DoubleInv'
    BY <1>T, <1>2, <2>1 DEF DoubleInv
  <2>8. QED  BY <2>2, <2>3, <2>6, <2>7
<1>11. CASE Unlock2(t)
  <2>1. /\ pc[t] = "unlock2" /\ pc' = [pc EXCEPT ![t] = "unassign1"]
        /\ owner' = [owner EXCEPT ![s] = NoThread]
        /\ holder' = holder /\ aborted' = aborted
    BY <1>11 DEF Unlock2, s
  <2>2. TypeOK'
    BY <1>1, <1>2, <2>1 DEF TypeOK, Labels, HasFirst
  <2>3. f # s
    BY <1>4, <2>1 DEF DoubleInv
  <2>4. owner[s] = t
    BY <1>1, <2>1 DEF OwnerInv, HasSecond, s
  <2>5. OwnerInv'
    BY <1>T, <1>1, <1>3, <2>1, <2>3, <2>4 DEF OwnerInv, HasFirst, HasSecond, f, s
  <2>6. HolderInv'
    BY <1>T, <1>1, <1>3, <2>1 DEF HolderInv, NamedFirst, NamedSecond, f, s
  <2>7. DoubleInv'
    BY <1>T, <1>2, <2>1 DEF DoubleInv
  <2>8. QED  BY <2>2, <2>5, <2>6, <2>7
<1>12. CASE Unassign1(t)
  <2>1. /\ pc[t] = "unassign1" /\ pc' = [pc EXCEPT ![t] = "unlock1"]
        /\ holder' = [holder EXCEPT ![f] = NoThread]
        /\ owner' = owner /\ aborted' = aborted
    BY <1>12 DEF Unassign1, f
  <2>2. TypeOK'
    BY <1>1, <1>2, <2>1 DEF TypeOK, Labels, HasFirst
  <2>3. OwnerInv'
    BY <1>T, <1>1, <1>3, <2>1 DEF OwnerInv, HasFirst, HasSecond, f, s
  <2>4. holder[f] = t
    BY <1>1, <2>1 DEF HolderInv, NamedFirst, f
  <2>5. HolderInv'
    BY <1>T, <1>1, <1>3, <2>1, <2>4 DEF HolderInv, NamedFirst, NamedSecond, f, s
  <2>6. DoubleInv'
    BY <1>T, <1>2, <2>1 DEF DoubleInv
  <2>7. QED  BY <2>2, <2>3, <2>5, <2>6
<1>13. CASE Unlock1(t)
  <2>1. /\ pc[t] = "unlock1" /\ pc' = [pc EXCEPT ![t] = "idle"]
        /\ owner' = [owner EXCEPT ![f] = NoThread]
        /\ holder' = holder /\ aborted' = aborted
    BY <1>13 DEF Unlock1, f
  <2>2. TypeOK'
    BY <1>1, <1>2, <2>1 DEF TypeOK, Labels, HasFirst
  <2>3. owner[f] = t
    BY <1>1, <2>1 DEF OwnerInv, HasFirst, f
  <2>4. OwnerInv'
    BY <1>T, <1>1, <1>3, <2>1, <2>3 DEF OwnerInv, HasFirst, HasSecond, f, s
  <2>5. HolderInv'
    BY <1>T, <1>1, <1>3, <2>1 DEF HolderInv, NamedFirst, NamedSecond, f, s
  <2>6. DoubleInv'
    BY <1>T, <1>2, <2>1 DEF DoubleInv
  <2>7. QED  BY <2>2, <2>4, <2>5, <2>6
<1>14. QED  BY <1>5, <1>6, <1>7, <1>8, <1>9, <1>10, <1>11, <1>12, <1>13 DEF GuardStep

LEMMA NextInv == IInv /\ [Next]_vars => IInv'
<1> SUFFICES ASSUME IInv, [Next]_vars PROVE IInv'
  OBVIOUS
<1>1. ASSUME NEW t \in Threads, NEW m \in Mutexes, TakeOne(t, m) PROVE IInv'
  BY <1>1, TakeInv DEF TakeOne
<1>2. ASSUME NEW t \in Threads, NEW l \in Mutexes, NEW r \in Mutexes, TakeTwo(t, l, r)
      PROVE  IInv'
  BY <1>2, TakeInv DEF TakeTwo
<1>3. ASSUME aborted' \in BOOLEAN, UNCHANGED <<owner, holder, pc, lhs, rhs, double>>
      PROVE  IInv'
  BY <1>3, OrderStays DEF IInv, TypeOK, OwnerInv, HolderInv, DoubleInv
<1>4. ASSUME NEW t \in Threads, TakeTwice(t) \/ TimesOut(t) PROVE IInv'
  BY <1>3, <1>4 DEF TakeTwice, TimesOut
<1>5. ASSUME UNCHANGED vars PROVE IInv'
  BY <1>3, <1>5 DEF vars, IInv, TypeOK
<1>6. QED  BY <1>1, <1>2, <1>4, <1>5, StepInv DEF Next

LEMMA SpecInv == Spec => []IInv
BY InitInv, NextInv, PTL DEF Spec
-----------------------------------------------------------------------------
(* Every variable of the guards keeps its type.                               *)
THEOREM GuardTypes == Spec => []TypeOK
<1>1. IInv => TypeOK
  BY DEF IInv
<1>2. QED  BY <1>1, SpecInv, PTL

(* For any number of threads and mutexes a guard protects its scope: both     *)
(* mutexes owned and named inside (lines 175-212), neither afterwards.        *)
THEOREM GuardCorrect == Spec => []GuardProtects
<1>1. ASSUME IInv PROVE GuardProtects
  <2> USE <1>1 DEF IInv
  <2>1. ASSUME NEW t \in Threads, pc[t] = "inside", NEW m \in {lhs[t], rhs[t]}
        PROVE  owner[m] = t /\ holder[m] = t
    <3>1. m \in {First(t), Second(t)} /\ m \in Mutexes
      BY <2>1, OrderFacts DEF TypeOK
    <3>2. QED  BY <2>1, <3>1 DEF OwnerInv, HolderInv, HasFirst, HasSecond,
                                 NamedFirst, NamedSecond
  <2>2. ASSUME NEW t \in Threads, NEW m \in Mutexes, pc[t] = "idle" PROVE owner[m] # t
    BY <2>2 DEF OwnerInv, HasFirst, HasSecond
  <2>3. ASSUME NEW m \in Mutexes, holder[m] # NoThread PROVE holder[m] = owner[m]
    <3>1. holder[m] \in Threads
      BY <2>3 DEF TypeOK
    <3>2. PICK h \in Threads : h = holder[m]
      BY <3>1
    <3>3. \/ pc[h] \in NamedFirst /\ m = First(h)
          \/ pc[h] \in NamedSecond /\ m = Second(h)
      BY <3>2 DEF HolderInv
    <3>4. owner[m] = h
      BY <3>3 DEF OwnerInv, HasFirst, HasSecond, NamedFirst, NamedSecond
    <3>5. QED  BY <3>2, <3>4
  <2>4. QED  BY <2>1, <2>2, <2>3 DEF GuardProtects
<1>2. QED  BY <1>1, SpecInv, PTL

(* A non-empty set of addresses has a highest one.                            *)
LEMMA HighestAddress ==
    ASSUME NEW A \in SUBSET Mutexes, A # {}
    PROVE  \E a \in A : \A b \in A : b <= a
<1> DEFINE R == {ss \in Nat \X Nat : ss[1] < ss[2]}
           T == {n \in 0..TopAddress : TopAddress - n \in A}
<1>1. IsWellFoundedOn(R, Nat)
  BY NatLessThanWellFounded DEF OpToRel
<1>2. T \subseteq Nat
  OBVIOUS
<1>3. T # {}
  <2>1. PICK a \in A : TRUE
    OBVIOUS
  <2>2. a \in Nat /\ TopAddress \in Nat /\ a <= TopAddress
    BY <2>1
  <2>3. TopAddress - a \in 0..TopAddress /\ TopAddress - (TopAddress - a) = a
    BY <2>2
  <2>4. QED  BY <2>1, <2>3
<1>4. PICK n \in T : \A k \in T : ~(<<k, n>> \in R)
  <2> HIDE DEF R, T
  <2>1. QED  BY <1>1, <1>2, <1>3, WFMin
<1>5. \A k \in T : ~(k < n)
  BY <1>2, <1>4
<1>6. SUFFICES ASSUME NEW b \in A PROVE b <= TopAddress - n
  OBVIOUS
<1>7. b \in Nat /\ b <= TopAddress /\ n \in Nat /\ TopAddress \in Nat
  OBVIOUS
<1>8. TopAddress - b \in 0..TopAddress /\ TopAddress - (TopAddress - b) = b
  BY <1>7
<1>9. TopAddress - b \in T
  BY <1>8
<1>10. ~(TopAddress - b < n)
  BY <1>5, <1>9
<1>11. QED  BY <1>7, <1>8, <1>10

(* For any number of threads and mutexes, no threads wait for each other in a *)
(* circle (lines 178-188): of the threads of a circle, the one that waits for *)
(* the highest address waits for a mutex whose owner waits for a higher one.  *)
THEOREM CycleFree == Spec => []NoCircularWait
<1>1. ASSUME IInv, NEW S \in (SUBSET Threads) \ {{}},
             \A t \in S : Waits(t) /\ owner[Wanted(t)] \in S
      PROVE  FALSE
  <2> USE <1>1 DEF IInv
  <2> DEFINE A == {Wanted(t) : t \in S}
  <2>1. \A t \in S : Wanted(t) \in Mutexes
    BY OrderFacts DEF Wanted
  <2>2. A \in SUBSET Mutexes /\ A # {}
    BY <2>1
  <2>3. PICK a \in A : \A b \in A : b <= a
    <3> HIDE DEF A
    <3>1. QED  BY <2>2, HighestAddress
  <2>4. PICK t \in S : a = Wanted(t)
    BY <2>3
  <2>5. PICK u \in S : u = owner[a]
    BY <2>4
  <2>6. u \in Threads /\ a \in Mutexes /\ Waits(u)
    BY <2>1, <2>4, <2>5
  <2>7. pc[u] = "lock2" /\ a = First(u)
    BY <2>5, <2>6 DEF OwnerInv, Waits, HasFirst, HasSecond
  <2>8. a < Second(u)
    BY <2>6, <2>7, OrderFacts DEF DoubleInv
  <2>9. Wanted(u) = Second(u) /\ Wanted(u) \in A
    BY <2>5, <2>7 DEF Wanted
  <2>10. Second(u) <= a /\ Second(u) \in Nat /\ a \in Nat
    BY <2>3, <2>6, <2>7, <2>9, OrderFacts
  <2>11. QED  BY <2>8, <2>10
<1>2. IInv => NoCircularWait
  BY <1>1 DEF NoCircularWait
<1>3. QED  BY <1>2, SpecInv, PTL

=============================================================================
