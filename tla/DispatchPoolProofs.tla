------------------------- MODULE DispatchPoolProofs -------------------------
(***************************************************************************)
(* Theorems about DispatchPool for every finite set of callers, every max  *)
(* and every queue depth.                                                  *)
(***************************************************************************)
EXTENDS DispatchPool, FiniteSetTheorems, TLAPS

(* Taking the entry at i out of a queue leaves a queue.                    *)
LEMMA RemoveAtType ==
    ASSUME NEW S, NEW s \in Seq(S), NEW i \in DOMAIN s
    PROVE  RemoveAt(s, i) \in Seq(S)
<1>1. i \in 1 .. Len(s) /\ Len(s) \in Nat
    OBVIOUS
<1>2. SubSeq(s, 1, i - 1) \in Seq(S)
    <2>1. \A k \in 1 .. i - 1 : s[k] \in S
        BY <1>1
    <2>2. QED
        BY <1>1, <2>1
<1>3. SubSeq(s, i + 1, Len(s)) \in Seq(S)
    <2>1. \A k \in i + 1 .. Len(s) : s[k] \in S
        BY <1>1
    <2>2. QED
        BY <1>1, <2>1
<1>4. QED
    BY <1>2, <1>3 DEF RemoveAt

(* The fields keep their types: in particular release, which guards its    *)
(* decrement, and WaitPop, which shortens the heap, stay within them.      *)
THEOREM TypeCorrect == Spec => []TypeOK
<1>1. Init => TypeOK
    BY DEF Init, TypeOK, Phase
<1>2. TypeOK /\ [Next]_vars => TypeOK'
    <2> SUFFICES ASSUME TypeOK, [Next]_vars
                 PROVE  TypeOK'
        OBVIOUS
    <2>1. ASSUME NEW c \in Caller, TryAcquireGranted(c)
          PROVE  TypeOK'
        BY <2>1 DEF TypeOK, TryAcquireGranted, Phase
    <2>2. ASSUME NEW c \in Caller, NEW rank \in Ranks, TryAcquireQueued(c, rank)
          PROVE  TypeOK'
        <3>1. [task |-> c, rank |-> rank] \in QueuedDispatch
            BY DEF QueuedDispatch
        <3>2. queue' \in Seq(QueuedDispatch)
            BY <2>2, <3>1 DEF TypeOK, TryAcquireQueued
        <3>3. QED
            BY <2>2, <3>2 DEF TypeOK, TryAcquireQueued
    <2>3. ASSUME NEW c \in Caller, DropPermit(c)
          PROVE  TypeOK'
        BY <2>3 DEF TypeOK, DropPermit, Phase
    <2>4. ASSUME NEW c \in Caller, ReleaseSlot(c)
          PROVE  TypeOK'
        BY <2>4 DEF TypeOK, ReleaseSlot, Phase
    <2>5. ASSUME NEW c \in Caller, NotifyWaiters(c)
          PROVE  TypeOK'
        BY <2>5 DEF TypeOK, NotifyWaiters, Registered, Phase
    <2>6. ASSUME NEW c \in Caller, WaitRegister(c)
          PROVE  TypeOK'
        BY <2>6 DEF TypeOK, WaitRegister, Phase
    <2>7. ASSUME NEW c \in Caller, WaitPop(c)
          PROVE  TypeOK'
        <3>1. PICK i \in DOMAIN queue : queue' = RemoveAt(queue, i)
            BY <2>7 DEF WaitPop
        <3>2. queue' \in Seq(QueuedDispatch)
            BY <3>1, RemoveAtType DEF TypeOK
        <3>3. QED
            BY <2>7, <3>2 DEF TypeOK, WaitPop, Phase
    <2>8. ASSUME NEW c \in Caller, WaitPark(c)
          PROVE  TypeOK'
        BY <2>8 DEF TypeOK, WaitPark, Phase
    <2>9. ASSUME NEW c \in Caller, WaitCheck(c)
          PROVE  TypeOK'
        BY <2>9 DEF TypeOK, WaitCheck, Phase
    <2>10. CASE UNCHANGED vars
        BY <2>10 DEF TypeOK, vars
    <2>11. QED
        BY <2>1, <2>2, <2>3, <2>4, <2>5, <2>6, <2>7, <2>8, <2>9, <2>10 DEF Next
<1>3. QED
    BY <1>1, <1>2, PTL DEF Spec

-----------------------------------------------------------------------------
(* Slots is a finite set, so that it can be counted.                       *)
LEMMA SlotsFinite == IsFiniteSet(Slots)
<1>1. Slots \in SUBSET Caller
    BY DEF Slots
<1>2. QED
    BY <1>1, FS_Subset, PoolAssumption

(* The steps of a caller that leave every slot where it is.                *)
Passes(c) == DropPermit(c) \/ NotifyWaiters(c) \/ WaitRegister(c)
                \/ WaitCheck(c) \/ WaitPark(c)

(* What each kind of step does to the set of slots, and with it to its     *)
(* cardinality: one caller comes in, one goes out, or nothing changes.     *)
LEMMA SlotsStep ==
    ASSUME TypeOK, NEW c \in Caller
    PROVE  /\ TryAcquireGranted(c) \/ WaitPop(c) =>
                  /\ c \notin Slots /\ Slots' = Slots \cup {c}
                  /\ Cardinality(Slots') = Cardinality(Slots) + 1
           /\ ReleaseSlot(c) =>
                  /\ c \in Slots /\ Slots' = Slots \ {c}
                  /\ Cardinality(Slots') = Cardinality(Slots) - 1
                  /\ Cardinality(Slots) > 0
           /\ Passes(c) => Slots' = Slots
<1>1. ASSUME TryAcquireGranted(c) \/ WaitPop(c)
      PROVE  c \notin Slots /\ Slots' = Slots \cup {c}
    BY <1>1 DEF TypeOK, Slots, TryAcquireGranted, WaitPop
<1>2. ASSUME ReleaseSlot(c)
      PROVE  c \in Slots /\ Slots' = Slots \ {c}
    BY <1>2 DEF TypeOK, Slots, ReleaseSlot
<1>3. ASSUME Passes(c)
      PROVE  Slots' = Slots
    BY <1>3 DEF TypeOK, Slots, Passes, DropPermit, NotifyWaiters, WaitRegister,
                WaitCheck, WaitPark
<1>4. Cardinality(Slots) \in Nat /\ (Cardinality(Slots) = 0 <=> Slots = {})
    BY SlotsFinite, FS_CardinalityType, FS_EmptySet
<1>5. ASSUME c \notin Slots
      PROVE  Cardinality(Slots \cup {c}) = Cardinality(Slots) + 1
    BY <1>5, SlotsFinite, FS_AddElement
<1>6. ASSUME c \in Slots
      PROVE  Cardinality(Slots \ {c}) = Cardinality(Slots) - 1 /\ Cardinality(Slots) > 0
    <2>1. Cardinality(Slots \ {c}) = Cardinality(Slots) - 1
        BY <1>6, SlotsFinite, FS_RemoveElement
    <2>2. Slots # {}
        BY <1>6
    <2>3. Cardinality(Slots) > 0
        BY <1>4, <2>2
    <2>4. QED
        BY <2>1, <2>3
<1>7. QED
    BY <1>1, <1>2, <1>3, <1>5, <1>6

(* The counter of the pool is the number of callers that own a slot, and   *)
(* stays within max, whatever permits are dropped and waiters served.      *)
THEOREM SlotAccounting == Spec => []SlotsAccounted
<1> DEFINE IInv == TypeOK /\ SlotsAccounted
<1>1. Init => SlotsAccounted
    <2> SUFFICES ASSUME Init PROVE SlotsAccounted
        OBVIOUS
    <2>1. Slots = {}
        BY DEF Init, Slots
    <2>2. QED
        BY <2>1, FS_EmptySet, PoolAssumption DEF Init, SlotsAccounted
<1>2. TypeOK /\ SlotsAccounted /\ [Next]_vars => SlotsAccounted'
    <2> SUFFICES ASSUME TypeOK, SlotsAccounted, [Next]_vars
                 PROVE  SlotsAccounted'
        OBVIOUS
    <2>0. MaxActive \in Nat /\ active \in Nat
        BY PoolAssumption DEF TypeOK
    <2>1. ASSUME NEW c \in Caller, TryAcquireGranted(c) \/ WaitPop(c)
          PROVE  SlotsAccounted'
        <3>1. active' = active + 1 /\ active < MaxActive
            BY <2>1 DEF TryAcquireGranted, WaitPop
        <3>2. QED
            BY <2>0, <2>1, <3>1, SlotsStep DEF SlotsAccounted
    <2>2. ASSUME NEW c \in Caller, ReleaseSlot(c)
          PROVE  SlotsAccounted'
        <3>1. active' = active - 1
            BY <2>0, <2>2, SlotsStep DEF ReleaseSlot, SlotsAccounted
        <3>2. QED
            BY <2>0, <2>2, <3>1, SlotsStep DEF SlotsAccounted
    <2>3. ASSUME NEW c \in Caller, Passes(c)
          PROVE  SlotsAccounted'
        <3>1. active' = active
            BY <2>3 DEF Passes, DropPermit, NotifyWaiters, WaitRegister, WaitCheck, WaitPark
        <3>2. QED
            BY <2>3, <3>1, SlotsStep DEF SlotsAccounted
    <2>4. ASSUME NEW c \in Caller, NEW rank \in Ranks, TryAcquireQueued(c, rank)
          PROVE  SlotsAccounted'
        BY <2>4 DEF TryAcquireQueued, SlotsAccounted, Slots
    <2>5. CASE UNCHANGED vars
        BY <2>5 DEF vars, SlotsAccounted, Slots
    <2>6. QED
        BY <2>1, <2>2, <2>3, <2>4, <2>5 DEF Next, Passes
<1>3. QED
    BY <1>1, <1>2, TypeCorrect, PTL DEF Spec

-----------------------------------------------------------------------------
(* The comment of wait_next holds: no parked waiter misses a notification  *)
(* it should have had.                                                     *)
THEOREM NotificationsReachWaiters == Spec => []NoMissedNotification
<1>1. Init => NoMissedNotification
    BY DEF Init, NoMissedNotification
<1>2. TypeOK /\ NoMissedNotification /\ [Next]_vars => NoMissedNotification'
    <2> SUFFICES ASSUME TypeOK, NoMissedNotification, [Next]_vars,
                        NEW w \in Caller, phase'[w] \in {"checked", "parked"},
                        w \notin notified'
                 PROVE  (queue = <<>> \/ active >= MaxActive
                            \/ \E d \in Caller : phase[d] = "notifying")'
        BY DEF NoMissedNotification
    <2>0. MaxActive \in Nat /\ active \in Nat
        BY PoolAssumption DEF TypeOK
    <2>1. ASSUME NEW c \in Caller, TryAcquireGranted(c)
          PROVE  (queue = <<>> \/ active >= MaxActive
                    \/ \E d \in Caller : phase[d] = "notifying")'
        BY <2>0, <2>1 DEF TryAcquireGranted, NoMissedNotification, TypeOK
    <2>2. ASSUME NEW c \in Caller, NEW rank \in Ranks, TryAcquireQueued(c, rank)
          PROVE  active' >= MaxActive
        BY <2>0, <2>2 DEF TryAcquireQueued
    <2>3. ASSUME NEW c \in Caller, DropPermit(c)
          PROVE  (queue = <<>> \/ active >= MaxActive
                    \/ \E d \in Caller : phase[d] = "notifying")'
        BY <2>0, <2>3 DEF DropPermit, NoMissedNotification, TypeOK
    <2>4. ASSUME NEW c \in Caller, ReleaseSlot(c)
          PROVE  phase'[c] = "notifying"
        BY <2>4 DEF ReleaseSlot, TypeOK
    <2>5. ASSUME NEW c \in Caller, NotifyWaiters(c)
          PROVE  FALSE
        BY <2>5 DEF NotifyWaiters, Registered, TypeOK
    <2>6. ASSUME NEW c \in Caller, WaitRegister(c)
          PROVE  (queue = <<>> \/ active >= MaxActive
                    \/ \E d \in Caller : phase[d] = "notifying")'
        BY <2>6 DEF WaitRegister, NoMissedNotification, TypeOK
    <2>7. ASSUME NEW c \in Caller, WaitPop(c)
          PROVE  (queue = <<>> \/ active >= MaxActive
                    \/ \E d \in Caller : phase[d] = "notifying")'
        <3>1. phase[w] \in {"checked", "parked"} /\ w \notin notified /\ w # c
            BY <2>7 DEF WaitPop, TypeOK
        <3>2. queue # <<>>
            BY <2>7 DEF WaitPop
        <3>3. ~ (active >= MaxActive)
            BY <2>0, <2>7 DEF WaitPop
        <3>4. PICK d \in Caller : phase[d] = "notifying"
            BY <3>1, <3>2, <3>3 DEF NoMissedNotification
        <3>5. phase'[d] = "notifying"
            BY <2>7, <3>4 DEF WaitPop, TypeOK
        <3>6. QED
            BY <3>5
    <2>8. ASSUME NEW c \in Caller, WaitCheck(c)
          PROVE  (queue = <<>> \/ active >= MaxActive
                    \/ \E d \in Caller : phase[d] = "notifying")'
        <3>1. CASE w = c
            BY <2>0, <2>8, <3>1 DEF WaitCheck
        <3>2. CASE w # c
            BY <2>8, <3>2 DEF WaitCheck, NoMissedNotification, TypeOK
        <3>3. QED
            BY <3>1, <3>2
    <2>9. ASSUME NEW c \in Caller, WaitPark(c)
          PROVE  (queue = <<>> \/ active >= MaxActive
                    \/ \E d \in Caller : phase[d] = "notifying")'
        <3>1. phase[w] \in {"checked", "parked"} /\ w \notin notified
            BY <2>9 DEF WaitPark, TypeOK
        <3>2. QED
            BY <2>9, <3>1 DEF WaitPark, NoMissedNotification, TypeOK
    <2>10. CASE UNCHANGED vars
        BY <2>10 DEF vars, NoMissedNotification
    <2>11. QED
        BY <2>1, <2>2, <2>3, <2>4, <2>5, <2>6, <2>7, <2>8, <2>9, <2>10 DEF Next
<1>3. QED
    BY <1>1, <1>2, TypeCorrect, PTL DEF Spec

-----------------------------------------------------------------------------
(* The pool refines the budget: admission by a counter is admission by the *)
(* set of owners, and every other step is invisible to it.                 *)
THEOREM PoolKeepsBudget == Spec => KeepsBudget
<1>1. Init => Budget!Init
    BY DEF Init, Budget!Init, Slots
<1>2. TypeOK /\ SlotsAccounted /\ [Next]_vars => [Budget!Next]_Slots
    <2> SUFFICES ASSUME TypeOK, SlotsAccounted, [Next]_vars
                 PROVE  Budget!Next \/ Slots' = Slots
        OBVIOUS
    <2>1. ASSUME NEW c \in Caller, TryAcquireGranted(c) \/ WaitPop(c)
          PROVE  Budget!Take(c)
        <3>1. active < MaxActive
            BY <2>1 DEF TryAcquireGranted, WaitPop
        <3>2. Budget!Cardinality(Slots) = Cardinality(Slots)
            BY DEF Budget!Cardinality, Cardinality
        <3>3. QED
            BY <2>1, <3>1, <3>2, SlotsStep DEF SlotsAccounted, Budget!Take
    <2>2. ASSUME NEW c \in Caller, ReleaseSlot(c)
          PROVE  Budget!GiveBack(c)
        BY <2>2, SlotsStep DEF Budget!GiveBack
    <2>3. ASSUME NEW c \in Caller, Passes(c)
          PROVE  Slots' = Slots
        BY <2>3, SlotsStep
    <2>4. ASSUME NEW c \in Caller, NEW rank \in Ranks, TryAcquireQueued(c, rank)
          PROVE  Slots' = Slots
        BY <2>4 DEF TryAcquireQueued, Slots
    <2>5. CASE UNCHANGED vars
        BY <2>5 DEF vars, Slots
    <2>6. QED
        BY <2>1, <2>2, <2>3, <2>4, <2>5 DEF Next, Passes, Budget!Next
<1>3. QED
    BY <1>1, <1>2, TypeCorrect, SlotAccounting, PTL DEF Spec, KeepsBudget, Budget!Spec
=============================================================================
