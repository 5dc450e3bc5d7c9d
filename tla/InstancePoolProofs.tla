------------------------- MODULE InstancePoolProofs -------------------------
(***************************************************************************)
(* Theorems about InstancePool for every set of threads, pool size and     *)
(* bound.  Inv is the inductive invariant: the checked invariants alone do *)
(* not survive a step, because they say nothing of what a thread holds at  *)
(* each step of borrow() nor of the instances between two loans.  The last *)
(* part proves that the pool implements DecisionService: each step of a    *)
(* thread is one step of the service or none.                              *)
(***************************************************************************)
EXTENDS PoolRefinement, SequenceTheorems, FiniteSetTheorems, TLAPS

\* The steps at which a thread holds an instance, and holds nothing.
WithInstance == {"drop", "check", "reload", "loan", "release", "count",
                 "putBack", "closeInst", "drainClose"}
EmptyHanded  == {"idle", "get", "build", "construct", "drain", "wake"}

\* What a thread holds at each step.
SlotShape ==
    \A t \in Threads :
        /\ pc[t] \in WithInstance => slot[t] \in Instances
        /\ pc[t] \in EmptyHanded  => slot[t] = None
        /\ pc[t] = "putNone"      => slot[t] \in Instances \cup {None}
        /\ pc[t] = "repost"       => slot[t] \notin Instances

\* No tag runs ahead of the policy.
TagsBehind == \A i \in Instances : instVersion[i] <= version

\* Only a poisoned instance may hold another document than its tag says.
TagsHonest == \A i \in Instances : i \notin poisoned => instDoc[i] = instVersion[i]

\* Poisoned instances never circulate.
Quarantined ==
    /\ \A n \in DOMAIN idle : idle[n] \notin poisoned
    /\ \A t \in Threads :
           pc[t] \in {"drawn", "check", "reload", "loan", "putBack"} =>
               slot[t] \notin poisoned

\* Data seen by a thread: its snapshot is no older than its call, and newer
\* than the tag it is about to overwrite.
SnapshotsFresh ==
    \A t \in Threads :
        /\ start[t] <= version
        /\ snap[t] <= version
        /\ pc[t] = "reload" => start[t] <= snap[t] /\ instVersion[slot[t]] < snap[t]
        /\ pc[t] = "loan"   => start[t] <= instVersion[slot[t]]

\* What no step breaks, not even one cut short by an asynchronous exception
\* (PoolInterrupts) ...
Core == /\ TypeOK /\ SlotShape /\ ExclusiveLoan /\ HeldIsLive
        /\ TagsBehind /\ Quarantined /\ SnapshotsFresh

\* ... and what holds without such exceptions.
Inv == Core /\ TagsHonest

-----------------------------------------------------------------------------
(* The bounded queue *)

\* Queue.get: the head leaves and the rest moves up one place.
LEMMA QueueGet ==
    ASSUME NEW S, NEW q \in Seq(S), q # <<>>
    PROVE  /\ Head(q) = q[1] /\ Head(q) \in S
           /\ Tail(q) \in Seq(S) /\ Len(Tail(q)) = Len(q) - 1
           /\ DOMAIN q = 1..Len(q) /\ DOMAIN Tail(q) = 1..(Len(q) - 1)
           /\ Len(q) \in Nat \ {0}
           /\ \A n \in 1..(Len(q) - 1) : Tail(q)[n] = q[n + 1]
  BY HeadTailProperties, ElementOfSeq

\* Queue.put: the queue keeps its elements and gains one at the end.
LEMMA QueuePut ==
    ASSUME NEW S, NEW q \in Seq(S), NEW x \in S
    PROVE  /\ Append(q, x) \in Seq(S) /\ Len(Append(q, x)) = Len(q) + 1
           /\ DOMAIN q = 1..Len(q) /\ DOMAIN Append(q, x) = 1..(Len(q) + 1)
           /\ Len(q) \in Nat
           /\ \A n \in 1..Len(q) : Append(q, x)[n] = q[n]
           /\ Append(q, x)[Len(q) + 1] = x
  BY AppendProperties, LenProperties

\* put_nowait keeps the queue within its capacity; an element of the new queue
\* is the one put or an old one at the same place.
LEMMA PutBounded ==
    ASSUME idle \in Seq(Slots), Len(idle) <= MaxSize, NEW x \in Slots, PutNowait(x)
    PROVE  /\ idle' \in Seq(Slots) /\ Len(idle') <= MaxSize
           /\ DOMAIN idle = 1..Len(idle) /\ DOMAIN idle' = 1..Len(idle')
           /\ Len(idle) \in Nat /\ Len(idle') \in Nat
           /\ \A n \in DOMAIN idle' :
                  \/ n \in DOMAIN idle /\ idle'[n] = idle[n]
                  \/ n = Len(idle) + 1 /\ idle'[n] = x
  <1>1. CASE Len(idle) < MaxSize
    BY <1>1, QueuePut, PoolAssumption DEF PutNowait
  <1>2. CASE ~(Len(idle) < MaxSize)
    BY <1>2, LenProperties DEF PutNowait
  <1>. QED  BY <1>1, <1>2

\* A get moves every other element up one place.
LEMMA GetShifts ==
    ASSUME idle \in Seq(Slots), idle # <<>>, idle' = Tail(idle)
    PROVE  /\ 1 \in DOMAIN idle /\ Head(idle) = idle[1]
           /\ idle' \in Seq(Slots) /\ Len(idle') = Len(idle) - 1
           /\ \A n \in DOMAIN idle' :
                  n \in Int /\ n + 1 \in DOMAIN idle /\ n + 1 # 1
                  /\ idle'[n] = idle[n + 1]
  <1>1. /\ Head(idle) = idle[1] /\ Tail(idle) \in Seq(Slots)
        /\ Len(Tail(idle)) = Len(idle) - 1
        /\ DOMAIN idle = 1..Len(idle) /\ DOMAIN Tail(idle) = 1..(Len(idle) - 1)
        /\ Len(idle) \in Nat \ {0}
        /\ \A n \in 1..(Len(idle) - 1) : Tail(idle)[n] = idle[n + 1]
    BY QueueGet
  <1>. QED  BY <1>1

\* What may be put in a slot.
LEMMA SlotFacts ==
    /\ None \in Slots /\ CloseSentinel \in Slots /\ Instances \subseteq Slots
    /\ None \notin Instances /\ CloseSentinel \notin Instances
    /\ None # CloseSentinel /\ None \notin Threads
  BY PoolAssumption DEF Slots

\* A thread at a step that uses an instance holds one that exists and is open.
LEMMA HoldsLive ==
    ASSUME Core, NEW t \in Threads, pc[t] \in WithInstance
    PROVE  /\ slot[t] \in Instances /\ slot[t] \in Slots
           /\ slot[t] \in alive /\ slot[t] \in 1..created
  <1>1. slot[t] \in Instances
    BY DEF Core, SlotShape
  <1>2. slot[t] \in alive
    BY <1>1 DEF Core, HeldIsLive
  <1>. QED  BY <1>1, <1>2 DEF Core, TypeOK, Slots

-----------------------------------------------------------------------------
(* Type correctness *)

\* A new pool, all placeholders, satisfies the inductive invariant.
LEMMA InitInv == Init => Inv
  <1>. SUFFICES ASSUME Init PROVE Inv
    OBVIOUS
  <1>. USE PoolAssumption DEF Init
  <1>1. idle \in Seq(Slots) /\ Len(idle) = MaxSize /\ DOMAIN idle = 1..MaxSize
        /\ \A n \in DOMAIN idle : idle[n] = None
    BY DEF Slots
  <1>2. TypeOK
    <2>1. \A t \in Threads : pc[t] \in ClosePcs <=> closeLock = t
      BY SlotFacts DEF ClosePcs
    <2>2. /\ instDoc \in [Instances -> Nat] /\ instVersion \in [Instances -> Nat]
          /\ snap \in [Threads -> Nat] /\ start \in [Threads -> Nat]
          /\ slot \in [Threads -> Slots]
          /\ pc \in [Threads -> {"idle"} \cup BorrowPcs \cup ClosePcs]
      BY SlotFacts
    <2>3. Len(idle) <= MaxSize
      BY <1>1
    <2>4. /\ created \in 0..MaxBuilds /\ recreated \in Nat /\ version \in Nat
          /\ alive \subseteq 1..created /\ poisoned \subseteq 1..created
      OBVIOUS
    <2>. QED  BY <1>1, <2>1, <2>2, <2>3, <2>4 DEF TypeOK
  <1>3. SlotShape
    BY DEF SlotShape, WithInstance, EmptyHanded
  <1>4. ExclusiveLoan /\ HeldIsLive
    BY <1>1 DEF ExclusiveLoan, HeldIsLive
  <1>5. TagsBehind /\ TagsHonest /\ Quarantined /\ SnapshotsFresh
    BY <1>1 DEF TagsBehind, TagsHonest, Quarantined, SnapshotsFresh
  <1>. QED  BY <1>2, <1>3, <1>4, <1>5 DEF Inv, Core


\* A step of thread t keeps every variable in its range.
LEMMA TypeStep ==
    ASSUME Core, NEW t \in Threads,
           Borrow(t) \/ Close(t) \/ Discard(t) \/ Step(t)
    PROVE  TypeOK'
  <1>. USE PoolAssumption DEF Core, TypeOK, Goto, Forget, queueVars, statVars, instVars,
               HoldingPcs, BorrowPcs, ClosePcs
  <1>1. CASE Borrow(t)
    BY <1>1 DEF Borrow
  <1>2. CASE GetSlot(t)
    BY <1>2 DEF GetSlot
  <1>3. CASE GetTimesOut(t)
    BY <1>3 DEF GetTimesOut
  <1>4. CASE CheckDrawn(t)
    BY <1>4 DEF CheckDrawn
  <1>5. CASE DropDrawn(t)
    BY <1>5, SlotFacts DEF DropDrawn
  <1>6. CASE RepostSentinel(t)
    BY <1>6, SlotFacts, PutBounded DEF RepostSentinel
  <1>7. CASE BuildSnapshot(t)
    BY <1>7 DEF BuildSnapshot
  <1>8. CASE ConstructOK(t)
    <2>1. created' \in Instances /\ created' \in 0..MaxBuilds
      BY <1>8 DEF ConstructOK, Instances
    <2>2. alive' \subseteq 1..created' /\ poisoned' \subseteq 1..created'
      BY <1>8 DEF ConstructOK
    <2>. QED  BY <1>8, <2>1, <2>2, SlotFacts DEF ConstructOK
  <1>9. CASE ConstructFails(t)
    BY <1>9 DEF ConstructFails
  <1>10. CASE CheckStale(t)
    BY <1>10 DEF CheckStale
  <1>11. CASE ReloadOK(t)
    BY <1>11 DEF ReloadOK
  <1>12. CASE ReloadFails(t)
    <2>1. slot[t] \in Instances /\ slot[t] \in 1..created
      BY <1>12, HoldsLive DEF ReloadFails, WithInstance
    <2>2. instDoc' \in [Instances -> Nat]
      BY <1>12, <2>1 DEF ReloadFails
    <2>. QED  BY <1>12, <2>1, <2>2 DEF ReloadFails
  <1>13. CASE EvalReturns(t)
    BY <1>13 DEF EvalReturns
  <1>14. CASE EvalPoisons(t)
    BY <1>14, HoldsLive DEF EvalPoisons, WithInstance
  <1>15. CASE Discard(t)
    BY <1>15 DEF Discard
  <1>16. CASE Release(t)
    BY <1>16 DEF Release
  <1>17. CASE CountRecreated(t)
    BY <1>17 DEF CountRecreated
  <1>18. CASE PutPlaceholder(t)
    BY <1>18, SlotFacts, PutBounded DEF PutPlaceholder
  <1>19. CASE CloseReleased(t)
    BY <1>19, SlotFacts DEF CloseReleased
  <1>20. CASE PutBack(t)
    BY <1>20, SlotFacts, PutBounded DEF PutBack
  <1>21. CASE Close(t)
    BY <1>21 DEF Close
  <1>22. CASE Drain(t)
    BY <1>22, SlotFacts, QueueGet DEF Drain
  <1>23. CASE DrainClose(t)
    BY <1>23, SlotFacts DEF DrainClose
  <1>24. CASE DrainEmpty(t)
    BY <1>24 DEF DrainEmpty
  <1>25. CASE Wake(t)
    BY <1>25, SlotFacts, PutBounded DEF Wake
  <1>. QED
    BY <1>1, <1>2, <1>3, <1>4, <1>5, <1>6, <1>7, <1>8, <1>9, <1>10, <1>11, <1>12, <1>13, <1>14, <1>15, <1>16, <1>17, <1>18, <1>19, <1>20, <1>21, <1>22, <1>23, <1>24, <1>25
       DEF Step, BorrowStep, LoanStep, CloseStep

-----------------------------------------------------------------------------
(* Exclusive use *)

\* A step of thread t leaves in its hands what its next step expects.
LEMMA ShapeStep ==
    ASSUME Core, NEW t \in Threads,
           Borrow(t) \/ Close(t) \/ Discard(t) \/ Step(t)
    PROVE  SlotShape'
  <1>. USE SlotFacts DEF Core, TypeOK, SlotShape, Goto, queueVars, statVars, instVars,
               WithInstance, EmptyHanded
  <1>1. CASE Borrow(t)
    BY <1>1 DEF Borrow
  <1>2. CASE GetSlot(t)
    BY <1>2 DEF GetSlot
  <1>3. CASE GetTimesOut(t)
    BY <1>3 DEF GetTimesOut
  <1>4. CASE CheckDrawn(t)
    BY <1>4 DEF CheckDrawn, Slots
  <1>5. CASE DropDrawn(t)
    BY <1>5 DEF DropDrawn
  <1>6. CASE RepostSentinel(t)
    BY <1>6 DEF RepostSentinel
  <1>7. CASE BuildSnapshot(t)
    BY <1>7 DEF BuildSnapshot
  <1>8. CASE ConstructOK(t)
    <2>1. created' \in Instances
      BY <1>8, PoolAssumption DEF ConstructOK, Instances
    <2>. QED  BY <1>8, <2>1 DEF ConstructOK
  <1>9. CASE ConstructFails(t)
    BY <1>9 DEF ConstructFails
  <1>10. CASE CheckStale(t)
    BY <1>10 DEF CheckStale
  <1>11. CASE ReloadOK(t)
    BY <1>11 DEF ReloadOK
  <1>12. CASE ReloadFails(t)
    BY <1>12 DEF ReloadFails
  <1>13. CASE EvalReturns(t)
    BY <1>13 DEF EvalReturns
  <1>14. CASE EvalPoisons(t)
    BY <1>14 DEF EvalPoisons
  <1>15. CASE Discard(t)
    BY <1>15 DEF Discard
  <1>16. CASE Release(t)
    BY <1>16 DEF Release
  <1>17. CASE CountRecreated(t)
    BY <1>17 DEF CountRecreated
  <1>18. CASE PutPlaceholder(t)
    BY <1>18 DEF PutPlaceholder
  <1>19. CASE CloseReleased(t)
    BY <1>19 DEF CloseReleased
  <1>20. CASE PutBack(t)
    BY <1>20 DEF PutBack
  <1>21. CASE Close(t)
    BY <1>21 DEF Close
  <1>22. CASE Drain(t)
    BY <1>22 DEF Drain
  <1>23. CASE DrainClose(t)
    BY <1>23 DEF DrainClose
  <1>24. CASE DrainEmpty(t)
    BY <1>24 DEF DrainEmpty
  <1>25. CASE Wake(t)
    BY <1>25 DEF Wake
  <1>. QED
    BY <1>1, <1>2, <1>3, <1>4, <1>5, <1>6, <1>7, <1>8, <1>9, <1>10, <1>11, <1>12, <1>13, <1>14, <1>15, <1>16, <1>17, <1>18, <1>19, <1>20, <1>21, <1>22, <1>23, <1>24, <1>25
       DEF Step, BorrowStep, LoanStep, CloseStep

\* A step of thread t neither shares an instance nor leaves a closed one where
\* a thread can find it.
LEMMA ExclusiveStep ==
    ASSUME Core, NEW t \in Threads,
           Borrow(t) \/ Close(t) \/ Discard(t) \/ Step(t)
    PROVE  ExclusiveLoan' /\ HeldIsLive'
  <1>. USE DEF Goto, Forget, queueVars, statVars, instVars
  <1>0. ExclusiveLoan /\ HeldIsLive
    BY DEF Core
  <1>1. CASE UNCHANGED <<idle, slot, alive>>
    BY <1>0, <1>1 DEF ExclusiveLoan, HeldIsLive
  <1>2. CASE GetSlot(t) \/ Drain(t)
    <2>1. /\ 1 \in DOMAIN idle /\ Head(idle) = idle[1]
          /\ \A n \in DOMAIN idle' :
                 n \in Int /\ n + 1 \in DOMAIN idle /\ n + 1 # 1
                 /\ idle'[n] = idle[n + 1]
      BY <1>2, GetShifts DEF GetSlot, Drain, Core, TypeOK
    <2>2. /\ slot'[t] \in Instances => slot'[t] = idle[1]
          /\ \A u \in Threads \ {t} : slot'[u] = slot[u]
          /\ alive' = alive
      BY <1>2, <2>1, SlotFacts DEF GetSlot, Drain, Core, TypeOK
    <2>3. \A n \in DOMAIN idle' : idle'[n] \in Instances => idle'[n] # idle[1]
      BY <1>0, <2>1 DEF ExclusiveLoan
    <2>4. \A u \in Threads, n \in DOMAIN idle' :
              slot'[u] \in Instances => slot'[u] # idle'[n]
      BY <1>0, <2>1, <2>2, <2>3 DEF ExclusiveLoan
    <2>5. \A u, v \in Threads : u # v /\ slot'[u] \in Instances => slot'[u] # slot'[v]
      BY <1>0, <2>1, <2>2 DEF ExclusiveLoan
    <2>6. \A m, n \in DOMAIN idle' :
              m # n /\ idle'[m] \in Instances => idle'[m] # idle'[n]
      BY <1>0, <2>1 DEF ExclusiveLoan
    <2>7. HeldIsLive'
      BY <1>0, <2>1, <2>2 DEF HeldIsLive
    <2>. QED  BY <2>4, <2>5, <2>6, <2>7 DEF ExclusiveLoan
  <1>3. CASE DropDrawn(t) \/ CloseReleased(t) \/ DrainClose(t)
    <2>1. slot[t] \in Instances
      BY <1>3, HoldsLive DEF DropDrawn, CloseReleased, DrainClose, WithInstance
    <2>2. /\ idle' = idle /\ alive' = alive \ {slot[t]}
          /\ slot'[t] = None /\ \A u \in Threads \ {t} : slot'[u] = slot[u]
      BY <1>3 DEF DropDrawn, CloseReleased, DrainClose, Core, TypeOK
    <2>. QED  BY <1>0, <2>1, <2>2, SlotFacts DEF ExclusiveLoan, HeldIsLive
  <1>4. CASE RepostSentinel(t) \/ PutPlaceholder(t) \/ Wake(t)
    <2>1. \A n \in DOMAIN idle' :
              idle'[n] \in Instances => n \in DOMAIN idle /\ idle'[n] = idle[n]
      BY <1>4, PutBounded, SlotFacts DEF RepostSentinel, PutPlaceholder, Wake, Core, TypeOK
    <2>2. \A u \in Threads : slot'[u] \in Instances => slot'[u] = slot[u]
      BY <1>4, SlotFacts DEF RepostSentinel, PutPlaceholder, Wake, Core, TypeOK
    <2>3. alive' = alive
      BY <1>4 DEF RepostSentinel, PutPlaceholder, Wake
    <2>. QED  BY <1>0, <2>1, <2>2, <2>3 DEF ExclusiveLoan, HeldIsLive
  <1>5. CASE PutBack(t)
    <2>1. slot[t] \in Instances /\ slot[t] \in alive /\ slot[t] \in Slots
      BY <1>5, HoldsLive DEF PutBack, WithInstance
    <2>2. /\ DOMAIN idle = 1..Len(idle) /\ Len(idle) \in Nat
          /\ \A n \in DOMAIN idle' :
                 \/ n \in DOMAIN idle /\ idle'[n] = idle[n]
                 \/ n = Len(idle) + 1 /\ idle'[n] = slot[t]
      BY <1>5, <2>1, PutBounded DEF PutBack, Core, TypeOK
    <2>3. /\ slot'[t] = None /\ alive' = alive
          /\ \A u \in Threads \ {t} : slot'[u] = slot[u]
      BY <1>5 DEF PutBack, Core, TypeOK
    <2>4. \A u \in Threads, n \in DOMAIN idle' :
              slot'[u] \in Instances => slot'[u] # idle'[n]
      BY <1>0, <2>1, <2>2, <2>3, SlotFacts DEF ExclusiveLoan
    <2>5. \A m, n \in DOMAIN idle' :
              m # n /\ idle'[m] \in Instances => idle'[m] # idle'[n]
      BY <1>0, <2>1, <2>2 DEF ExclusiveLoan
    <2>6. \A u, v \in Threads : u # v /\ slot'[u] \in Instances => slot'[u] # slot'[v]
      BY <1>0, <2>3, SlotFacts DEF ExclusiveLoan
    <2>7. HeldIsLive'
      BY <1>0, <2>1, <2>2, <2>3, SlotFacts DEF HeldIsLive
    <2>. QED  BY <2>4, <2>5, <2>6, <2>7 DEF ExclusiveLoan
  <1>6. CASE ConstructOK(t)
    <2>1. /\ created' \notin alive /\ alive' = alive \cup {created'}
          /\ idle' = idle /\ slot'[t] = created'
          /\ \A u \in Threads \ {t} : slot'[u] = slot[u]
      BY <1>6 DEF ConstructOK, Core, TypeOK
    <2>2. /\ \A u \in Threads \ {t} : slot'[u] \in Instances => slot'[u] # created'
          /\ \A n \in DOMAIN idle : idle[n] \in Instances => idle[n] # created'
      BY <1>0, <2>1 DEF HeldIsLive
    <2>3. created' \in Instances
      BY <1>6, PoolAssumption DEF ConstructOK, Instances, Core, TypeOK
    <2>. QED  BY <1>0, <2>1, <2>2, <2>3 DEF ExclusiveLoan, HeldIsLive
  <1>7. CASE \/ Borrow(t) \/ GetTimesOut(t) \/ CheckDrawn(t) \/ BuildSnapshot(t) \/ ConstructFails(t)
             \/ CheckStale(t) \/ ReloadOK(t) \/ ReloadFails(t) \/ EvalReturns(t) \/ EvalPoisons(t)
             \/ Discard(t) \/ Release(t) \/ CountRecreated(t) \/ Close(t) \/ DrainEmpty(t)
    BY <1>1, <1>7 DEF Borrow, GetTimesOut, CheckDrawn, BuildSnapshot, ConstructFails, CheckStale, ReloadOK,
        ReloadFails, EvalReturns, EvalPoisons, Discard, Release, CountRecreated, Close, DrainEmpty
  <1>. QED
    BY <1>2, <1>3, <1>4, <1>5, <1>6, <1>7
       DEF Step, BorrowStep, LoanStep, CloseStep

-----------------------------------------------------------------------------
(* Data *)

\* A step of thread t sets no tag ahead of the policy.
LEMMA BehindStep ==
    ASSUME Core, NEW t \in Threads,
           Borrow(t) \/ Close(t) \/ Discard(t) \/ Step(t)
    PROVE  TagsBehind'
  <1>. USE DEF Goto, Forget, queueVars, statVars, instVars
  <1>1. CASE UNCHANGED <<version, instVersion>>
    BY <1>1 DEF Core, TagsBehind
  <1>2. CASE ConstructOK(t)
    BY <1>2 DEF ConstructOK, Core, TypeOK, TagsBehind, SnapshotsFresh
  <1>3. CASE ReloadOK(t)
    BY <1>3 DEF ReloadOK, Core, TypeOK, TagsBehind, SnapshotsFresh
  <1>4. CASE ReloadFails(t)
    BY <1>4 DEF ReloadFails, Core, TypeOK, TagsBehind
  <1>5. CASE EvalPoisons(t)
    BY <1>5 DEF EvalPoisons, Core, TagsBehind
  <1>6. CASE Borrow(t) \/ Close(t) \/ Discard(t) \/ CloseStep(t)
    BY <1>1, <1>6 DEF Borrow, Close, Discard, CloseStep, Drain, DrainClose,
        DrainEmpty, Wake
  <1>7. CASE \/ GetSlot(t) \/ GetTimesOut(t) \/ CheckDrawn(t) \/ DropDrawn(t)
             \/ RepostSentinel(t) \/ BuildSnapshot(t) \/ ConstructFails(t)
             \/ CheckStale(t)
    BY <1>1, <1>7 DEF GetSlot, GetTimesOut, CheckDrawn, DropDrawn, RepostSentinel,
        BuildSnapshot, ConstructFails, CheckStale
  <1>8. CASE \/ EvalReturns(t) \/ Release(t) \/ CountRecreated(t)
             \/ PutPlaceholder(t) \/ CloseReleased(t) \/ PutBack(t)
    BY <1>1, <1>8 DEF EvalReturns, Release, CountRecreated, PutPlaceholder,
        CloseReleased, PutBack
  <1>. QED
    BY <1>2, <1>3, <1>4, <1>5, <1>6, <1>7, <1>8 DEF Step, BorrowStep, LoanStep

\* A step of thread t keeps the tags honest.
LEMMA HonestStep ==
    ASSUME Core, TagsHonest, NEW t \in Threads,
           Borrow(t) \/ Close(t) \/ Discard(t) \/ Step(t)
    PROVE  TagsHonest'
  <1>. USE DEF Goto, Forget, queueVars, statVars, instVars
  <1>1. CASE UNCHANGED <<instDoc, instVersion, poisoned>>
    BY <1>1 DEF TagsHonest
  <1>2. CASE ConstructOK(t)
    BY <1>2 DEF ConstructOK, Core, TypeOK, TagsHonest
  <1>3. CASE ReloadOK(t)
    BY <1>3 DEF ReloadOK, Core, TypeOK, TagsHonest
  <1>4. CASE ReloadFails(t)
    BY <1>4 DEF ReloadFails, Core, TypeOK, TagsHonest
  <1>5. CASE EvalPoisons(t)
    BY <1>5 DEF EvalPoisons, TagsHonest
  <1>6. CASE Borrow(t) \/ Close(t) \/ Discard(t) \/ CloseStep(t)
    BY <1>1, <1>6 DEF Borrow, Close, Discard, CloseStep, Drain, DrainClose,
        DrainEmpty, Wake
  <1>7. CASE \/ GetSlot(t) \/ GetTimesOut(t) \/ CheckDrawn(t) \/ DropDrawn(t)
             \/ RepostSentinel(t) \/ BuildSnapshot(t) \/ ConstructFails(t)
             \/ CheckStale(t)
    BY <1>1, <1>7 DEF GetSlot, GetTimesOut, CheckDrawn, DropDrawn, RepostSentinel,
        BuildSnapshot, ConstructFails, CheckStale
  <1>8. CASE \/ EvalReturns(t) \/ Release(t) \/ CountRecreated(t)
             \/ PutPlaceholder(t) \/ CloseReleased(t) \/ PutBack(t)
    BY <1>1, <1>8 DEF EvalReturns, Release, CountRecreated, PutPlaceholder,
        CloseReleased, PutBack
  <1>. QED
    BY <1>2, <1>3, <1>4, <1>5, <1>6, <1>7, <1>8 DEF Step, BorrowStep, LoanStep

\* A step of thread t keeps poisoned instances out of circulation: what it
\* poisons is in no other hands and not in the queue.
LEMMA QuarantineStep ==
    ASSUME Core, NEW t \in Threads,
           Borrow(t) \/ Close(t) \/ Discard(t) \/ Step(t)
    PROVE  Quarantined'
  <1>. USE DEF Goto, Forget, queueVars, statVars, instVars
  <1>0. /\ Quarantined /\ ExclusiveLoan
        /\ pc \in [Threads -> {"idle"} \cup BorrowPcs \cup ClosePcs]
        /\ slot \in [Threads -> Slots] /\ poisoned \subseteq 1..created
        /\ idle \in Seq(Slots) /\ Len(idle) <= MaxSize
        /\ 1..created \subseteq Instances
    BY PoolAssumption DEF Core, TypeOK, Instances
  <1>1. CASE GetSlot(t) \/ Drain(t)
    <2>1. /\ 1 \in DOMAIN idle /\ Head(idle) = idle[1]
          /\ \A n \in DOMAIN idle' : n + 1 \in DOMAIN idle /\ idle'[n] = idle[n + 1]
      BY <1>0, <1>1, GetShifts DEF GetSlot, Drain
    <2>. QED  BY <1>0, <1>1, <2>1, ZenonT(30) DEF GetSlot, Drain, Quarantined
  <1>2. CASE RepostSentinel(t) \/ PutPlaceholder(t) \/ Wake(t) \/ PutBack(t)
    <2>1. /\ poisoned' = poisoned
          /\ \A u \in Threads :
                 pc'[u] \in {"drawn", "check", "reload", "loan", "putBack"} =>
                     u # t /\ pc'[u] = pc[u] /\ slot'[u] = slot[u]
      BY <1>0, <1>2 DEF RepostSentinel, PutPlaceholder, Wake, PutBack
    <2>2. ASSUME NEW n \in DOMAIN idle'
          PROVE  idle'[n] \notin poisoned
      <3>1. CASE PutBack(t)
        BY <1>0, <3>1, PutBounded DEF PutBack, Quarantined
      <3>2. CASE RepostSentinel(t) \/ PutPlaceholder(t) \/ Wake(t)
        BY <1>0, <3>2, PutBounded, SlotFacts, ZenonT(30)
           DEF RepostSentinel, PutPlaceholder, Wake, Quarantined
      <3>. QED  BY <1>2, <3>1, <3>2
    <2>. QED  BY <1>0, <2>1, <2>2 DEF Quarantined
  <1>3. CASE ReloadFails(t) \/ EvalPoisons(t)
    <2>1. slot[t] \in Instances
      BY <1>3, HoldsLive DEF ReloadFails, EvalPoisons, WithInstance
    <2>. QED  BY <1>0, <1>3, <2>1 DEF ReloadFails, EvalPoisons, Quarantined,
                 ExclusiveLoan
  <1>4. CASE ConstructOK(t)
    <2>1. created' \notin poisoned
      BY <1>0, <1>4 DEF ConstructOK, Core, TypeOK
    <2>. QED  BY <1>0, <1>4, <2>1 DEF ConstructOK, Quarantined
  <1>5. CASE Borrow(t) \/ Close(t) \/ Discard(t) \/ DrainClose(t) \/ DrainEmpty(t)
    BY <1>0, <1>5 DEF Borrow, Close, Discard, DrainClose, DrainEmpty, Quarantined
  <1>6. CASE \/ GetTimesOut(t) \/ CheckDrawn(t) \/ DropDrawn(t)
             \/ BuildSnapshot(t) \/ ConstructFails(t) \/ CheckStale(t) \/ ReloadOK(t)
    BY <1>0, <1>6 DEF GetTimesOut, CheckDrawn, DropDrawn, BuildSnapshot,
        ConstructFails, CheckStale, ReloadOK, Quarantined
  <1>7. CASE \/ EvalReturns(t) \/ Release(t) \/ CountRecreated(t) \/ CloseReleased(t)
    BY <1>0, <1>7 DEF EvalReturns, Release, CountRecreated, CloseReleased, Quarantined
  <1>. QED
    BY <1>1, <1>2, <1>3, <1>4, <1>5, <1>6, <1>7
       DEF Step, BorrowStep, LoanStep, CloseStep

\* A step of thread t keeps every snapshot and every loan fresh: t writes only
\* the data of the instance in its own hands.
LEMMA FreshStep ==
    ASSUME Core, NEW t \in Threads,
           Borrow(t) \/ Close(t) \/ Discard(t) \/ Step(t)
    PROVE  SnapshotsFresh'
  <1>. USE DEF Goto, Forget, queueVars, statVars, instVars
  <1>0. /\ SnapshotsFresh /\ ExclusiveLoan /\ TagsBehind /\ SlotShape
        /\ pc \in [Threads -> {"idle"} \cup BorrowPcs \cup ClosePcs]
        /\ slot \in [Threads -> Slots] /\ version \in Nat
        /\ snap \in [Threads -> Nat] /\ start \in [Threads -> Nat]
        /\ instVersion \in [Instances -> Nat]
    BY DEF Core, TypeOK
  <1>1. CASE Borrow(t)
    BY <1>0, <1>1 DEF Borrow, SnapshotsFresh
  <1>2. CASE BuildSnapshot(t)
    BY <1>0, <1>2 DEF BuildSnapshot, SnapshotsFresh
  <1>3. CASE ConstructOK(t)
    <2>1. /\ version' = version /\ start' = start /\ snap' = snap
          /\ pc'[t] = "check"
          /\ \A u \in Threads \ {t} : pc'[u] = pc[u] /\ slot'[u] = slot[u]
          /\ created' \notin 1..created
          /\ \A i \in Instances \ {created'} : instVersion'[i] = instVersion[i]
      BY <1>0, <1>3 DEF ConstructOK, Core, TypeOK
    <2>2. \A u \in Threads : pc[u] \in {"reload", "loan"} =>
              slot[u] \in Instances \ {created'}
      BY <2>1, HoldsLive DEF WithInstance
    <2>. QED  BY <1>0, <2>1, <2>2 DEF SnapshotsFresh
  <1>4. CASE CheckStale(t)
    <2>1. slot[t] \in Instances
      BY <1>4, HoldsLive DEF CheckStale, WithInstance
    <2>. QED  BY <1>0, <1>4, <2>1 DEF CheckStale, SnapshotsFresh, TagsBehind
  <1>5. CASE ReloadOK(t)
    <2>1. slot[t] \in Instances
      BY <1>5, HoldsLive DEF ReloadOK, WithInstance
    <2>. QED  BY <1>0, <1>5, <2>1 DEF ReloadOK, SnapshotsFresh, ExclusiveLoan
  <1>6. CASE GetSlot(t) \/ Close(t) \/ Discard(t) \/ CloseStep(t)
    BY <1>0, <1>6 DEF GetSlot, Close, Discard, CloseStep, Drain, DrainClose,
        DrainEmpty, Wake, SnapshotsFresh
  <1>7. CASE \/ GetTimesOut(t) \/ CheckDrawn(t) \/ DropDrawn(t)
             \/ RepostSentinel(t) \/ ConstructFails(t) \/ ReloadFails(t)
    BY <1>0, <1>7 DEF GetTimesOut, CheckDrawn, DropDrawn, RepostSentinel,
        ConstructFails, ReloadFails, SnapshotsFresh
  <1>8. CASE LoanStep(t)
    BY <1>0, <1>8 DEF LoanStep, EvalReturns, EvalPoisons, Release, CountRecreated,
        PutPlaceholder, CloseReleased, PutBack, SnapshotsFresh
  <1>. QED
    BY <1>1, <1>2, <1>3, <1>4, <1>5, <1>6, <1>7, <1>8 DEF Step, BorrowStep

-----------------------------------------------------------------------------
(* The theorems *)

\* Every step of any thread, and set_data(), preserves the core.
LEMMA StepCore == Core /\ [Next]_vars => Core'
  <1>. SUFFICES ASSUME Core, [Next]_vars PROVE Core'
    OBVIOUS
  <1>1. ASSUME NEW t \in Threads, Borrow(t) \/ Close(t) \/ Discard(t) \/ Step(t)
        PROVE  Core'
    BY <1>1, TypeStep, ShapeStep, ExclusiveStep, BehindStep, QuarantineStep, FreshStep
       DEF Core
  <1>2. CASE SetData
    <2>. USE <1>2 DEF SetData, queueVars, statVars, instVars
    <2>1. TypeOK' /\ SlotShape'
      BY DEF Core, TypeOK, SlotShape
    <2>2. ExclusiveLoan' /\ HeldIsLive'
      BY DEF Core, ExclusiveLoan, HeldIsLive
    <2>3. TagsBehind' /\ Quarantined' /\ SnapshotsFresh'
      BY DEF Core, TypeOK, TagsBehind, Quarantined, SnapshotsFresh
    <2>. QED  BY <2>1, <2>2, <2>3 DEF Core
  <1>3. CASE UNCHANGED vars
    BY <1>3 DEF vars, queueVars, statVars, instVars, Core, TypeOK, SlotShape,
        ExclusiveLoan, HeldIsLive, TagsBehind, Quarantined, SnapshotsFresh
  <1>. QED  BY <1>1, <1>2, <1>3 DEF Next, Finished

\* ... and the inductive invariant.
LEMMA StepInv == Inv /\ [Next]_vars => Inv'
  <1>. SUFFICES ASSUME Inv, [Next]_vars PROVE TagsHonest'
    BY StepCore DEF Inv
  <1>1. ASSUME NEW t \in Threads, Borrow(t) \/ Close(t) \/ Discard(t) \/ Step(t)
        PROVE  TagsHonest'
    BY <1>1, HonestStep DEF Inv
  <1>2. CASE SetData \/ UNCHANGED vars
    BY <1>2 DEF SetData, vars, instVars, Inv, TagsHonest
  <1>. QED  BY <1>1, <1>2 DEF Next, Finished

\* The inductive invariant holds in every state the pool reaches, open, closing
\* or closed.
THEOREM Invariance == Spec => []Inv
  BY InitInv, StepInv, PTL DEF Spec

\* Type correctness: the idle queue never exceeds max_size, and only the
\* holder of _close_lock drains it.
THEOREM TypeCorrect == Spec => []TypeOK
  BY Invariance, PTL DEF Inv, Core

\* No instance is ever in two hands, or in a thread's hands and the queue,
\* however borrow(), failure, replacement and close() interleave.
THEOREM LoansExclusive == Spec => []ExclusiveLoan
  BY Invariance, PTL DEF Inv, Core

\* No thread is left with a closed Store, and no Store is closed twice, also
\* when close() races the releases.
THEOREM NoUseAfterClose == Spec => []HeldIsLive
  BY Invariance, PTL DEF Inv, Core

\* What waits in the queue is unpoisoned and holds the document of its tag.
THEOREM IdleAreHealthy == Spec => []IdleHealthy
  <1>1. Inv => IdleHealthy
    BY DEF Inv, Core, IdleHealthy, TagsBehind, TagsHonest, Quarantined
  <1>. QED  BY <1>1, Invariance, PTL

\* The promise of set_data(): an evaluation uses a document that was in force
\* at some moment since its borrow() began.
THEOREM DecisionsFresh == Spec => []NoStaleDecision
  <1>1. Inv => NoStaleDecision
    <2>. SUFFICES ASSUME Inv, NEW t \in Threads, pc[t] = "loan"
                  PROVE  instDoc[slot[t]] \in start[t]..version
      BY DEF NoStaleDecision
    <2>1. slot[t] \in Instances
      BY HoldsLive DEF Inv, WithInstance
    <2>2. instDoc[slot[t]] = instVersion[slot[t]]
      BY <2>1 DEF Inv, Core, TagsHonest, Quarantined
    <2>. QED  BY <2>1, <2>2 DEF Inv, Core, TypeOK, TagsBehind, SnapshotsFresh
  <1>. QED  BY <1>1, Invariance, PTL

\* Only a reload writes the tag of an instance that exists, and its snapshot
\* was read while the instance was already in the thread's hands.
LEMMA TagsGrow ==
    Core /\ [Next]_vars => [\A i \in 1..created : instVersion'[i] >= instVersion[i]]_vars
  <1>. SUFFICES ASSUME Core, [Next]_vars, NEW i \in 1..created
                PROVE  instVersion'[i] >= instVersion[i]
    OBVIOUS
  <1>. USE DEF Goto, Forget, queueVars, statVars, instVars
  <1>0. /\ i \in Instances /\ i # created + 1
        /\ instVersion \in [Instances -> Nat] /\ instVersion[i] \in Nat
        /\ snap \in [Threads -> Nat]
    BY PoolAssumption DEF Core, TypeOK, Instances
  <1>1. CASE instVersion' = instVersion
    BY <1>0, <1>1
  <1>2. ASSUME NEW t \in Threads, ConstructOK(t)
        PROVE  instVersion'[i] >= instVersion[i]
    BY <1>0, <1>2 DEF ConstructOK
  <1>3. ASSUME NEW t \in Threads, ReloadOK(t)
        PROVE  instVersion'[i] >= instVersion[i]
    BY <1>0, <1>3 DEF ReloadOK, Core, SnapshotsFresh
  <1>4. ASSUME NEW t \in Threads,
               \/ Borrow(t) \/ Close(t) \/ Discard(t) \/ CloseStep(t) \/ LoanStep(t)
               \/ GetSlot(t) \/ GetTimesOut(t) \/ CheckDrawn(t) \/ DropDrawn(t)
               \/ RepostSentinel(t) \/ BuildSnapshot(t) \/ ConstructFails(t)
               \/ CheckStale(t) \/ ReloadFails(t)
        PROVE  instVersion' = instVersion
    BY <1>4 DEF Borrow, Close, Discard, CloseStep, Drain, DrainClose, DrainEmpty,
        Wake, LoanStep, EvalReturns, EvalPoisons, Release, CountRecreated,
        PutPlaceholder, CloseReleased, PutBack, GetSlot, GetTimesOut, CheckDrawn,
        DropDrawn, RepostSentinel, BuildSnapshot, ConstructFails, CheckStale,
        ReloadFails
  <1>5. CASE SetData \/ Finished \/ UNCHANGED vars
    BY <1>1, <1>5 DEF SetData, Finished, vars
  <1>. QED
    BY <1>1, <1>2, <1>3, <1>4, <1>5 DEF Next, Step, BorrowStep

\* No reload takes an instance back to an older document.
THEOREM TagsMonotonic == Spec => VersionMonotonic
  BY Invariance, TagsGrow, PTL DEF Spec, Inv, VersionMonotonic

-----------------------------------------------------------------------------
(* Conservation of slots *)

\* The threads that have drawn a slot and not yet given it back.
Holders == {t \in Threads : pc[t] \in HoldingPcs}

\* An open pool has no wake-up sentinel anywhere and nobody shutting down.
NoSentinelWhileOpen ==
    ~closed =>
        /\ \A t \in Threads : /\ pc[t] \notin {"drop", "repost"} \cup ClosePcs
                              /\ slot[t] # CloseSentinel
        /\ \A n \in DOMAIN idle : idle[n] # CloseSentinel

\* A new pool holds max_size slots and no wake sentinel.
LEMMA InitOpen == Init => NoSentinelWhileOpen /\ SlotsConserved
  <1>. SUFFICES ASSUME Init PROVE NoSentinelWhileOpen /\ SlotsConserved
    OBVIOUS
  <1>1. /\ Len(idle) = MaxSize /\ \A n \in DOMAIN idle : idle[n] = None
        /\ Holders = {}
    BY PoolAssumption DEF Init, Holders, HoldingPcs
  <1>2. Cardinality({}) = 0
    BY FS_EmptySet
  <1>3. SlotsConserved
    BY <1>1, <1>2, PoolAssumption DEF SlotsConserved, Holders
  <1>4. NoSentinelWhileOpen
    BY <1>1, SlotFacts DEF Init, NoSentinelWhileOpen, ClosePcs
  <1>. QED  BY <1>3, <1>4

\* No step lets a sentinel into an open pool.
LEMMA OpenStep ==
    ASSUME Core, NoSentinelWhileOpen, NEW t \in Threads,
           Borrow(t) \/ Close(t) \/ Discard(t) \/ Step(t)
    PROVE  NoSentinelWhileOpen'
  <1>. USE DEF Goto, Forget, queueVars, statVars, instVars
  <1>0. /\ pc \in [Threads -> {"idle"} \cup BorrowPcs \cup ClosePcs]
        /\ slot \in [Threads -> Slots] /\ idle \in Seq(Slots) /\ Len(idle) <= MaxSize
        /\ 1..created \subseteq Instances /\ created \in Nat
    BY PoolAssumption DEF Core, TypeOK, Instances
  <1>1. CASE GetSlot(t)
    <2>1. /\ 1 \in DOMAIN idle /\ Head(idle) = idle[1]
          /\ \A n \in DOMAIN idle' : n + 1 \in DOMAIN idle /\ idle'[n] = idle[n + 1]
      BY <1>0, <1>1, GetShifts DEF GetSlot
    <2>. QED  BY <1>0, <1>1, <2>1 DEF GetSlot, NoSentinelWhileOpen, ClosePcs
  <1>2. CASE PutPlaceholder(t) \/ PutBack(t)
    <2>1. \A n \in DOMAIN idle' :
              \/ n \in DOMAIN idle /\ idle'[n] = idle[n]
              \/ idle'[n] = None \/ idle'[n] = slot[t]
      BY <1>0, <1>2, PutBounded, SlotFacts DEF PutPlaceholder, PutBack
    <2>. QED  BY <1>0, <1>2, <2>1, SlotFacts
              DEF PutPlaceholder, PutBack, NoSentinelWhileOpen, ClosePcs
  <1>3. CASE DropDrawn(t) \/ RepostSentinel(t) \/ CloseStep(t)
    <2>1. closed /\ closed' = closed
      BY <1>3 DEF DropDrawn, RepostSentinel, CloseStep, Drain, DrainClose, DrainEmpty,
          Wake, NoSentinelWhileOpen, ClosePcs
    <2>. QED  BY <2>1 DEF NoSentinelWhileOpen
  <1>4. CASE ConstructOK(t)
    <2>1. created' \in Instances
      BY <1>0, <1>4, PoolAssumption DEF ConstructOK, Instances
    <2>. QED  BY <1>0, <1>4, <2>1, SlotFacts
              DEF ConstructOK, NoSentinelWhileOpen, ClosePcs
  <1>5. CASE \/ Borrow(t) \/ Close(t) \/ Discard(t) \/ GetTimesOut(t) \/ CheckDrawn(t)
             \/ BuildSnapshot(t) \/ ConstructFails(t) \/ CheckStale(t) \/ ReloadOK(t)
             \/ ReloadFails(t) \/ EvalReturns(t) \/ EvalPoisons(t) \/ Release(t)
             \/ CountRecreated(t) \/ CloseReleased(t)
    BY <1>0, <1>5, SlotFacts DEF Borrow, Close, Discard, GetTimesOut, CheckDrawn,
        BuildSnapshot, ConstructFails, CheckStale, ReloadOK, ReloadFails,
        EvalReturns, EvalPoisons, Release, CountRecreated, CloseReleased,
        NoSentinelWhileOpen, ClosePcs
  <1>. QED
    BY <1>1, <1>2, <1>3, <1>4, <1>5 DEF Step, BorrowStep, LoanStep

\* The closed event is never cleared.
LEMMA StaysClosed ==
    ASSUME NEW t \in Threads, Borrow(t) \/ Close(t) \/ Discard(t) \/ Step(t)
    PROVE  closed => closed'
  BY DEF queueVars, Borrow, Close, Discard, Step, BorrowStep, GetSlot, GetTimesOut, CheckDrawn,
     DropDrawn, RepostSentinel, BuildSnapshot, ConstructOK, ConstructFails,
     CheckStale, ReloadOK, ReloadFails, LoanStep, EvalReturns, EvalPoisons,
     Release, CountRecreated, PutPlaceholder, CloseReleased, PutBack, CloseStep,
     Drain, DrainClose, DrainEmpty, Wake

\* A slot leaves the queue when its holder appears and comes back when its
\* holder is gone; put_nowait always finds room in an open pool.
LEMMA ConserveStep ==
    ASSUME Core, NoSentinelWhileOpen, ~closed',
           Len(idle) + Cardinality(Holders) <= MaxSize, NEW t \in Threads,
           Borrow(t) \/ Close(t) \/ Discard(t) \/ Step(t)
    PROVE  Len(idle') + Cardinality(Holders') = Len(idle) + Cardinality(Holders)
  <1>. USE DEF Goto, Forget, queueVars, statVars, instVars
  <1>0. /\ pc \in [Threads -> {"idle"} \cup BorrowPcs \cup ClosePcs]
        /\ slot \in [Threads -> Slots] /\ idle \in Seq(Slots) /\ Len(idle) <= MaxSize
        /\ Len(idle) \in Nat /\ MaxSize \in Nat
    BY PoolAssumption, LenProperties DEF Core, TypeOK
  <1>1. IsFiniteSet(Holders) /\ Cardinality(Holders) \in Nat
    BY PoolAssumption, FS_Subset, FS_CardinalityType DEF Holders
  <1>2. ~closed
    BY StaysClosed
  <1>4. CASE GetSlot(t)
    <2>1. Holders' = Holders \cup {t} /\ t \notin Holders
      BY <1>0, <1>4 DEF GetSlot, Holders, HoldingPcs
    <2>2. Cardinality(Holders') = Cardinality(Holders) + 1
      BY <1>1, <2>1, FS_AddElement
    <2>3. Len(idle') = Len(idle) - 1
      BY <1>0, <1>4, GetShifts DEF GetSlot
    <2>. QED  BY <1>0, <1>1, <2>2, <2>3
  <1>5. CASE PutPlaceholder(t) \/ PutBack(t)
    <2>1. Holders' = Holders \ {t} /\ t \in Holders
      BY <1>0, <1>5 DEF PutPlaceholder, PutBack, Holders, HoldingPcs
    <2>2. /\ Cardinality(Holders') = Cardinality(Holders) - 1
          /\ Cardinality(Holders') \in Nat
      BY <1>1, <2>1, FS_RemoveElement, FS_CardinalityType
    <2>3. Len(idle) < MaxSize
      BY <1>0, <1>1, <2>2
    <2>4. Len(idle') = Len(idle) + 1
      BY <1>0, <1>5, <2>3, QueuePut, SlotFacts DEF PutPlaceholder, PutBack, PutNowait
    <2>. QED  BY <1>0, <1>1, <2>2, <2>4
  <1>6. CASE Holders' = Holders /\ idle' = idle
    BY <1>6
  <1>7. CASE DropDrawn(t) \/ RepostSentinel(t) \/ CloseStep(t)
    BY <1>2, <1>7 DEF DropDrawn, RepostSentinel, CloseStep, Drain, DrainClose,
        DrainEmpty, Wake, NoSentinelWhileOpen, ClosePcs
  <1>8. CASE \/ Borrow(t) \/ Close(t) \/ Discard(t) \/ GetTimesOut(t) \/ CheckDrawn(t)
             \/ BuildSnapshot(t) \/ ConstructOK(t) \/ ConstructFails(t)
             \/ CheckStale(t) \/ ReloadOK(t) \/ ReloadFails(t) \/ EvalReturns(t)
             \/ EvalPoisons(t) \/ Release(t) \/ CountRecreated(t) \/ CloseReleased(t)
    <2>1. Holders' = Holders
      BY <1>0, <1>2, <1>8 DEF Borrow, Close, Discard, GetTimesOut, CheckDrawn,
          BuildSnapshot, ConstructOK, ConstructFails, CheckStale, ReloadOK,
          ReloadFails, EvalReturns, EvalPoisons, Release, CountRecreated,
          CloseReleased, NoSentinelWhileOpen, Holders, HoldingPcs
    <2>2. idle' = idle
      BY <1>8 DEF Borrow, Close, Discard, GetTimesOut, CheckDrawn,
          BuildSnapshot, ConstructOK, ConstructFails, CheckStale, ReloadOK,
          ReloadFails, EvalReturns, EvalPoisons, Release, CountRecreated,
          CloseReleased
    <2>. QED  BY <1>6, <2>1, <2>2
  <1>. QED
    BY <1>4, <1>5, <1>7, <1>8 DEF Step, BorrowStep, LoanStep

\* The invariant of an open pool, inductive together with Inv.
OpenInv == NoSentinelWhileOpen /\ SlotsConserved

\* Every step keeps the slots of an open pool whole and free of sentinels.
LEMMA StepOpen == Inv /\ OpenInv /\ [Next]_vars => OpenInv'
  <1>. SUFFICES ASSUME Inv, OpenInv, [Next]_vars PROVE OpenInv'
    OBVIOUS
  <1>1. ASSUME NEW t \in Threads, Borrow(t) \/ Close(t) \/ Discard(t) \/ Step(t)
        PROVE  OpenInv'
    <2>1. NoSentinelWhileOpen'
      BY <1>1, OpenStep DEF Inv, OpenInv
    <2>2. ASSUME ~closed'
          PROVE  Len(idle') + Cardinality(Holders') = MaxSize
      <3>1. ~closed
        BY <1>1, <2>2, StaysClosed
      <3>2. Len(idle) + Cardinality(Holders) = MaxSize
        BY <3>1 DEF OpenInv, SlotsConserved, Holders
      <3>3. Len(idle) + Cardinality(Holders) <= MaxSize
        BY <3>2, PoolAssumption
      <3>. QED  BY <1>1, <2>2, <3>2, <3>3, ConserveStep DEF Inv, OpenInv
    <2>. QED  BY <2>1, <2>2 DEF OpenInv, SlotsConserved, Holders
  <1>2. CASE SetData \/ UNCHANGED vars
    BY <1>2 DEF SetData, vars, queueVars, statVars, instVars, OpenInv,
        NoSentinelWhileOpen, SlotsConserved
  <1>. QED  BY <1>1, <1>2 DEF Next, Finished

\* Until close() sets the event the pool has exactly its max_size slots, none of
\* them a wake sentinel.
THEOREM OpenInvariance == Spec => []OpenInv
  BY Invariance, InitOpen, StepOpen, PTL DEF Spec, OpenInv

\* No failed construction, reload, evaluation, discard or timeout costs an open
\* pool a slot or gives it one too many.
THEOREM NoSlotLost == Spec => []SlotsConserved
  BY OpenInvariance, PTL DEF OpenInv

-----------------------------------------------------------------------------
(* Refinement of DecisionService *)

\* A new pool is a new service.
LEMMA InitRefines == Init => Service!Init
  BY DEF Init, Service!Init, PhaseBar, SinceBar, SeesBar, PhaseOf, ClosePcs

\* A step of thread t touches no other thread's phase.
OthersKeep(t) ==
    \A u \in Threads \ {t} :
        /\ pc'[u] = pc[u] /\ start'[u] = start[u] /\ snap'[u] = snap[u]
        /\ pc[u] = "loan" => instDoc'[slot'[u]] = instDoc[slot[u]]

\* A step of t leaves what the service sees of every other thread alone.
LEMMA StepLocal ==
    ASSUME Core, NEW t \in Threads, Borrow(t) \/ Close(t) \/ Discard(t) \/ Step(t)
    PROVE  OthersKeep(t)
  <1>. USE DEF Goto, Forget, queueVars, statVars, instVars, OthersKeep
  <1>0. /\ pc \in [Threads -> {"idle"} \cup BorrowPcs \cup ClosePcs]
        /\ slot \in [Threads -> Slots]
        /\ snap \in [Threads -> Nat] /\ start \in [Threads -> Nat]
        /\ instDoc \in [Instances -> Nat] /\ ExclusiveLoan
    BY DEF Core, TypeOK
  <1>1. CASE ConstructOK(t)
    <2>1. \A u \in Threads : pc[u] = "loan" => slot[u] \in Instances /\ slot[u] # created'
      BY <1>1, HoldsLive DEF ConstructOK, WithInstance, Core, TypeOK
    <2>. QED  BY <1>0, <1>1, <2>1 DEF ConstructOK
  <1>2. CASE ReloadOK(t) \/ ReloadFails(t)
    <2>1. /\ slot[t] \in Instances
          /\ \A u \in Threads \ {t} : pc[u] = "loan" =>
                 slot[u] \in Instances /\ slot[u] # slot[t]
      BY <1>0, <1>2, HoldsLive DEF ReloadOK, ReloadFails, WithInstance, ExclusiveLoan
    <2>. QED  BY <1>0, <1>2, <2>1 DEF ReloadOK, ReloadFails
  <1>3. CASE Borrow(t) \/ Close(t) \/ Discard(t) \/ CloseStep(t)
    BY <1>0, <1>3 DEF Borrow, Close, Discard, CloseStep, Drain, DrainClose,
        DrainEmpty, Wake
  <1>4. CASE \/ GetSlot(t) \/ GetTimesOut(t) \/ CheckDrawn(t) \/ DropDrawn(t)
             \/ RepostSentinel(t) \/ BuildSnapshot(t) \/ ConstructFails(t)
             \/ CheckStale(t)
    BY <1>0, <1>4 DEF GetSlot, GetTimesOut, CheckDrawn, DropDrawn, RepostSentinel,
        BuildSnapshot, ConstructFails, CheckStale
  <1>5. CASE LoanStep(t)
    BY <1>0, <1>5 DEF LoanStep, EvalReturns, EvalPoisons, Release, CountRecreated,
        PutPlaceholder, CloseReleased, PutBack
  <1>. QED
    BY <1>1, <1>2, <1>3, <1>4, <1>5 DEF Step, BorrowStep

\* A step of t that gives it phase p, since s and sees v changes the service's
\* variables at t and nowhere else.
LEMMA BarsChange ==
    ASSUME NEW t \in Threads, OthersKeep(t)
    PROVE  /\ PhaseBar' = [PhaseBar EXCEPT ![t] = PhaseBar'[t]]
           /\ SinceBar' = [SinceBar EXCEPT ![t] = SinceBar'[t]]
           /\ SeesBar'  = [SeesBar  EXCEPT ![t] = SeesBar'[t]]
  <1>1. \A u \in Threads \ {t} :
            /\ PhaseBar'[u] = PhaseBar[u]
            /\ SinceBar'[u] = SinceBar[u]
            /\ SeesBar'[u] = SeesBar[u]
    BY DEF OthersKeep, PhaseBar, SinceBar, SeesBar
  <1>. QED  BY <1>1, ZenonT(30) DEF PhaseBar, SinceBar, SeesBar

\* What the service sees of thread t.
LEMMA BarsAt ==
    ASSUME NEW t \in Threads
    PROVE  /\ PhaseBar[t] = PhaseOf(pc[t])
           /\ SinceBar[t] = IF PhaseOf(pc[t]) = "none" THEN 0 ELSE start[t]
           /\ pc[t] = "reload" => SeesBar[t] = snap[t]
           /\ pc[t] = "loan" => SeesBar[t] = instDoc[slot[t]]
           /\ pc[t] \notin {"reload", "loan"} => SeesBar[t] = 0
           /\ PhaseBar'[t] = PhaseOf(pc'[t])
           /\ SinceBar'[t] = IF PhaseOf(pc'[t]) = "none" THEN 0 ELSE start'[t]
           /\ pc'[t] = "reload" => SeesBar'[t] = snap'[t]
           /\ pc'[t] = "loan" => SeesBar'[t] = instDoc'[slot'[t]]
           /\ pc'[t] \notin {"reload", "loan"} => SeesBar'[t] = 0
  BY DEF PhaseBar, SinceBar, SeesBar

\* A step that leaves what the service sees of t alone is no step of it.
LEMMA Stutters ==
    ASSUME NEW t \in Threads, OthersKeep(t),
           PhaseBar'[t] = PhaseBar[t], SinceBar'[t] = SinceBar[t],
           SeesBar'[t] = SeesBar[t], version' = version, closed' = closed
    PROVE  UNCHANGED Service!vars
  <1>1. /\ PhaseBar = [u \in Threads |-> PhaseBar[u]]
        /\ SinceBar = [u \in Threads |-> SinceBar[u]]
        /\ SeesBar = [u \in Threads |-> SeesBar[u]]
    BY DEF PhaseBar, SinceBar, SeesBar
  <1>2. PhaseBar' = PhaseBar /\ SinceBar' = SinceBar /\ SeesBar' = SeesBar
    BY <1>1, BarsChange
  <1>. QED  BY <1>2 DEF Service!vars

\* The service counts its leases with the pool's own Cardinality.
LEMMA SameCardinality == \A S : Service!Cardinality(S) = Cardinality(S)
  BY DEF Service!Cardinality, Cardinality

\* A granted thread had drawn one of the MaxSize slots, and so had every
\* thread that holds a lease.
LEMMA RoomForGrant ==
    ASSUME Inv, OpenInv, ~closed, NEW t \in Threads, pc[t] = "drawn"
    PROVE  Cardinality(Service!Leases) < MaxSize
  <1>1. IsFiniteSet(Holders) /\ Cardinality(Holders) \in Nat
    BY PoolAssumption, FS_Subset, FS_CardinalityType DEF Holders
  <1>2. t \in Holders /\ Service!Leases \subseteq Holders \ {t}
    <2>1. \A u \in Threads : pc[u] \in {"idle"} \cup BorrowPcs \cup ClosePcs
      BY DEF Inv, Core, TypeOK
    <2>2. ASSUME NEW u \in Threads, PhaseOf(pc[u]) \in Service!Serving
          PROVE  pc[u] \in HoldingPcs /\ u # t
      BY <2>1, <2>2 DEF PhaseOf, Service!Serving, BorrowPcs, ClosePcs, HoldingPcs
    <2>. QED  BY <2>2, BarsAt DEF Service!Leases, Holders, HoldingPcs
  <1>3. /\ IsFiniteSet(Holders \ {t})
        /\ Cardinality(Holders \ {t}) = Cardinality(Holders) - 1
    BY <1>1, <1>2, FS_RemoveElement
  <1>4. /\ Cardinality(Service!Leases) \in Nat
        /\ Cardinality(Service!Leases) <= Cardinality(Holders \ {t})
    BY <1>2, <1>3, FS_Subset, FS_CardinalityType
  <1>5. Len(idle) + Cardinality(Holders) = MaxSize /\ Len(idle) \in Nat
    BY LenProperties DEF OpenInv, SlotsConserved, Holders, Inv, Core, TypeOK
  <1>. QED  BY <1>1, <1>3, <1>4, <1>5, PoolAssumption

\* Every step of thread t is a step of the service or none.
LEMMA ThreadRefines ==
    ASSUME Inv, OpenInv, NEW t \in Threads,
           Borrow(t) \/ Close(t) \/ Discard(t) \/ Step(t)
    PROVE  [Service!Next]_(Service!vars)
  <1>. USE DEF Goto, Forget, queueVars, statVars, instVars, PhaseOf, ClosePcs
  <1>0. /\ pc \in [Threads -> {"idle"} \cup BorrowPcs \cup ClosePcs]
        /\ slot \in [Threads -> Slots]
        /\ snap \in [Threads -> Nat] /\ start \in [Threads -> Nat]
        /\ instDoc \in [Instances -> Nat] /\ closed \in BOOLEAN
    BY DEF Inv, Core, TypeOK
  <1>1. OthersKeep(t)
    BY StepLocal DEF Inv
  <1>2. /\ PhaseBar' = [PhaseBar EXCEPT ![t] = PhaseBar'[t]]
        /\ SinceBar' = [SinceBar EXCEPT ![t] = SinceBar'[t]]
        /\ SeesBar'  = [SeesBar  EXCEPT ![t] = SeesBar'[t]]
        /\ SinceBar'[t] = SinceBar[t] => SinceBar' = SinceBar
        /\ SeesBar'[t] = SeesBar[t] => SeesBar' = SeesBar
    <2>1. /\ SinceBar = [u \in Threads |-> SinceBar[u]]
          /\ SeesBar = [u \in Threads |-> SeesBar[u]]
      BY DEF SinceBar, SeesBar
    <2>2. /\ PhaseBar' = [PhaseBar EXCEPT ![t] = PhaseBar'[t]]
          /\ SinceBar' = [SinceBar EXCEPT ![t] = SinceBar'[t]]
          /\ SeesBar'  = [SeesBar  EXCEPT ![t] = SeesBar'[t]]
      BY <1>1, BarsChange
    <2>. QED  BY <2>1, <2>2
  <1>3. CASE Borrow(t)
    <2>1. CASE closed
      BY <1>0, <1>1, <1>3, <2>1, BarsAt, Stutters DEF Borrow
    <2>2. CASE ~closed
      <3>1. /\ pc[t] = "idle" /\ pc'[t] = "get" /\ start'[t] = version
            /\ PhaseOf(pc[t]) = "none" /\ PhaseOf(pc'[t]) = "waiting"
            /\ version' = version /\ closed' = closed
        BY <1>0, <1>3, <2>2 DEF Borrow
      <3>. HIDE DEF PhaseOf
      <3>2. /\ PhaseBar[t] = "none" /\ PhaseBar'[t] = "waiting"
            /\ SinceBar'[t] = version /\ SeesBar'[t] = SeesBar[t]
        BY <3>1, BarsAt
      <3>3. Service!Invoke(t)
        BY <1>2, <2>2, <3>1, <3>2 DEF Service!Invoke, Service!Move
      <3>. QED  BY <3>3 DEF Service!Next
    <2>. QED  BY <1>0, <2>1, <2>2
  <1>4. CASE GetTimesOut(t) \/ RepostSentinel(t)
    <2>1. BorrowTimeout \/ closed
      BY <1>4 DEF GetTimesOut, RepostSentinel, OpenInv, NoSentinelWhileOpen
    <2>2. /\ pc[t] \in {"get", "repost"} /\ pc'[t] = "idle"
          /\ PhaseOf(pc[t]) = "waiting" /\ PhaseOf(pc'[t]) = "none"
          /\ version' = version /\ closed' = closed
      BY <1>0, <1>4 DEF GetTimesOut, RepostSentinel
    <2>. HIDE DEF PhaseOf
    <2>3. /\ PhaseBar[t] = "waiting" /\ PhaseBar'[t] = "none"
          /\ SinceBar'[t] = 0 /\ SeesBar'[t] = SeesBar[t]
      BY <2>2, BarsAt
    <2>4. Service!Refuse(t)
      BY <1>2, <2>1, <2>2, <2>3 DEF Service!Refuse, Service!Move
    <2>. QED  BY <2>4 DEF Service!Next
  <1>5. CASE CheckDrawn(t)
    <2>1. CASE closed
      BY <1>0, <1>1, <1>5, <2>1, BarsAt, Stutters DEF CheckDrawn
    <2>2. CASE ~closed
      <3>1. Cardinality(Service!Leases) < MaxSize
        BY <1>5, <2>2, RoomForGrant DEF CheckDrawn
      <3>2. slot[t] # CloseSentinel
        BY <2>2 DEF OpenInv, NoSentinelWhileOpen
      <3>3. pc[t] = "drawn" /\ pc'[t] \in {"build", "check"}
        BY <1>0, <1>5, <2>2, <3>2 DEF CheckDrawn
      <3>4. /\ version' = version /\ closed' = closed /\ start' = start
            /\ PhaseOf(pc[t]) = "waiting" /\ PhaseOf(pc'[t]) = "leased"
        BY <1>5, <3>3 DEF CheckDrawn
      <3>5. /\ PhaseBar[t] = "waiting" /\ PhaseBar' = [PhaseBar EXCEPT ![t] = "leased"]
            /\ SinceBar' = SinceBar /\ SeesBar' = SeesBar
        <4>. HIDE DEF PhaseOf
        <4>. QED  BY <1>2, <3>3, <3>4, BarsAt
      <3>6. Service!Grant(t)
        BY <2>2, <3>1, <3>4, <3>5, SameCardinality DEF Service!Grant, Service!Move
      <3>. QED  BY <3>6 DEF Service!Next
    <2>. QED  BY <1>0, <2>1, <2>2
  <1>6. CASE ConstructFails(t) \/ ReloadFails(t) \/ EvalReturns(t) \/ EvalPoisons(t)
    <2>1. /\ PhaseOf(pc[t]) \in {"leased", "pinned"} /\ PhaseOf(pc'[t]) = "returning"
          /\ pc'[t] \notin {"reload", "loan"}
          /\ version' = version /\ closed' = closed /\ start' = start
      BY <1>0, <1>6 DEF ConstructFails, ReloadFails, EvalReturns, EvalPoisons
    <2>. HIDE DEF PhaseOf
    <2>2. /\ PhaseBar[t] \in {"leased", "pinned"} /\ PhaseBar'[t] = "returning"
          /\ SinceBar'[t] = SinceBar[t] /\ SeesBar'[t] = 0
      BY <2>1, BarsAt
    <2>3. Service!Answer(t)
      BY <1>2, <2>1, <2>2 DEF Service!Answer, Service!Move
    <2>. QED  BY <2>3 DEF Service!Next
  <1>7. CASE CheckStale(t)
    <2>1. instDoc[slot[t]] = instVersion[slot[t]]
      BY <1>7, HoldsLive DEF CheckStale, WithInstance, Inv, Core, TagsHonest, Quarantined
    <2>2. SeesBar'[t] = version
      BY <1>0, <1>7, <2>1, BarsAt DEF CheckStale
    <2>3. /\ PhaseOf(pc[t]) = "leased" /\ PhaseOf(pc'[t]) = "pinned"
          /\ version' = version /\ closed' = closed /\ start' = start
      BY <1>0, <1>7 DEF CheckStale
    <2>. HIDE DEF PhaseOf
    <2>4. /\ PhaseBar[t] = "leased" /\ PhaseBar'[t] = "pinned"
          /\ SinceBar'[t] = SinceBar[t]
      BY <2>3, BarsAt
    <2>5. Service!Pin(t)
      BY <1>2, <2>2, <2>3, <2>4 DEF Service!Pin, Service!Move
    <2>. QED  BY <2>5 DEF Service!Next
  <1>8. CASE ReloadOK(t)
    <2>1. slot[t] \in Instances
      BY <1>8, HoldsLive DEF ReloadOK, WithInstance, Inv
    <2>. QED  BY <1>0, <1>1, <1>8, <2>1, BarsAt, Stutters DEF ReloadOK
  <1>9. CASE PutPlaceholder(t) \/ PutBack(t)
    <2>1. /\ PhaseOf(pc[t]) = "returning" /\ PhaseOf(pc'[t]) = "none"
          /\ pc[t] \notin {"reload", "loan"} /\ pc'[t] \notin {"reload", "loan"}
          /\ version' = version /\ closed' = closed
      BY <1>0, <1>9 DEF PutPlaceholder, PutBack
    <2>. HIDE DEF PhaseOf
    <2>2. /\ PhaseBar[t] = "returning" /\ PhaseBar'[t] = "none"
          /\ SinceBar'[t] = 0 /\ SeesBar'[t] = SeesBar[t]
      BY <2>1, BarsAt
    <2>3. Service!GiveBack(t)
      BY <1>2, <2>1, <2>2 DEF Service!GiveBack, Service!Move
    <2>. QED  BY <2>3 DEF Service!Next
  <1>10. CASE Close(t)
    <2>1. CASE closed
      BY <1>0, <1>1, <1>10, <2>1, BarsAt, Stutters DEF Close
    <2>2. CASE ~closed
      <3>1. PhaseBar'[t] = PhaseBar[t] /\ SinceBar'[t] = SinceBar[t]
            /\ SeesBar'[t] = SeesBar[t]
        BY <1>0, <1>10, <2>2, BarsAt DEF Close
      <3>2. PhaseBar' = PhaseBar
        BY <1>2, <3>1, ZenonT(30) DEF PhaseBar
      <3>3. Service!Shut
        BY <1>2, <1>10, <2>2, <3>1, <3>2 DEF Close, Service!Shut
      <3>. QED  BY <3>3 DEF Service!Next
    <2>. QED  BY <1>0, <2>1, <2>2
  <1>11. CASE \/ GetSlot(t) \/ DropDrawn(t) \/ BuildSnapshot(t) \/ ConstructOK(t)
              \/ Release(t) \/ CountRecreated(t) \/ CloseReleased(t)
    <2>1. version' = version /\ closed' = closed /\ start' = start
      BY <1>11 DEF GetSlot, DropDrawn, BuildSnapshot, ConstructOK, Release,
          CountRecreated, CloseReleased
    <2>2. /\ PhaseOf(pc'[t]) = PhaseOf(pc[t])
          /\ pc[t] \notin {"reload", "loan"} /\ pc'[t] \notin {"reload", "loan"}
      BY <1>0, <1>11 DEF GetSlot, DropDrawn, BuildSnapshot, ConstructOK, Release,
          CountRecreated, CloseReleased
    <2>. HIDE DEF PhaseOf
    <2>3. /\ PhaseBar'[t] = PhaseBar[t] /\ SinceBar'[t] = SinceBar[t]
          /\ SeesBar'[t] = SeesBar[t]
      BY <2>1, <2>2, BarsAt
    <2>. QED  BY <1>1, <2>1, <2>3, Stutters
  <1>12. CASE Discard(t) \/ CloseStep(t)
    <2>1. CASE Discard(t)
      BY <1>1, <2>1, BarsAt, Stutters DEF Discard
    <2>2. CASE CloseStep(t)
      <3>1. version' = version /\ closed' = closed
        BY <2>2 DEF CloseStep, Drain, DrainClose, DrainEmpty, Wake
      <3>2. /\ PhaseOf(pc[t]) = "none" /\ PhaseOf(pc'[t]) = "none"
            /\ pc[t] \notin {"reload", "loan"} /\ pc'[t] \notin {"reload", "loan"}
        BY <1>0, <2>2 DEF CloseStep, Drain, DrainClose, DrainEmpty, Wake
      <3>. HIDE DEF PhaseOf
      <3>3. /\ PhaseBar'[t] = PhaseBar[t] /\ SinceBar'[t] = SinceBar[t]
            /\ SeesBar'[t] = SeesBar[t]
        BY <3>2, BarsAt
      <3>. QED  BY <1>1, <3>1, <3>3, Stutters
    <2>. QED  BY <1>12, <2>1, <2>2
  <1>. QED
    BY <1>3, <1>4, <1>5, <1>6, <1>7, <1>8, <1>9, <1>10, <1>11, <1>12
       DEF Step, BorrowStep, LoanStep

\* Every step of the pool, set_data() included, is a step of the service or none.
LEMMA NextRefines ==
    Inv /\ OpenInv /\ [Next]_vars => [Service!Next]_(Service!vars)
  <1>. SUFFICES ASSUME Inv, OpenInv, [Next]_vars
                PROVE  [Service!Next]_(Service!vars)
    OBVIOUS
  <1>1. CASE \E t \in Threads : Borrow(t) \/ Close(t) \/ Discard(t) \/ Step(t)
    BY <1>1, ThreadRefines
  <1>2. CASE SetData
    <2>1. Service!Publish
      BY <1>2 DEF SetData, queueVars, instVars, Service!Publish, PhaseBar, SinceBar,
          SeesBar
    <2>. QED  BY <2>1 DEF Service!Next
  <1>3. CASE UNCHANGED vars
    BY <1>3 DEF vars, queueVars, statVars, instVars, Service!vars, PhaseBar, SinceBar,
        SeesBar
  <1>. QED  BY <1>1, <1>2, <1>3 DEF Next, Finished

\* The pool keeps the service's promise: at most max_size callers served at a
\* time, none granted after close(), each pinned to a version in force after
\* its call began, the guest holding exactly that version during evaluation.
THEOREM PoolImplementsService == Spec => ImplementsService
  <1>1. Service!Init /\ [][Service!Next]_(Service!vars) => Service!Spec
    BY DEF Service!Spec
  <1>. QED
    BY <1>1, InitRefines, NextRefines, Invariance, OpenInvariance, PTL
       DEF Spec, ImplementsService

\* One more lease is at most one more in number.
LEMMA OneMore ==
    ASSUME NEW S, IsFiniteSet(S), NEW x
    PROVE  /\ IsFiniteSet(S \cup {x})
           /\ Cardinality(S \cup {x}) \in Nat
           /\ Cardinality(S \cup {x}) <= Cardinality(S) + 1
  <1>1. IsFiniteSet(S \cup {x})
    BY FS_AddElement
  <1>2. Cardinality(S \cup {x}) \in {Cardinality(S), Cardinality(S) + 1}
    BY FS_AddElement
  <1>3. Cardinality(S) \in Nat /\ Cardinality(S \cup {x}) \in Nat
    BY <1>1, FS_CardinalityType
  <1>. QED  BY <1>1, <1>2, <1>3

\* Only a grant adds to the leases, and it finds one free.
LEMMA LeasesStep ==
    ASSUME EvaluationsBounded, [Service!Next]_(Service!vars)
    PROVE  EvaluationsBounded'
  <1>1. /\ IsFiniteSet(Service!Leases) /\ Cardinality(Service!Leases) \in Nat
        /\ IsFiniteSet(Threads)
    BY PoolAssumption, FS_Subset, FS_CardinalityType DEF Service!Leases
  <1>2. CASE (Service!Leases)' \subseteq Service!Leases
    BY <1>1, <1>2, FS_Subset, FS_CardinalityType, PoolAssumption DEF EvaluationsBounded
  <1>3. ASSUME NEW t \in Threads, Service!Grant(t)
        PROVE  EvaluationsBounded'
    <2>1. (Service!Leases)' \subseteq Service!Leases \cup {t}
      BY <1>3 DEF Service!Grant, Service!Move, Service!Leases, Service!Serving, PhaseBar
    <2>2. /\ IsFiniteSet(Service!Leases \cup {t})
          /\ Cardinality(Service!Leases \cup {t}) \in Nat
          /\ Cardinality(Service!Leases \cup {t}) <= Cardinality(Service!Leases) + 1
      BY <1>1, OneMore
    <2>3. Cardinality(Service!Leases) < MaxSize
      BY <1>3, SameCardinality DEF Service!Grant
    <2>. QED
      BY <1>1, <2>1, <2>2, <2>3, FS_Subset, FS_CardinalityType, PoolAssumption
         DEF EvaluationsBounded
  <1>4. CASE Service!Publish \/ Service!Shut \/ UNCHANGED Service!vars
    BY <1>2, <1>4 DEF Service!Publish, Service!Shut, Service!vars, Service!Leases
  <1>5. ASSUME NEW t \in Threads,
               \/ Service!Invoke(t) \/ Service!Refuse(t) \/ Service!Pin(t)
               \/ Service!Answer(t) \/ Service!GiveBack(t)
        PROVE  EvaluationsBounded'
    <2>1. (Service!Leases)' \subseteq Service!Leases
      BY <1>5 DEF Service!Invoke, Service!Refuse, Service!Pin, Service!Answer,
          Service!GiveBack, Service!Move, Service!Leases, Service!Serving, PhaseBar
    <2>. QED  BY <1>2, <2>1
  <1>. QED  BY <1>3, <1>4, <1>5 DEF Service!Next

\* There are never more evaluations at once than the pool has slots, before, during
\* and after close().
THEOREM EvaluationsAreBounded == Spec => []EvaluationsBounded
  <1>1. Init => EvaluationsBounded
    <2>1. ASSUME Init PROVE Service!Leases = {}
      BY <2>1, InitRefines DEF Service!Init, Service!Leases, Service!Serving
    <2>. QED  BY <2>1, FS_EmptySet, PoolAssumption DEF EvaluationsBounded
  <1>2. Inv /\ OpenInv /\ EvaluationsBounded /\ [Next]_vars => EvaluationsBounded'
    BY NextRefines, LeasesStep
  <1>. QED  BY <1>1, <1>2, Invariance, OpenInvariance, PTL DEF Spec
=============================================================================
