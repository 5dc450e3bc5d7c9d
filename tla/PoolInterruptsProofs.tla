------------------------ MODULE PoolInterruptsProofs ------------------------
(***************************************************************************)
(* Theorems about PoolInterrupts, for every set of threads, pool size and  *)
(* bound: what asynchronous exceptions may cost the pool and what they     *)
(* may not.                                                                *)
(***************************************************************************)
EXTENDS PoolInterrupts, InstancePoolProofs

-----------------------------------------------------------------------------
(* The inductive invariant *)

\* The threads that are about to add an instance, and those that have given
\* their slot back and still have an instance to close.
Builders == {t \in Threads : pc[t] \in {"build", "construct"}}
Closers  == {t \in Threads : pc[t] \in {"closeInst", "drop"}}

\* Instances in the queue, and in the hands of threads at the steps S.
Queued    == {idle[n] : n \in DOMAIN idle} \cap Instances
HeldAt(S) == {slot[t] : t \in {u \in Threads : pc[u] \in S}} \cap Instances
Placed(S) == Queued \cup HeldAt(S)

\* The steps of a thread whose instance is not yet counted as replaced, and
\* not yet closed.
InUse == HoldingPcs \ {"putNone"}
Open  == HoldingPcs \cup {"closeInst"}

Histories == lost \in Nat /\ leaked \subseteq alive

\* No one refers to a forgotten instance.
LeakedApart ==
    /\ \A t \in Threads : slot[t] \notin leaked
    /\ \A n \in DOMAIN idle : idle[n] \notin leaked

\* In an open pool every instance that was built is in use, counted as
\* replaced or forgotten, and every open Store is forgotten or has a place.
BuiltAccounted ==
    ~closed => created <= Cardinality(Placed(InUse)) + recreated + Cardinality(leaked)
AliveAccounted ==
    ~closed => alive \subseteq leaked \cup Placed(Open)

\* In any pool, with room for the instances that are being built.
BuiltBounded ==
    created + Cardinality(Builders) <= MaxSize + recreated + Cardinality(leaked)
AliveBounded ==
    Cardinality(alive \ leaked) + Cardinality(Builders) <= MaxSize + Cardinality(Closers)

\* An interrupted reload leaves a document that is not the tag's under a tag
\* that is behind, so the next check loads again; on loan the tag is right.
TagsHonestOrBehind ==
    \A i \in Instances :
        i \notin poisoned => instDoc[i] = instVersion[i] \/ instVersion[i] < version
LoansHonest ==
    \A t \in Threads : pc[t] = "loan" => instDoc[slot[t]] = instVersion[slot[t]]

IInv == /\ Core /\ NoSentinelWhileOpen /\ SlotsAccounted
        /\ Histories /\ LeakedApart
        /\ BuiltAccounted /\ AliveAccounted /\ BuiltBounded /\ AliveBounded
        /\ TagsHonestOrBehind /\ LoansHonest

\* The operations of a thread.
ThreadStep(t) == Borrow(t) \/ Close(t) \/ Discard(t) \/ Step(t)

-----------------------------------------------------------------------------
(* The core survives interrupts *)

\* Leaving borrow() or close() with nothing in hand.
LEMMA UnwindsCore ==
    ASSUME Core, NEW t \in Threads, Unwinds(t), idle' = idle, closed' = closed,
           closeLock' = IF pc[t] \in ClosePcs THEN None ELSE closeLock
    PROVE  Core'
  <1>. USE DEF Unwinds, Forget, statVars, instVars
  <1>1. TypeOK'
    BY SlotFacts DEF Core, TypeOK, ClosePcs, BorrowPcs, HoldingPcs
  <1>2. SlotShape'
    BY DEF Core, TypeOK, SlotShape, WithInstance, EmptyHanded
  <1>3. ExclusiveLoan' /\ HeldIsLive'
    BY SlotFacts DEF Core, TypeOK, ExclusiveLoan, HeldIsLive
  <1>4. TagsBehind'
    BY DEF Core, TagsBehind
  <1>5. Quarantined'
    BY DEF Core, TypeOK, Quarantined
  <1>6. SnapshotsFresh'
    BY DEF Core, TypeOK, SnapshotsFresh
  <1>. QED  BY <1>1, <1>2, <1>3, <1>4, <1>5, <1>6 DEF Core

\* An interrupt breaks no rule of who holds what, wherever it strikes.
LEMMA InterruptCore ==
    ASSUME Core, NEW t \in Threads, Interrupt(t)
    PROVE  Core'
  <1>1. CASE LoseSlot(t) \/ LeaveTakeSlot(t) \/ LeaveClosing(t) \/ LeaveClose(t)
    <2>1. /\ Unwinds(t) /\ idle' = idle /\ closed' = closed
          /\ closeLock' = IF pc[t] \in ClosePcs THEN None ELSE closeLock
      BY <1>1 DEF LoseSlot, LeaveTakeSlot, LeaveClosing, LeaveClose, queueVars, ClosePcs
    <2>. QED  BY <2>1, UnwindsCore
  <1>2. CASE LeaveBuild(t)
    <2>. USE <1>2 DEF LeaveBuild, queueVars, statVars, instVars
    <2>1. TypeOK'
      BY SlotFacts DEF Core, TypeOK, ClosePcs, BorrowPcs, HoldingPcs
    <2>2. SlotShape'
      BY DEF Core, TypeOK, SlotShape, WithInstance, EmptyHanded
    <2>3. ExclusiveLoan' /\ HeldIsLive'
      BY SlotFacts DEF Core, TypeOK, ExclusiveLoan, HeldIsLive
    <2>4. TagsBehind' /\ Quarantined' /\ SnapshotsFresh'
      BY DEF Core, TypeOK, TagsBehind, Quarantined, SnapshotsFresh
    <2>. QED  BY <2>1, <2>2, <2>3, <2>4 DEF Core
  <1>3. CASE LeaveCheck(t) \/ LeaveReload(t)
    <2>. USE DEF LeaveCheck, LeaveReload, queueVars, statVars, instVars
    <2>1. slot[t] \in Instances /\ pc[t] \in {"check", "reload"}
      BY <1>3, HoldsLive DEF WithInstance
    <2>2. /\ pc' = [pc EXCEPT ![t] = "release"] /\ instDoc' \in [Instances -> Nat]
          /\ UNCHANGED <<queueVars, statVars, version, alive, poisoned, instVersion,
                         slot, snap, discarded, start, calls>>
      <3>1. CASE LeaveCheck(t)
        BY <3>1 DEF Core, TypeOK
      <3>2. CASE LeaveReload(t)
        <4>1. PICK d \in {0, instDoc[slot[t]], snap[t]} :
                  instDoc' = [instDoc EXCEPT ![slot[t]] = d]
          BY <3>2
        <4>2. d \in Nat /\ instDoc \in [Instances -> Nat]
          BY <2>1 DEF Core, TypeOK
        <4>. QED  BY <2>1, <3>2, <4>1, <4>2
      <3>. QED  BY <1>3, <3>1, <3>2
    <2>3. TypeOK'
      BY <2>1, <2>2 DEF Core, TypeOK, ClosePcs, BorrowPcs, HoldingPcs
    <2>4. SlotShape'
      BY <2>1, <2>2 DEF Core, TypeOK, SlotShape, WithInstance, EmptyHanded
    <2>5. ExclusiveLoan' /\ HeldIsLive'
      BY <2>2 DEF Core, ExclusiveLoan, HeldIsLive
    <2>6. TagsBehind' /\ Quarantined' /\ SnapshotsFresh'
      BY <2>2 DEF Core, TypeOK, TagsBehind, Quarantined, SnapshotsFresh
    <2>. QED  BY <2>3, <2>4, <2>5, <2>6 DEF Core
  <1>. QED  BY <1>1, <1>2, <1>3 DEF Interrupt

-----------------------------------------------------------------------------
(* Slots *)

\* An interrupt lets no sentinel into an open pool.
LEMMA InterruptOpen ==
    ASSUME Core, NoSentinelWhileOpen, NEW t \in Threads, Interrupt(t)
    PROVE  NoSentinelWhileOpen'
  <1>. SUFFICES ASSUME ~closed' PROVE NoSentinelWhileOpen'
    BY DEF NoSentinelWhileOpen
  <1>1. /\ idle' = idle /\ closed' = closed
        /\ \A u \in Threads \ {t} : pc'[u] = pc[u] /\ slot'[u] = slot[u]
        /\ pc'[t] \in {"idle", "putNone", "release"} /\ slot'[t] \in {slot[t], None}
    BY DEF Core, TypeOK, Interrupt, LoseSlot, LeaveTakeSlot, LeaveBuild, LeaveCheck,
       LeaveReload, LeaveClosing, LeaveClose, Unwinds, queueVars
  <1>. QED  BY <1>1, SlotFacts DEF NoSentinelWhileOpen, ClosePcs

\* Only LoseSlot costs an open pool a slot.
LEMMA InterruptSlots ==
    ASSUME Core, NoSentinelWhileOpen, SlotsAccounted, Histories,
           NEW t \in Threads, Interrupt(t)
    PROVE  SlotsAccounted'
  <1>. SUFFICES ASSUME ~closed'
                PROVE  Len(idle') + Cardinality(Holders') + lost' = MaxSize
    BY DEF SlotsAccounted, Holders
  <1>0. /\ idle' = idle /\ closed' = closed /\ Len(idle) \in Nat
        /\ pc \in [Threads -> {"idle"} \cup BorrowPcs \cup ClosePcs]
        /\ lost \in Nat /\ MaxSize \in Nat
    BY PoolAssumption, LenProperties
       DEF Core, TypeOK, Histories, Interrupt, LoseSlot, LeaveTakeSlot, LeaveBuild,
           LeaveCheck, LeaveReload, LeaveClosing, LeaveClose, queueVars
  <1>1. IsFiniteSet(Holders) /\ Cardinality(Holders) \in Nat
    BY PoolAssumption, FS_Subset, FS_CardinalityType DEF Holders
  <1>2. Len(idle) + Cardinality(Holders) + lost = MaxSize
    BY <1>0 DEF SlotsAccounted, Holders
  <1>3. CASE LoseSlot(t)
    <2>1. Holders' = Holders \ {t} /\ t \in Holders /\ lost' = lost + 1
      BY <1>0, <1>3 DEF LoseSlot, Unwinds, Holders, HoldingPcs
    <2>2. Cardinality(Holders') = Cardinality(Holders) - 1
      BY <1>1, <2>1, FS_RemoveElement
    <2>. QED  BY <1>0, <1>1, <1>2, <2>1, <2>2
  <1>4. CASE LeaveTakeSlot(t) \/ LeaveClosing(t) \/ LeaveClose(t)
    <2>1. pc[t] \in {"get", "closeInst"}
      BY <1>0, <1>4 DEF LeaveTakeSlot, LeaveClosing, LeaveClose, NoSentinelWhileOpen
    <2>2. Holders' = Holders /\ lost' = lost
      BY <1>0, <1>4, <2>1 DEF LeaveTakeSlot, LeaveClosing, LeaveClose, Unwinds,
         Holders, HoldingPcs
    <2>. QED  BY <1>0, <1>2, <2>2
  <1>5. CASE LeaveBuild(t) \/ LeaveCheck(t) \/ LeaveReload(t)
    <2>1. Holders' = Holders /\ lost' = lost
      BY <1>0, <1>5 DEF LeaveBuild, LeaveCheck, LeaveReload, Holders, HoldingPcs
    <2>. QED  BY <1>0, <1>2, <2>1
  <1>. QED  BY <1>3, <1>4, <1>5 DEF Interrupt

\* No step of a thread costs a slot.
LEMMA ThreadSlots ==
    ASSUME Core, NoSentinelWhileOpen, SlotsAccounted, Histories,
           NEW t \in Threads, ThreadStep(t), lost' = lost
    PROVE  SlotsAccounted'
  <1>. SUFFICES ASSUME ~closed'
                PROVE  Len(idle') + Cardinality(Holders') + lost' = MaxSize
    BY DEF SlotsAccounted, Holders
  <1>1. ~closed
    BY StaysClosed DEF ThreadStep
  <1>2. Len(idle) + Cardinality(Holders) + lost = MaxSize
    BY <1>1 DEF SlotsAccounted, Holders
  <1>3. /\ Len(idle) \in Nat /\ Cardinality(Holders) \in Nat
        /\ lost \in Nat /\ MaxSize \in Nat
    BY PoolAssumption, LenProperties, FS_Subset, FS_CardinalityType
       DEF Core, TypeOK, Histories, Holders
  <1>4. Len(idle) + Cardinality(Holders) <= MaxSize
    BY <1>2, <1>3
  <1>5. Len(idle') + Cardinality(Holders') = Len(idle) + Cardinality(Holders)
    BY <1>4, ConserveStep DEF ThreadStep
  <1>. QED  BY <1>2, <1>5

-----------------------------------------------------------------------------
(* Forgotten instances *)

\* Where an instance is after a step of thread t.
LEMMA Moves ==
    ASSUME Core, NEW t \in Threads, ThreadStep(t)
    PROVE  /\ \A u \in Threads \ {t} : slot'[u] = slot[u]
           /\ slot'[t] \in Instances =>
                  slot'[t] = slot[t] \/ slot'[t] \in Queued \/ slot'[t] \notin 1..created
           /\ \A n \in DOMAIN idle' :
                  idle'[n] \in Instances => idle'[n] \in Queued \/ idle'[n] = slot[t]
  <1>. USE DEF Goto, queueVars, statVars, instVars, ThreadStep
  <1>0. /\ slot \in [Threads -> Slots] /\ idle \in Seq(Slots) /\ Len(idle) <= MaxSize
        /\ created \in Nat
    BY DEF Core, TypeOK
  <1>1. CASE UNCHANGED <<idle, slot>>
    BY <1>0, <1>1 DEF Queued
  <1>2. CASE GetSlot(t) \/ Drain(t)
    <2>1. /\ 1 \in DOMAIN idle /\ Head(idle) = idle[1]
          /\ \A n \in DOMAIN idle' : n + 1 \in DOMAIN idle /\ idle'[n] = idle[n + 1]
      BY <1>0, <1>2, GetShifts DEF GetSlot, Drain
    <2>. QED  BY <1>0, <1>2, <2>1, SlotFacts DEF GetSlot, Drain, Queued
  <1>3. CASE DropDrawn(t) \/ CloseReleased(t) \/ DrainClose(t)
    BY <1>0, <1>3, SlotFacts DEF DropDrawn, CloseReleased, DrainClose, Queued
  <1>4. CASE RepostSentinel(t) \/ PutPlaceholder(t) \/ Wake(t) \/ PutBack(t)
    <2>1. \A n \in DOMAIN idle' :
              idle'[n] \in Instances =>
                  (n \in DOMAIN idle /\ idle'[n] = idle[n]) \/ idle'[n] = slot[t]
      BY <1>0, <1>4, PutBounded, SlotFacts
         DEF RepostSentinel, PutPlaceholder, Wake, PutBack
    <2>2. /\ \A u \in Threads \ {t} : slot'[u] = slot[u]
          /\ slot'[t] \in {slot[t], None}
      BY <1>0, <1>4 DEF RepostSentinel, PutPlaceholder, Wake, PutBack
    <2>. QED  BY <2>1, <2>2, SlotFacts DEF Queued
  <1>5. CASE ConstructOK(t)
    BY <1>0, <1>5 DEF ConstructOK, Queued
  <1>6. CASE \/ Borrow(t) \/ GetTimesOut(t) \/ CheckDrawn(t) \/ BuildSnapshot(t)
             \/ ConstructFails(t) \/ CheckStale(t) \/ ReloadOK(t) \/ ReloadFails(t)
             \/ EvalReturns(t) \/ EvalPoisons(t) \/ Discard(t) \/ Release(t)
             \/ CountRecreated(t) \/ Close(t) \/ DrainEmpty(t)
    BY <1>1, <1>6 DEF Borrow, GetTimesOut, CheckDrawn, BuildSnapshot, ConstructFails,
       CheckStale, ReloadOK, ReloadFails, EvalReturns, EvalPoisons, Discard, Release,
       CountRecreated, Close, DrainEmpty
  <1>. QED
    BY <1>2, <1>3, <1>4, <1>5, <1>6 DEF Step, BorrowStep, LoanStep, CloseStep

\* A thread closes only the instance in its hands.
LEMMA ThreadAlive ==
    ASSUME NEW t \in Threads, ThreadStep(t)
    PROVE  \/ alive' = alive
           \/ ConstructOK(t) /\ alive' = alive \cup {created'}
           \/ /\ DropDrawn(t) \/ CloseReleased(t) \/ DrainClose(t)
              /\ alive' = alive \ {slot[t]}
  BY DEF ThreadStep, Borrow, Close, Discard, Step, BorrowStep, GetSlot, GetTimesOut,
     CheckDrawn, DropDrawn, RepostSentinel, BuildSnapshot, ConstructOK, ConstructFails,
     CheckStale, ReloadOK, ReloadFails, LoanStep, EvalReturns, EvalPoisons, Release,
     CountRecreated, PutPlaceholder, CloseReleased, PutBack, CloseStep, Drain,
     DrainClose, DrainEmpty, Wake, instVars

\* A step of a thread touches no forgotten instance.
LEMMA ThreadLeaks ==
    ASSUME Core, Histories, LeakedApart, NEW t \in Threads, ThreadStep(t),
           lost' = lost, leaked' = leaked
    PROVE  Histories' /\ LeakedApart'
  <1>1. Histories'
    BY ThreadAlive DEF Histories, LeakedApart
  <1>2. leaked \subseteq 1..created /\ 1..created \subseteq Instances
    BY PoolAssumption DEF Histories, Core, TypeOK, Instances
  <1>3. Queued \cap leaked = {} /\ slot[t] \notin leaked
    BY DEF Queued, LeakedApart
  <1>4. \A u \in Threads : slot'[u] \notin leaked
    BY <1>2, <1>3, Moves DEF LeakedApart
  <1>5. \A n \in DOMAIN idle' : idle'[n] \notin leaked
    BY <1>2, <1>3, Moves
  <1>. QED  BY <1>1, <1>4, <1>5 DEF LeakedApart

\* An interrupt forgets at most the instance in the hands of its thread, which
\* is then nowhere else.
LEMMA InterruptMoves ==
    ASSUME Core, NEW t \in Threads, Interrupt(t)
    PROVE  /\ UNCHANGED <<idle, closed, created, recreated, alive>>
           /\ \A u \in Threads \ {t} : pc'[u] = pc[u] /\ slot'[u] = slot[u]
           /\ \/ slot'[t] = None /\ leaked' = leaked \cup ({slot[t]} \cap Instances)
              \/ slot'[t] = slot[t] /\ leaked' = leaked
           /\ lost' = IF LoseSlot(t) THEN lost + 1 ELSE lost
  BY DEF Core, TypeOK, Interrupt, LoseSlot, LeaveTakeSlot, LeaveBuild, LeaveCheck,
     LeaveReload, LeaveClosing, LeaveClose, Unwinds, Leaks, queueVars, statVars, instVars

\* What an interrupt makes the pool forget no one else refers to.
LEMMA InterruptLeaks ==
    ASSUME Core, Histories, LeakedApart, NEW t \in Threads, Interrupt(t)
    PROVE  Histories' /\ LeakedApart'
  <1>1. {slot[t]} \cap Instances \subseteq alive
    BY DEF Core, HeldIsLive
  <1>2. Histories'
    BY <1>1, InterruptMoves DEF Histories
  <1>3. None \notin leaked
    <2>1. leaked \subseteq Instances
      BY PoolAssumption DEF Histories, Core, TypeOK, Instances
    <2>. QED  BY <2>1, SlotFacts
  <1>4. LeakedApart'
    BY <1>3, InterruptMoves, SlotFacts DEF LeakedApart, Core, ExclusiveLoan
  <1>. QED  BY <1>2, <1>4

-----------------------------------------------------------------------------
(* The instances of an open pool *)

\* The instances with a place are finitely many.
LEMMA PlacedFinite ==
    ASSUME NEW S
    PROVE  IsFiniteSet(Placed(S)) /\ Cardinality(Placed(S)) \in Nat
  <1>1. IsFiniteSet(Instances)
    BY FS_Interval, PoolAssumption DEF Instances
  <1>2. Placed(S) \in SUBSET Instances
    BY DEF Placed, Queued, HeldAt
  <1>. QED  BY <1>1, <1>2, FS_Subset, FS_CardinalityType

\* An instance keeps its place in a step of thread t unless t counts it as
\* replaced or closes it; a new one gets a place.
LEMMA PlacesKept ==
    ASSUME Core, NoSentinelWhileOpen, ~closed',
           Len(idle) + Cardinality(Holders) <= MaxSize,
           NEW t \in Threads, ThreadStep(t), NEW S, S = InUse \/ S = Open
    PROVE  /\ \/ Placed(S) \subseteq Placed(S)'
              \/ /\ (S = InUse /\ CountRecreated(t)) \/ (S = Open /\ CloseReleased(t))
                 /\ Placed(S) \subseteq Placed(S)' \cup {slot[t]}
           /\ ConstructOK(t) => created' \in Placed(S)'
  <1>. USE DEF Goto, queueVars, statVars, instVars, ThreadStep
  <1>0. /\ slot \in [Threads -> Slots] /\ idle \in Seq(Slots) /\ Len(idle) <= MaxSize
        /\ pc \in [Threads -> {"idle"} \cup BorrowPcs \cup ClosePcs]
        /\ created \in Nat /\ SlotShape /\ ~closed
    BY StaysClosed DEF Core, TypeOK
  <1>1. ASSUME idle' = idle, slot' = slot,
               \A u \in Threads : pc[u] \in S /\ slot[u] \in Instances => pc'[u] \in S
        PROVE  Placed(S) \subseteq Placed(S)'
    BY <1>1 DEF Placed, Queued, HeldAt
  <1>2. CASE \/ Borrow(t) \/ GetTimesOut(t) \/ CheckDrawn(t) \/ BuildSnapshot(t)
             \/ ConstructFails(t) \/ CheckStale(t) \/ ReloadOK(t) \/ ReloadFails(t)
             \/ EvalReturns(t) \/ EvalPoisons(t) \/ Discard(t) \/ Release(t)
    <2>0. idle' = idle /\ slot' = slot /\ created' = created
      BY <1>2 DEF Borrow, GetTimesOut, CheckDrawn, BuildSnapshot, ConstructFails,
         CheckStale, ReloadOK, ReloadFails, EvalReturns, EvalPoisons, Discard, Release
    <2>1. idle' = idle /\ slot' = slot /\ ~ConstructOK(t)
      BY <1>0, <2>0 DEF ConstructOK
    <2>2. \A u \in Threads : pc[u] \in S /\ slot[u] \in Instances => pc'[u] \in S
      <3>1. \A u \in Threads \ {t} : pc'[u] = pc[u]
        BY <1>0, <1>2 DEF Borrow, GetTimesOut, CheckDrawn, BuildSnapshot, ConstructFails,
           CheckStale, ReloadOK, ReloadFails, EvalReturns, EvalPoisons, Discard, Release
      <3>2. CASE Borrow(t) \/ GetTimesOut(t) \/ Discard(t)
        BY <1>0, <3>1, <3>2 DEF Borrow, GetTimesOut, Discard, InUse, Open, HoldingPcs
      <3>3. CASE CheckDrawn(t)
        BY <1>0, <3>1, <3>3 DEF CheckDrawn, NoSentinelWhileOpen, InUse, Open, HoldingPcs
      <3>4. CASE BuildSnapshot(t) \/ ConstructFails(t)
        <4>1. slot[t] \notin Instances
          BY <1>0, <3>4, SlotFacts DEF BuildSnapshot, ConstructFails, SlotShape, EmptyHanded
        <4>. QED  BY <3>1, <4>1
      <3>5. CASE \/ CheckStale(t) \/ ReloadOK(t) \/ ReloadFails(t)
                 \/ EvalReturns(t) \/ EvalPoisons(t) \/ Release(t)
        BY <1>0, <3>1, <3>5 DEF CheckStale, ReloadOK, ReloadFails, EvalReturns,
           EvalPoisons, Release, InUse, Open, HoldingPcs
      <3>. QED  BY <1>2, <3>2, <3>3, <3>4, <3>5
    <2>. QED  BY <1>1, <2>1, <2>2
  <1>3. CASE GetSlot(t)
    <2>1. /\ Head(idle) = idle[1] /\ idle # <<>> /\ idle' = Tail(idle)
          /\ DOMAIN idle = 1..Len(idle) /\ DOMAIN Tail(idle) = 1..(Len(idle) - 1)
          /\ Len(idle) \in Nat
          /\ \A n \in 1..(Len(idle) - 1) : Tail(idle)[n] = idle[n + 1]
      BY <1>0, <1>3, QueueGet DEF GetSlot
    <2>2. \A n \in DOMAIN idle : n = 1 \/ (n - 1 \in DOMAIN idle' /\ idle'[n - 1] = idle[n])
      BY <2>1
    <2>3. Queued \subseteq Queued' \cup {idle[1]}
      BY <2>2 DEF Queued
    <2>4. /\ slot'[t] = idle[1] /\ pc'[t] = "drawn" /\ pc[t] = "get"
          /\ \A u \in Threads \ {t} : slot'[u] = slot[u] /\ pc'[u] = pc[u]
          /\ ~ConstructOK(t)
      BY <1>0, <1>3, <2>1 DEF GetSlot, ConstructOK
    <2>5. "drawn" \in S /\ "get" \notin S
      BY DEF InUse, Open, HoldingPcs
    <2>6. HeldAt(S) \subseteq HeldAt(S)' /\ (idle[1] \in Instances => idle[1] \in HeldAt(S)')
      BY <2>4, <2>5 DEF HeldAt
    <2>7. Placed(S) \subseteq Placed(S)'
      BY <2>3, <2>6 DEF Placed, Queued
    <2>. QED  BY <2>4, <2>7
  <1>4. CASE ConstructOK(t)
    <2>1. slot[t] \notin Instances
      BY <1>0, <1>4, SlotFacts DEF ConstructOK, SlotShape, EmptyHanded
    <2>2. /\ idle' = idle /\ slot'[t] = created' /\ pc'[t] = "check"
          /\ \A u \in Threads \ {t} : slot'[u] = slot[u] /\ pc'[u] = pc[u]
          /\ created' \in Instances
      BY <1>0, <1>4, PoolAssumption DEF ConstructOK, Instances
    <2>3. "check" \in S
      BY DEF InUse, Open, HoldingPcs
    <2>4. HeldAt(S) \subseteq HeldAt(S)' /\ created' \in HeldAt(S)'
      BY <2>1, <2>2, <2>3 DEF HeldAt
    <2>5. Queued' = Queued
      BY <2>2 DEF Queued
    <2>. QED  BY <2>4, <2>5 DEF Placed
  <1>5. CASE PutPlaceholder(t) \/ PutBack(t)
    <2>1. Len(idle) < MaxSize
      <3>1. t \in Holders
        BY <1>5 DEF PutPlaceholder, PutBack, Holders, HoldingPcs
      <3>2. IsFiniteSet(Holders) /\ Cardinality(Holders) \in Nat
        BY PoolAssumption, FS_Subset, FS_CardinalityType DEF Holders
      <3>3. Cardinality(Holders) # 0
        BY <3>1, <3>2, FS_EmptySet
      <3>. QED  BY <1>0, <3>2, <3>3, PoolAssumption, LenProperties
    <2>2. PICK x \in Slots : /\ idle' = Append(idle, x)
                             /\ PutBack(t) => x = slot[t]
      BY <1>0, <1>5, <2>1, SlotFacts DEF PutPlaceholder, PutBack, PutNowait
    <2>3. /\ DOMAIN idle = 1..Len(idle) /\ DOMAIN idle' = 1..(Len(idle) + 1)
          /\ Len(idle) \in Nat
          /\ \A n \in 1..Len(idle) : idle'[n] = idle[n]
          /\ idle'[Len(idle) + 1] = x
      BY <1>0, <2>2, QueuePut
    <2>4. Queued \subseteq Queued' /\ (x \in Instances => x \in Queued')
      <3>1. \A n \in DOMAIN idle : n \in DOMAIN idle' /\ idle'[n] = idle[n]
        BY <2>3
      <3>2. Len(idle) + 1 \in DOMAIN idle'
        BY <2>3
      <3>. QED  BY <2>3, <3>1, <3>2 DEF Queued
    <2>5. \A u \in Threads \ {t} : slot'[u] = slot[u] /\ pc'[u] = pc[u]
      BY <1>0, <1>5 DEF PutPlaceholder, PutBack
    <2>6. CASE PutBack(t)
      <3>1. HeldAt(S) \subseteq HeldAt(S)' \cup ({slot[t]} \cap Instances)
        BY <2>5 DEF HeldAt
      <3>. QED  BY <2>2, <2>4, <2>6, <3>1 DEF Placed, PutBack, ConstructOK
    <2>7. CASE PutPlaceholder(t)
      <3>1. slot' = slot /\ (pc[t] \in S /\ slot[t] \in Instances => pc'[t] \in S)
        BY <1>0, <2>7, SlotFacts DEF PutPlaceholder, InUse, Open, HoldingPcs
      <3>2. HeldAt(S) \subseteq HeldAt(S)'
        BY <2>5, <3>1 DEF HeldAt
      <3>. QED  BY <2>4, <2>7, <3>2 DEF Placed, PutPlaceholder, ConstructOK
    <2>. QED  BY <1>5, <2>6, <2>7
  <1>6. CASE CountRecreated(t)
    <2>1. /\ idle' = idle /\ slot' = slot /\ pc'[t] = "putNone" /\ ~ConstructOK(t)
          /\ \A u \in Threads \ {t} : pc'[u] = pc[u]
      BY <1>0, <1>6 DEF CountRecreated, ConstructOK
    <2>2. CASE S = Open
      BY <1>1, <2>1, <2>2 DEF Open, HoldingPcs
    <2>3. CASE S = InUse
      <3>1. Placed(S) \subseteq Placed(S)' \cup {slot[t]}
        BY <2>1 DEF Placed, Queued, HeldAt
      <3>. QED  BY <1>6, <2>1, <2>3, <3>1
    <2>. QED  BY <2>2, <2>3
  <1>7. CASE CloseReleased(t)
    <2>1. /\ idle' = idle /\ slot'[t] = None /\ pc[t] = "closeInst" /\ ~ConstructOK(t)
          /\ \A u \in Threads \ {t} : slot'[u] = slot[u] /\ pc'[u] = pc[u]
      BY <1>0, <1>7 DEF CloseReleased, ConstructOK
    <2>2. CASE S = Open
      BY <1>7, <2>1, <2>2 DEF Placed, Queued, HeldAt
    <2>3. CASE S = InUse
      <3>1. pc[t] \notin S
        BY <2>1, <2>3 DEF InUse, HoldingPcs
      <3>2. HeldAt(S) \subseteq HeldAt(S)' /\ Queued' = Queued
        BY <2>1, <3>1 DEF HeldAt, Queued
      <3>. QED  BY <2>1, <3>2 DEF Placed
    <2>. QED  BY <2>2, <2>3
  <1>8. CASE DropDrawn(t) \/ RepostSentinel(t) \/ CloseStep(t) \/ Close(t)
    BY <1>0, <1>8 DEF DropDrawn, RepostSentinel, CloseStep, Drain, DrainClose,
       DrainEmpty, Wake, Close, NoSentinelWhileOpen, ClosePcs
  <1>. QED
    BY <1>2, <1>3, <1>4, <1>5, <1>6, <1>7, <1>8 DEF Step, BorrowStep, LoanStep


\* A subset of a finite set.
LEMMA SubsetCount ==
    ASSUME NEW T, IsFiniteSet(T), NEW S, S \subseteq T
    PROVE  /\ IsFiniteSet(S) /\ Cardinality(S) \in Nat /\ Cardinality(T) \in Nat
           /\ Cardinality(S) <= Cardinality(T)
  BY FS_Subset, FS_CardinalityType

\* A set with at most one element more.
LEMMA ButOneCount ==
    ASSUME NEW T, IsFiniteSet(T), NEW S, NEW x, S \subseteq T \cup {x}
    PROVE  /\ Cardinality(S) \in Nat /\ Cardinality(T) \in Nat
           /\ Cardinality(S) <= Cardinality(T) + 1
  <1>1. /\ IsFiniteSet(T \cup {x}) /\ Cardinality(T \cup {x}) \in Nat
        /\ Cardinality(T \cup {x}) <= Cardinality(T) + 1 /\ Cardinality(T) \in Nat
    BY OneMore, FS_CardinalityType
  <1>2. Cardinality(S) \in Nat /\ Cardinality(S) <= Cardinality(T \cup {x})
    BY <1>1, SubsetCount
  <1>. QED  BY <1>1, <1>2

\* A set with at least one element more.
LEMMA GrownCount ==
    ASSUME NEW T, IsFiniteSet(T), NEW S, NEW x, S \cup {x} \subseteq T, x \notin S
    PROVE  /\ Cardinality(S) \in Nat /\ Cardinality(T) \in Nat
           /\ Cardinality(S) + 1 <= Cardinality(T)
  <1>1. IsFiniteSet(S) /\ Cardinality(S) \in Nat /\ Cardinality(T) \in Nat
    BY SubsetCount
  <1>2. Cardinality(S \cup {x}) <= Cardinality(T)
    BY SubsetCount
  <1>3. Cardinality(S \cup {x}) = Cardinality(S) + 1
    BY <1>1, FS_AddElement
  <1>. QED  BY <1>1, <1>2, <1>3

\* The sets of the invariant are finite.
LEMMA Finite ==
    ASSUME Core, Histories
    PROVE  /\ created \in Nat /\ recreated \in Nat /\ lost \in Nat
           /\ leaked \subseteq 1..created /\ alive \subseteq 1..created
           /\ 1..created \subseteq Instances
           /\ IsFiniteSet(leaked) /\ Cardinality(leaked) \in Nat
           /\ IsFiniteSet(alive) /\ IsFiniteSet(alive \ leaked)
           /\ Cardinality(alive) \in Nat /\ Cardinality(alive \ leaked) \in Nat
           /\ IsFiniteSet(Builders) /\ Cardinality(Builders) \in Nat
           /\ IsFiniteSet(Closers) /\ Cardinality(Closers) \in Nat
  <1>1. /\ created \in Nat /\ recreated \in Nat /\ lost \in Nat
        /\ leaked \subseteq 1..created /\ alive \subseteq 1..created
        /\ 1..created \subseteq Instances
    BY PoolAssumption DEF Core, TypeOK, Histories, Instances
  <1>2. IsFiniteSet(1..created)
    BY <1>1, FS_Interval
  <1>3. Builders \subseteq Threads /\ Closers \subseteq Threads
    BY DEF Builders, Closers
  <1>4. alive \ leaked \subseteq 1..created
    BY <1>1
  <1>5. IsFiniteSet(leaked) /\ Cardinality(leaked) \in Nat
    BY <1>1, <1>2, SubsetCount
  <1>6. IsFiniteSet(alive) /\ Cardinality(alive) \in Nat
    BY <1>1, <1>2, SubsetCount
  <1>7. IsFiniteSet(alive \ leaked) /\ Cardinality(alive \ leaked) \in Nat
    BY <1>2, <1>4, SubsetCount
  <1>8. /\ IsFiniteSet(Builders) /\ Cardinality(Builders) \in Nat
        /\ IsFiniteSet(Closers) /\ Cardinality(Closers) \in Nat
    BY <1>3, SubsetCount, PoolAssumption
  <1>. QED  BY <1>1, <1>5, <1>6, <1>7, <1>8

\* What a step of a thread counts.
LEMMA ThreadStats ==
    ASSUME NEW t \in Threads, ThreadStep(t)
    PROVE  /\ \/ ConstructOK(t) /\ created' = created + 1
              \/ ~ConstructOK(t) /\ created' = created
           /\ \/ CountRecreated(t) /\ recreated' = recreated + 1
              \/ ~CountRecreated(t) /\ recreated' = recreated
  <1>1. CASE ConstructOK(t) \/ CountRecreated(t)
    BY <1>1 DEF ConstructOK, CountRecreated, Goto
  <1>2. CASE ~(ConstructOK(t) \/ CountRecreated(t))
    BY <1>2 DEF ThreadStep, Borrow, Close, Discard, Step, BorrowStep, GetSlot,
       GetTimesOut, CheckDrawn, DropDrawn, RepostSentinel, BuildSnapshot, ConstructFails,
       CheckStale, ReloadOK, ReloadFails, LoanStep, EvalReturns, EvalPoisons, Release,
       PutPlaceholder, CloseReleased, PutBack, CloseStep, Drain, DrainClose, DrainEmpty,
       Wake, statVars
  <1>. QED  BY <1>1, <1>2

\* The accounts of an open pool balance after a step of a thread ...
LEMMA ThreadAccounts ==
    ASSUME Core, Core', NoSentinelWhileOpen, Histories, SlotsAccounted,
           BuiltAccounted, AliveAccounted, NEW t \in Threads, ThreadStep(t),
           lost' = lost, leaked' = leaked, ~closed'
    PROVE  BuiltAccounted' /\ AliveAccounted'
  <1>0. ~closed
    BY StaysClosed DEF ThreadStep
  <1>1. Len(idle) + Cardinality(Holders) <= MaxSize
    <2>1. Len(idle) + Cardinality(Holders) + lost = MaxSize
      BY <1>0 DEF SlotsAccounted, Holders
    <2>2. /\ Len(idle) \in Nat /\ Cardinality(Holders) \in Nat
          /\ lost \in Nat /\ MaxSize \in Nat
      BY PoolAssumption, LenProperties, FS_Subset, FS_CardinalityType
         DEF Core, TypeOK, Histories, Holders
    <2>. QED  BY <2>1, <2>2
  <1>2. BuiltAccounted'
    <2>. DEFINE P == Placed(InUse)
                Q == P'
    <2>1. /\ created <= Cardinality(P) + recreated + Cardinality(leaked)
          /\ created \in Nat /\ recreated \in Nat /\ Cardinality(leaked) \in Nat
      BY <1>0, Finite DEF BuiltAccounted
    <2>2. IsFiniteSet(P) /\ IsFiniteSet(Q)
      <3>1. IsFiniteSet(P)
        BY PlacedFinite
      <3>2. IsFiniteSet(Q)
        <4>1. Q \subseteq Instances
          BY DEF Placed, Queued, HeldAt
        <4>2. IsFiniteSet(Instances)
          BY FS_Interval, PoolAssumption DEF Instances
        <4>. QED  BY <4>1, <4>2, SubsetCount
      <3>. QED  BY <3>1, <3>2
    <2>3. /\ P \subseteq Q \/ (CountRecreated(t) /\ P \subseteq Q \cup {slot[t]})
          /\ ConstructOK(t) => created' \in Q
      <3>1. InUse # Open
        BY DEF InUse, Open, HoldingPcs
      <3>. QED  BY <1>1, <3>1, PlacesKept
    <2>4. P \subseteq 1..created
      <3>1. Queued \subseteq alive /\ HeldAt(InUse) \subseteq alive
        BY DEF Queued, HeldAt, Core, HeldIsLive
      <3>. QED  BY <3>1, Finite DEF Placed
    <2>. HIDE DEF P, Q
    <2>5. created' <= Cardinality(Q) + recreated' + Cardinality(leaked)
      <3>1. CASE CountRecreated(t)
        <4>1. created' = created /\ recreated' = recreated + 1
          BY <3>1 DEF CountRecreated
        <4>2. P \subseteq Q \cup {slot[t]}
          BY <2>3
        <4>3. /\ Cardinality(P) \in Nat /\ Cardinality(Q) \in Nat
              /\ Cardinality(P) <= Cardinality(Q) + 1
          BY <2>2, <4>2, ButOneCount
        <4>. QED  BY <2>1, <4>1, <4>3
      <3>2. CASE ConstructOK(t)
        <4>1. created' = created + 1 /\ recreated' = recreated
          BY <3>2 DEF ConstructOK
        <4>2. ~CountRecreated(t)
          BY <2>1, <4>1 DEF CountRecreated
        <4>3. P \cup {created'} \subseteq Q /\ created' \notin P
          BY <2>1, <2>3, <2>4, <3>2, <4>1, <4>2
        <4>4. /\ Cardinality(P) \in Nat /\ Cardinality(Q) \in Nat
              /\ Cardinality(P) + 1 <= Cardinality(Q)
          BY <2>2, <4>3, GrownCount
        <4>. QED  BY <2>1, <4>1, <4>4
      <3>3. CASE ~CountRecreated(t) /\ ~ConstructOK(t)
        <4>1. created' = created /\ recreated' = recreated /\ P \subseteq Q
          BY <2>3, <3>3, ThreadStats
        <4>2. /\ Cardinality(P) \in Nat /\ Cardinality(Q) \in Nat
              /\ Cardinality(P) <= Cardinality(Q)
          BY <2>2, <4>1, SubsetCount
        <4>. QED  BY <2>1, <4>1, <4>2
      <3>. QED  BY <3>1, <3>2, <3>3
    <2>. QED  BY <2>5 DEF BuiltAccounted, Q, P
  <1>3. AliveAccounted'
    <2>1. alive \subseteq leaked \cup Placed(Open)
      BY <1>0 DEF AliveAccounted
    <2>2. /\ \/ Placed(Open) \subseteq Placed(Open)'
             \/ CloseReleased(t) /\ Placed(Open) \subseteq Placed(Open)' \cup {slot[t]}
          /\ ConstructOK(t) => created' \in Placed(Open)'
      <3>1. InUse # Open
        BY DEF InUse, Open, HoldingPcs
      <3>. QED  BY <1>1, <3>1, PlacesKept
    <2>3. CloseReleased(t) => alive' = alive \ {slot[t]}
      BY DEF CloseReleased
    <2>4. alive' \subseteq leaked \cup Placed(Open)'
      BY <2>1, <2>2, <2>3, ThreadAlive
    <2>. QED  BY <2>4 DEF AliveAccounted
  <1>. QED  BY <1>2, <1>3

\* An interrupt moves at most one instance, from its place to the forgotten.
LEMMA InterruptPlaces ==
    ASSUME Core, NEW t \in Threads, Interrupt(t), NEW S, S = InUse \/ S = Open
    PROVE  \/ leaked' = leaked /\ Placed(S) \subseteq Placed(S)'
           \/ /\ slot[t] \in Instances /\ leaked' = leaked \cup {slot[t]}
              /\ Placed(S) \subseteq Placed(S)' \cup {slot[t]}
  <1>1. /\ Queued' = Queued /\ slot \in [Threads -> Slots]
        /\ pc \in [Threads -> {"idle"} \cup BorrowPcs \cup ClosePcs]
        /\ \A u \in Threads \ {t} : pc'[u] = pc[u] /\ slot'[u] = slot[u]
    BY InterruptMoves DEF Queued, Core, TypeOK
  <1>2. CASE LeaveCheck(t) \/ LeaveReload(t)
    <2>1. slot' = slot /\ leaked' = leaked /\ pc'[t] = "release"
      BY <1>1, <1>2 DEF LeaveCheck, LeaveReload
    <2>2. "release" \in S
      BY DEF InUse, Open, HoldingPcs
    <2>3. HeldAt(S) \subseteq HeldAt(S)'
      BY <1>1, <2>1, <2>2 DEF HeldAt
    <2>. QED  BY <1>1, <2>1, <2>3 DEF Placed
  <1>3. CASE ~(LeaveCheck(t) \/ LeaveReload(t))
    <2>1. leaked' = leaked \cup ({slot[t]} \cap Instances)
      BY <1>3 DEF Interrupt, LoseSlot, LeaveTakeSlot, LeaveBuild, LeaveClosing,
         LeaveClose, Leaks
    <2>2. HeldAt(S) \subseteq HeldAt(S)' \cup ({slot[t]} \cap Instances)
      BY <1>1 DEF HeldAt
    <2>3. CASE slot[t] \in Instances
      BY <1>1, <2>1, <2>2, <2>3 DEF Placed
    <2>4. CASE slot[t] \notin Instances
      BY <1>1, <2>1, <2>2, <2>4 DEF Placed
    <2>. QED  BY <2>3, <2>4
  <1>. QED  BY <1>2, <1>3

\* ... and after an interrupt.
LEMMA InterruptAccounts ==
    ASSUME Core, Histories, LeakedApart, BuiltAccounted, AliveAccounted,
           NEW t \in Threads, Interrupt(t), ~closed'
    PROVE  BuiltAccounted' /\ AliveAccounted'
  <1>0. UNCHANGED <<closed, created, recreated, alive>>
    BY InterruptMoves
  <1>1. BuiltAccounted'
    <2>. DEFINE P == Placed(InUse)
                Q == P'
    <2>1. /\ created <= Cardinality(P) + recreated + Cardinality(leaked)
          /\ created \in Nat /\ recreated \in Nat
          /\ IsFiniteSet(leaked) /\ Cardinality(leaked) \in Nat
      BY <1>0, Finite DEF BuiltAccounted
    <2>2. IsFiniteSet(Q)
      <3>1. Q \subseteq Instances
        BY DEF Placed, Queued, HeldAt
      <3>2. IsFiniteSet(Instances)
        BY FS_Interval, PoolAssumption DEF Instances
      <3>. QED  BY <3>1, <3>2, SubsetCount
    <2>3. \/ leaked' = leaked /\ P \subseteq Q
          \/ leaked' = leaked \cup {slot[t]} /\ P \subseteq Q \cup {slot[t]}
      BY InterruptPlaces
    <2>. HIDE DEF P, Q
    <2>4. CASE leaked' = leaked /\ P \subseteq Q
      <3>1. /\ Cardinality(P) \in Nat /\ Cardinality(Q) \in Nat
            /\ Cardinality(P) <= Cardinality(Q)
        BY <2>2, <2>4, SubsetCount
      <3>2. created <= Cardinality(Q) + recreated + Cardinality(leaked')
        BY <2>1, <2>4, <3>1
      <3>. QED  BY <1>0, <3>2 DEF BuiltAccounted, Q, P
    <2>5. CASE leaked' = leaked \cup {slot[t]} /\ P \subseteq Q \cup {slot[t]}
      <3>1. /\ Cardinality(P) \in Nat /\ Cardinality(Q) \in Nat
            /\ Cardinality(P) <= Cardinality(Q) + 1
        BY <2>2, <2>5, ButOneCount
      <3>2. Cardinality(leaked') = Cardinality(leaked) + 1
        BY <2>1, <2>5, FS_AddElement DEF LeakedApart
      <3>3. created <= Cardinality(Q) + recreated + Cardinality(leaked')
        BY <2>1, <3>1, <3>2
      <3>. QED  BY <1>0, <3>3 DEF BuiltAccounted, Q, P
    <2>. QED  BY <2>3, <2>4, <2>5
  <1>2. AliveAccounted'
    <2>1. alive \subseteq leaked \cup Placed(Open)
      BY <1>0 DEF AliveAccounted
    <2>2. alive' \subseteq leaked' \cup Placed(Open)'
      BY <1>0, <2>1, InterruptPlaces
    <2>. QED  BY <2>2 DEF AliveAccounted
  <1>. QED  BY <1>1, <1>2

\* What the threads of a set hold is no more than they are.
LEMMA ImageCount ==
    ASSUME NEW S, IsFiniteSet(S), NEW f
    PROVE  /\ IsFiniteSet({f[x] : x \in S})
           /\ Cardinality({f[x] : x \in S}) <= Cardinality(S)
  <1>. DEFINE T == {f[x] : x \in S}
              g == [x \in S |-> f[x]]
  <1>1. g \in Surjection(S, T)
    BY DEF Surjection
  <1>. HIDE DEF T, g
  <1>2. IsFiniteSet(T) /\ Cardinality(T) <= Cardinality(S)
    BY <1>1, FS_Surjection
  <1>. QED  BY <1>2 DEF T

\* The accounts of an open pool, with one slot for each place.
LEMMA OpenBounds ==
    Core /\ SlotsAccounted /\ Histories /\ BuiltAccounted /\ AliveAccounted /\ ~closed
        => BuiltBounded /\ AliveBounded
  <1>. SUFFICES ASSUME Core, SlotsAccounted, Histories, BuiltAccounted, AliveAccounted,
                       ~closed
                PROVE  BuiltBounded /\ AliveBounded
    OBVIOUS
  <1>. DEFINE Full == Holders \ Builders
  <1>1. /\ Len(idle) \in Nat /\ idle \in Seq(Slots) /\ lost \in Nat /\ MaxSize \in Nat
        /\ DOMAIN idle = 1..Len(idle)
        /\ Len(idle) + Cardinality(Holders) + lost = MaxSize
    BY PoolAssumption, LenProperties DEF Core, TypeOK, Histories, SlotsAccounted, Holders
  <1>2. /\ IsFiniteSet(Holders) /\ Cardinality(Holders) \in Nat
        /\ IsFiniteSet(Full) /\ Cardinality(Full) \in Nat
        /\ Cardinality(Full) = Cardinality(Holders) - Cardinality(Builders)
    <2>1. IsFiniteSet(Holders) /\ Cardinality(Holders) \in Nat
      BY PoolAssumption, FS_Subset, FS_CardinalityType DEF Holders
    <2>2. Holders \cap Builders = Builders
      BY DEF Holders, Builders, HoldingPcs
    <2>. QED  BY <2>1, <2>2, FS_Difference, FS_CardinalityType
  <1>3. IsFiniteSet(Queued) /\ Cardinality(Queued) \in Nat /\ Cardinality(Queued) <= Len(idle)
    <2>1. IsFiniteSet(DOMAIN idle) /\ Cardinality(DOMAIN idle) = Len(idle)
      <3>1. \A n \in Nat : IsFiniteSet(1..n) /\ Cardinality(1..n) = n
        BY FS_Interval
      <3>. QED  BY <1>1, <3>1
    <2>2. /\ IsFiniteSet({idle[n] : n \in DOMAIN idle})
          /\ Cardinality({idle[n] : n \in DOMAIN idle}) <= Len(idle)
      BY <2>1, ImageCount
    <2>3. Queued \subseteq {idle[n] : n \in DOMAIN idle}
      BY DEF Queued
    <2>4. /\ IsFiniteSet(Queued) /\ Cardinality(Queued) \in Nat
          /\ Cardinality({idle[n] : n \in DOMAIN idle}) \in Nat
          /\ Cardinality(Queued) <= Cardinality({idle[n] : n \in DOMAIN idle})
      BY <2>2, <2>3, SubsetCount
    <2>. QED  BY <1>1, <2>2, <2>4
  <1>. HIDE DEF Full
  <1>4. ASSUME NEW U \in SUBSET Threads, IsFiniteSet(U), NEW S,
               HeldAt(S) \subseteq {slot[u] : u \in U}
        PROVE  /\ Cardinality(Placed(S)) \in Nat
               /\ Cardinality(Placed(S)) <= Len(idle) + Cardinality(U)
    <2>1. /\ IsFiniteSet({slot[u] : u \in U})
          /\ Cardinality({slot[u] : u \in U}) <= Cardinality(U)
      BY <1>4, ImageCount
    <2>2. /\ IsFiniteSet(HeldAt(S)) /\ Cardinality(HeldAt(S)) \in Nat
          /\ Cardinality({slot[u] : u \in U}) \in Nat /\ Cardinality(U) \in Nat
          /\ Cardinality(HeldAt(S)) <= Cardinality({slot[u] : u \in U})
      BY <1>4, <2>1, SubsetCount, FS_CardinalityType
    <2>3. Cardinality(Placed(S)) = Cardinality(Queued) + Cardinality(HeldAt(S))
                                   - Cardinality(Queued \cap HeldAt(S))
      BY <1>3, <2>2, FS_Union DEF Placed
    <2>4. Cardinality(Queued \cap HeldAt(S)) \in Nat
      BY <1>3, SubsetCount
    <2>5. Cardinality(Placed(S)) \in Nat
      BY PlacedFinite
    <2>. QED  BY <1>1, <1>3, <2>1, <2>2, <2>3, <2>4, <2>5
  <1>5. /\ HeldAt(InUse) \subseteq {slot[u] : u \in Full}
        /\ HeldAt(Open) \subseteq {slot[u] : u \in Full \cup Closers}
    BY SlotFacts DEF Core, SlotShape, EmptyHanded, HeldAt, InUse, Open, Full, Holders,
       Builders, Closers, HoldingPcs
  <1>6. BuiltBounded
    <2>1. Full \in SUBSET Threads
      BY DEF Full, Holders
    <2>2. /\ Cardinality(Placed(InUse)) \in Nat
          /\ Cardinality(Placed(InUse)) <= Len(idle) + Cardinality(Full)
      BY <1>2, <1>4, <1>5, <2>1
    <2>3. created <= Cardinality(Placed(InUse)) + recreated + Cardinality(leaked)
      BY DEF BuiltAccounted
    <2>4. /\ created \in Nat /\ recreated \in Nat
          /\ Cardinality(leaked) \in Nat /\ Cardinality(Builders) \in Nat
      BY Finite
    <2>5. Cardinality(Placed(InUse)) + Cardinality(Builders) <= MaxSize
      BY <1>1, <1>2, <2>2, <2>4
    <2>. QED  BY <1>1, <2>2, <2>3, <2>4, <2>5 DEF BuiltBounded
  <1>7. AliveBounded
    <2>1. Full \cup Closers \in SUBSET Threads
      BY DEF Full, Holders, Closers
    <2>2. /\ IsFiniteSet(Full \cup Closers) /\ Cardinality(Full \cup Closers) \in Nat
          /\ Cardinality(Full \cup Closers) <= Cardinality(Full) + Cardinality(Closers)
      <3>1. /\ IsFiniteSet(Full \cup Closers)
            /\ Cardinality(Full \cup Closers) = Cardinality(Full) + Cardinality(Closers)
                                                - Cardinality(Full \cap Closers)
        BY <1>2, Finite, FS_Union
      <3>2. Cardinality(Full \cap Closers) \in Nat
        BY <1>2, SubsetCount
      <3>. QED  BY <1>2, <3>1, <3>2, Finite, FS_CardinalityType
    <2>3. /\ Cardinality(Placed(Open)) \in Nat
          /\ Cardinality(Placed(Open)) <= Len(idle) + Cardinality(Full \cup Closers)
      BY <1>4, <1>5, <2>1, <2>2
    <2>4. Cardinality(alive \ leaked) <= Cardinality(Placed(Open))
      BY PlacedFinite, SubsetCount DEF AliveAccounted
    <2>5. /\ Cardinality(alive \ leaked) \in Nat /\ Cardinality(Builders) \in Nat
          /\ Cardinality(Closers) \in Nat
      BY Finite
    <2>. QED  BY <1>1, <1>2, <2>2, <2>3, <2>4, <2>5, SMTT(20) DEF AliveBounded
  <1>. QED  BY <1>6, <1>7

-----------------------------------------------------------------------------
(* The instances of a closed pool *)

\* Once the pool is closed no thread sets out to build, and only one that is
\* done with an instance stops being a closer.
LEMMA ClosedMoves ==
    ASSUME Core, NEW t \in Threads, ThreadStep(t), closed'
    PROVE  /\ Builders' \subseteq Builders
           /\ ConstructOK(t) => t \in Builders /\ Builders' \subseteq Builders \ {t}
           /\ \/ Closers \subseteq Closers'
              \/ /\ DropDrawn(t) \/ CloseReleased(t)
                 /\ t \in Closers /\ Closers \subseteq Closers' \cup {t}
  <1>. USE DEF Goto
  <1>0. pc \in [Threads -> {"idle"} \cup BorrowPcs \cup ClosePcs]
    BY DEF Core, TypeOK
  <1>1. \A u \in Threads \ {t} : pc'[u] = pc[u]
    BY <1>0 DEF ThreadStep, Borrow, Close, Discard, Step, BorrowStep, GetSlot,
       GetTimesOut, CheckDrawn, DropDrawn, RepostSentinel, BuildSnapshot, ConstructOK,
       ConstructFails, CheckStale, ReloadOK, ReloadFails, LoanStep, EvalReturns,
       EvalPoisons, Release, CountRecreated, PutPlaceholder, CloseReleased, PutBack,
       CloseStep, Drain, DrainClose, DrainEmpty, Wake
  <1>2. /\ pc'[t] \in {"build", "construct"} => pc[t] \in {"build", "construct"}
        /\ ConstructOK(t) => pc[t] = "construct" /\ pc'[t] = "check"
    BY <1>0 DEF ThreadStep, Borrow, Close, Discard, Step, BorrowStep, GetSlot,
       GetTimesOut, CheckDrawn, DropDrawn, RepostSentinel, BuildSnapshot, ConstructOK,
       ConstructFails, CheckStale, ReloadOK, ReloadFails, LoanStep, EvalReturns,
       EvalPoisons, Release, CountRecreated, PutPlaceholder, CloseReleased, PutBack,
       CloseStep, Drain, DrainClose, DrainEmpty, Wake, queueVars
  <1>3. pc[t] \in {"closeInst", "drop"} => DropDrawn(t) \/ CloseReleased(t)
    BY <1>0 DEF ThreadStep, Borrow, Close, Discard, Step, BorrowStep, GetSlot,
       GetTimesOut, CheckDrawn, RepostSentinel, BuildSnapshot, ConstructOK,
       ConstructFails, CheckStale, ReloadOK, ReloadFails, LoanStep, EvalReturns,
       EvalPoisons, Release, CountRecreated, PutPlaceholder, PutBack,
       CloseStep, Drain, DrainClose, DrainEmpty, Wake
  <1>4. Builders' \subseteq Builders
    BY <1>1, <1>2 DEF Builders
  <1>5. ConstructOK(t) => t \in Builders /\ Builders' \subseteq Builders \ {t}
    BY <1>1, <1>2 DEF Builders
  <1>6. Closers \subseteq Closers' \cup {t}
    BY <1>1 DEF Closers
  <1>7. t \in Closers => DropDrawn(t) \/ CloseReleased(t)
    BY <1>3 DEF Closers
  <1>. QED  BY <1>4, <1>5, <1>6, <1>7

\* A closed pool builds only for the threads that had set out to, and closes as many
\* instances as it loses closers.
LEMMA ClosedBounds ==
    ASSUME Core, Core', Histories, Histories', LeakedApart, BuiltBounded, AliveBounded,
           NEW t \in Threads, ThreadStep(t), leaked' = leaked, closed'
    PROVE  BuiltBounded' /\ AliveBounded'
  <1>. DEFINE Kept == alive \ leaked
              b == Cardinality(Builders)
              c == Cardinality(Closers)
              k == Cardinality(Kept)
              l == Cardinality(leaked)
  <1>0. IsFiniteSet(Kept) /\ IsFiniteSet(Builders)
    BY Finite
  <1>nat. /\ b \in Nat /\ c \in Nat /\ k \in Nat /\ l \in Nat
        /\ created \in Nat /\ recreated \in Nat /\ MaxSize \in Nat
    BY Finite, PoolAssumption
  <1>1. /\ created + b <= MaxSize + recreated + l
        /\ k + b <= MaxSize + c
    BY DEF BuiltBounded, AliveBounded
  <1>2. IsFiniteSet(Closers')
    BY PoolAssumption, SubsetCount DEF Closers
  <1>3. /\ b' \in Nat /\ b' <= b
        /\ ConstructOK(t) => b' <= b - 1
    <2>1. b' \in Nat /\ b' <= b
      BY <1>0, ClosedMoves, SubsetCount
    <2>2. ASSUME ConstructOK(t) PROVE b' <= b - 1
      <3>1. Builders' \cup {t} \subseteq Builders /\ t \notin Builders'
        BY <2>2, ClosedMoves
      <3>2. b' \in Nat /\ b' + 1 <= b
        BY <1>0, <3>1, GrownCount
      <3>. QED  BY <1>nat, <3>2
    <2>. QED  BY <2>1, <2>2
  <1>4. BuiltBounded'
    <2>1. l' = l
      OBVIOUS
    <2>2. created' + b' <= MaxSize + recreated' + l
      BY <1>nat, <1>1, <1>3, ThreadStats
    <2>. QED  BY <2>1, <2>2 DEF BuiltBounded, b, l
  <1>5. AliveBounded'
    <2>1. CASE ConstructOK(t)
      <3>1. Closers \subseteq Closers'
        <4>1. ~(DropDrawn(t) \/ CloseReleased(t))
          BY <2>1 DEF ConstructOK, DropDrawn, CloseReleased, Goto
        <4>. QED  BY <4>1, ClosedMoves
      <3>2. Kept' \subseteq Kept \cup {created'}
        BY <2>1 DEF ConstructOK
      <3>3. k' \in Nat /\ k' <= k + 1
        BY <1>0, <3>2, ButOneCount
      <3>4. c' \in Nat /\ c <= c'
        BY <1>2, <3>1, SubsetCount
      <3>5. b' <= b - 1
        BY <1>3, <2>1
      <3>6. k' + b' <= k + b
        BY <1>nat, <1>3, <3>3, <3>5
      <3>7. k' + b' <= MaxSize + c'
        BY <1>nat, <1>1, <1>3, <3>3, <3>4, <3>6
      <3>. QED  BY <3>7 DEF AliveBounded, b, c, k, Kept
    <2>2. CASE DropDrawn(t) \/ CloseReleased(t)
      <3>1. Closers \subseteq Closers' \cup {t}
        BY ClosedMoves
      <3>2. slot[t] \in alive
        BY <2>2, HoldsLive DEF DropDrawn, CloseReleased, Goto, WithInstance
      <3>3. Kept' \cup {slot[t]} \subseteq Kept /\ slot[t] \notin Kept'
        BY <2>2, <3>2 DEF DropDrawn, CloseReleased, LeakedApart
      <3>4. k' \in Nat /\ k' + 1 <= k
        BY <1>0, <3>3, GrownCount
      <3>5. c' \in Nat /\ c <= c' + 1
        BY <1>2, <3>1, ButOneCount
      <3>6. k' + b' + 1 <= k + b
        BY <1>nat, <1>3, <3>4
      <3>7. k' + b' <= MaxSize + c'
        BY <1>nat, <1>1, <1>3, <3>4, <3>5, <3>6
      <3>. QED  BY <3>7 DEF AliveBounded, b, c, k, Kept
    <2>3. CASE ~(ConstructOK(t) \/ DropDrawn(t) \/ CloseReleased(t))
      <3>1. Closers \subseteq Closers'
        BY <2>3, ClosedMoves
      <3>2. Kept' \subseteq Kept
        BY <2>3, ThreadAlive
      <3>3. k' \in Nat /\ k' <= k
        BY <1>0, <3>2, SubsetCount
      <3>4. c' \in Nat /\ c <= c'
        BY <1>2, <3>1, SubsetCount
      <3>5. k' + b' <= k + b
        BY <1>nat, <1>3, <3>3
      <3>6. k' + b' <= MaxSize + c'
        BY <1>nat, <1>1, <1>3, <3>3, <3>4, <3>5
      <3>. QED  BY <3>6 DEF AliveBounded, b, c, k, Kept
    <2>. QED  BY <2>1, <2>2, <2>3
  <1>. QED  BY <1>4, <1>5

\* An interrupted closer forgets the instance it was to close.
LEMMA InterruptBounds ==
    ASSUME Core, Core', Histories, Histories', LeakedApart, BuiltBounded, AliveBounded,
           NEW t \in Threads, Interrupt(t)
    PROVE  BuiltBounded' /\ AliveBounded'
  <1>. DEFINE Kept == alive \ leaked
              b == Cardinality(Builders)
              c == Cardinality(Closers)
              k == Cardinality(Kept)
              l == Cardinality(leaked)
  <1>0. IsFiniteSet(Kept) /\ IsFiniteSet(Builders)
    BY Finite
  <1>nat. /\ b \in Nat /\ c \in Nat /\ k \in Nat /\ l \in Nat
        /\ created \in Nat /\ recreated \in Nat /\ MaxSize \in Nat
    BY Finite, PoolAssumption
  <1>1. /\ created + b <= MaxSize + recreated + l
        /\ k + b <= MaxSize + c
    BY DEF BuiltBounded, AliveBounded
  <1>2. IsFiniteSet(Closers') /\ IsFiniteSet(leaked')
    <2>1. IsFiniteSet(Closers')
      BY PoolAssumption, SubsetCount DEF Closers
    <2>2. leaked' = leaked \/ leaked' = leaked \cup ({slot[t]} \cap Instances)
      BY InterruptMoves
    <2>3. leaked' \subseteq leaked \cup {slot[t]} /\ IsFiniteSet(leaked \cup {slot[t]})
      BY <2>2, Finite, FS_AddElement
    <2>4. IsFiniteSet(leaked')
      BY <2>3, SubsetCount
    <2>. QED  BY <2>1, <2>4
  <1>3. /\ \A u \in Threads \ {t} : pc'[u] = pc[u]
        /\ pc'[t] \in {"idle", "putNone", "release"}
        /\ UNCHANGED <<created, recreated, alive>>
        /\ leaked \subseteq leaked'
    <2>1. pc'[t] \in {"idle", "putNone", "release"}
      BY DEF Core, TypeOK, Interrupt, LoseSlot, LeaveTakeSlot, LeaveBuild,
         LeaveCheck, LeaveReload, LeaveClosing, LeaveClose, Unwinds
    <2>. QED  BY <2>1, InterruptMoves
  <1>4. b' \in Nat /\ b' <= b
    <2>1. Builders' \subseteq Builders
      BY <1>3 DEF Builders
    <2>. QED  BY <1>0, <2>1, SubsetCount
  <1>5. BuiltBounded'
    <2>1. l' \in Nat /\ l <= l'
      BY <1>2, <1>3, SubsetCount
    <2>2. created + b' <= created + b /\ MaxSize + recreated + l <= MaxSize + recreated + l'
      BY <1>nat, <1>4, <2>1
    <2>3. created + b' <= MaxSize + recreated + l'
      BY <1>nat, <1>1, <1>4, <2>1, <2>2
    <2>. QED  BY <1>3, <2>3 DEF BuiltBounded, b, l
  <1>6. AliveBounded'
    <2>1. CASE t \in Closers
      <3>1. slot[t] \in alive /\ slot[t] \in Instances /\ slot[t] \notin leaked
        BY <2>1, HoldsLive DEF Closers, WithInstance, LeakedApart
      <3>2. leaked' = leaked \cup {slot[t]}
        BY <2>1, <3>1 DEF Closers, Interrupt, LoseSlot, LeaveTakeSlot, LeaveBuild,
           LeaveCheck, LeaveReload, LeaveClosing, LeaveClose, Leaks, ClosePcs
      <3>3. Kept' \cup {slot[t]} \subseteq Kept /\ slot[t] \notin Kept'
        BY <1>3, <3>1, <3>2
      <3>4. k' \in Nat /\ k' + 1 <= k
        BY <1>0, <3>3, GrownCount
      <3>5. Closers \subseteq Closers' \cup {t}
        BY <1>3 DEF Closers
      <3>6. c' \in Nat /\ c <= c' + 1
        BY <1>2, <3>5, ButOneCount
      <3>7. k' + b' + 1 <= k + b
        BY <1>nat, <1>4, <3>4
      <3>8. k' + b' <= MaxSize + c'
        BY <1>nat, <1>1, <1>4, <3>4, <3>6, <3>7
      <3>. QED  BY <3>8 DEF AliveBounded, b, c, k, Kept
    <2>2. CASE t \notin Closers
      <3>1. Kept' \subseteq Kept /\ Closers \subseteq Closers'
        BY <1>3, <2>2 DEF Closers
      <3>2. k' \in Nat /\ k' <= k
        BY <1>0, <3>1, SubsetCount
      <3>3. c' \in Nat /\ c <= c'
        BY <1>2, <3>1, SubsetCount
      <3>4. k' + b' <= k + b
        BY <1>nat, <1>4, <3>2
      <3>5. k' + b' <= MaxSize + c'
        BY <1>nat, <1>1, <1>4, <3>2, <3>3, <3>4
      <3>. QED  BY <3>5 DEF AliveBounded, b, c, k, Kept
    <2>. QED  BY <2>1, <2>2
  <1>. QED  BY <1>5, <1>6

-----------------------------------------------------------------------------
(* Documents and tags *)

\* The version tag is right, or behind so that the next check reloads.
LEMMA ThreadTags ==
    ASSUME Core, TagsHonestOrBehind, NEW t \in Threads, ThreadStep(t)
    PROVE  TagsHonestOrBehind'
  <1>. USE DEF Goto, instVars
  <1>0. /\ instDoc \in [Instances -> Nat] /\ instVersion \in [Instances -> Nat]
        /\ created \in Nat /\ snap \in [Threads -> Nat]
    BY DEF Core, TypeOK
  <1>1. CASE UNCHANGED <<version, poisoned, instDoc, instVersion>>
    BY <1>1 DEF TagsHonestOrBehind
  <1>2. CASE ConstructOK(t)
    BY <1>0, <1>2 DEF ConstructOK, TagsHonestOrBehind
  <1>3. CASE ReloadOK(t)
    BY <1>0, <1>3 DEF ReloadOK, TagsHonestOrBehind
  <1>4. CASE ReloadFails(t)
    BY <1>0, <1>4 DEF ReloadFails, TagsHonestOrBehind
  <1>5. CASE EvalPoisons(t)
    BY <1>5 DEF EvalPoisons, TagsHonestOrBehind
  <1>6. CASE ~(ConstructOK(t) \/ ReloadOK(t) \/ ReloadFails(t) \/ EvalPoisons(t))
    <2>1. UNCHANGED <<version, poisoned, instDoc, instVersion>>
      BY <1>6 DEF ThreadStep, Borrow, Close, Discard, Step, BorrowStep, GetSlot,
         GetTimesOut, CheckDrawn, DropDrawn, RepostSentinel, BuildSnapshot,
         ConstructFails, CheckStale, LoanStep, EvalReturns, Release, CountRecreated,
         PutPlaceholder, CloseReleased, PutBack, CloseStep, Drain, DrainClose,
         DrainEmpty, Wake
    <2>. QED  BY <1>1, <2>1
  <1>. QED  BY <1>2, <1>3, <1>4, <1>5, <1>6

\* A loan begins with the document of its tag, and no one else touches it.
LEMMA ThreadLoans ==
    ASSUME Core, TagsHonestOrBehind, LoansHonest, NEW t \in Threads, ThreadStep(t)
    PROVE  LoansHonest'
  <1>. USE DEF Goto, instVars
  <1>0. /\ instDoc \in [Instances -> Nat] /\ instVersion \in [Instances -> Nat]
        /\ created \in Nat /\ alive \subseteq 1..created /\ version \in Nat
        /\ pc \in [Threads -> {"idle"} \cup BorrowPcs \cup ClosePcs]
        /\ slot \in [Threads -> Slots]
    BY DEF Core, TypeOK
  <1>1. \A u \in Threads : pc[u] = "loan" => slot[u] \in Instances /\ slot[u] \in 1..created
    BY HoldsLive DEF WithInstance
  <1>2. CASE CheckStale(t)
    <2>1. slot[t] \in Instances /\ slot[t] \notin poisoned
      BY <1>2, HoldsLive DEF CheckStale, WithInstance, Core, Quarantined
    <2>2. instVersion[slot[t]] = version => instDoc[slot[t]] = instVersion[slot[t]]
      BY <1>0, <2>1 DEF TagsHonestOrBehind
    <2>3. /\ slot' = slot /\ instDoc' = instDoc /\ instVersion' = instVersion
          /\ \A u \in Threads \ {t} : pc'[u] = pc[u]
          /\ pc'[t] = "loan" => instVersion[slot[t]] = version
      BY <1>0, <1>2 DEF CheckStale
    <2>. QED  BY <2>2, <2>3 DEF LoansHonest
  <1>3. CASE ReloadOK(t) \/ ReloadFails(t)
    <2>1. slot[t] \in Instances
      BY <1>3, HoldsLive DEF ReloadOK, ReloadFails, WithInstance
    <2>2. /\ slot' = slot /\ \A u \in Threads \ {t} : pc'[u] = pc[u]
          /\ \A i \in Instances \ {slot[t]} :
                 instDoc'[i] = instDoc[i] /\ instVersion'[i] = instVersion[i]
          /\ pc'[t] = "loan" => instDoc'[slot[t]] = instVersion'[slot[t]]
      BY <1>0, <1>3, <2>1 DEF ReloadOK, ReloadFails
    <2>3. \A u \in Threads \ {t} : pc[u] = "loan" => slot[u] \in Instances \ {slot[t]}
      BY <1>1, <2>1 DEF Core, ExclusiveLoan
    <2>. QED  BY <2>2, <2>3 DEF LoansHonest
  <1>4. CASE ConstructOK(t)
    <2>1. /\ \A u \in Threads \ {t} : pc'[u] = pc[u] /\ slot'[u] = slot[u]
          /\ pc'[t] # "loan"
          /\ \A i \in Instances : i \in 1..created =>
                 instDoc'[i] = instDoc[i] /\ instVersion'[i] = instVersion[i]
      BY <1>0, <1>4 DEF ConstructOK
    <2>. QED  BY <1>1, <2>1 DEF LoansHonest
  <1>5. CASE ~(CheckStale(t) \/ ReloadOK(t) \/ ReloadFails(t) \/ ConstructOK(t))
    <2>1. UNCHANGED <<instDoc, instVersion>>
      BY <1>5 DEF ThreadStep, Borrow, Close, Discard, Step, BorrowStep, GetSlot,
         GetTimesOut, CheckDrawn, DropDrawn, RepostSentinel, BuildSnapshot,
         ConstructFails, LoanStep, EvalReturns, EvalPoisons, Release, CountRecreated,
         PutPlaceholder, CloseReleased, PutBack, CloseStep, Drain, DrainClose,
         DrainEmpty, Wake
    <2>2. /\ \A u \in Threads \ {t} : pc'[u] = pc[u]
          /\ pc'[t] = "loan" => pc[t] = "loan" /\ slot'[t] = slot[t]
      BY <1>0, <1>5 DEF ThreadStep, Borrow, Close, Discard, Step, BorrowStep, GetSlot,
         GetTimesOut, CheckDrawn, DropDrawn, RepostSentinel, BuildSnapshot,
         ConstructFails, LoanStep, EvalReturns, EvalPoisons, Release, CountRecreated,
         PutPlaceholder, CloseReleased, PutBack, CloseStep, Drain, DrainClose,
         DrainEmpty, Wake
    <2>. QED  BY <2>1, <2>2, Moves DEF LoansHonest
  <1>. QED  BY <1>2, <1>3, <1>4, <1>5

\* A reload cut short leaves the old tag, which is behind.
LEMMA InterruptData ==
    ASSUME Core, TagsHonestOrBehind, LoansHonest, NEW t \in Threads, Interrupt(t)
    PROVE  TagsHonestOrBehind' /\ LoansHonest'
  <1>0. /\ instDoc \in [Instances -> Nat] /\ instVersion \in [Instances -> Nat]
        /\ version \in Nat /\ snap \in [Threads -> Nat]
        /\ pc \in [Threads -> {"idle"} \cup BorrowPcs \cup ClosePcs]
    BY DEF Core, TypeOK
  <1>1. /\ UNCHANGED <<version, poisoned, instVersion>>
        /\ pc'[t] # "loan"
    BY <1>0 DEF Interrupt, LoseSlot, LeaveTakeSlot, LeaveBuild, LeaveCheck, LeaveReload,
       LeaveClosing, LeaveClose, Unwinds, instVars
  <1>2. \A u \in Threads \ {t} : pc'[u] = pc[u] /\ slot'[u] = slot[u]
    BY InterruptMoves
  <1>3. CASE LeaveReload(t)
    <2>1. slot[t] \in Instances /\ pc[t] = "reload"
      BY <1>3, HoldsLive DEF LeaveReload, WithInstance
    <2>2. \A i \in Instances \ {slot[t]} : instDoc'[i] = instDoc[i]
      BY <1>0, <1>3 DEF LeaveReload
    <2>3. instVersion[slot[t]] < version
      BY <1>0, <2>1 DEF Core, SnapshotsFresh
    <2>4. \A u \in Threads \ {t} :
              pc[u] = "loan" => slot[u] \in Instances \ {slot[t]}
      BY <2>1, HoldsLive DEF WithInstance, Core, ExclusiveLoan
    <2>5. TagsHonestOrBehind'
      BY <1>1, <2>2, <2>3 DEF TagsHonestOrBehind
    <2>6. LoansHonest'
      BY <1>1, <1>2, <2>2, <2>4 DEF LoansHonest
    <2>. QED  BY <2>5, <2>6
  <1>4. CASE ~LeaveReload(t)
    <2>1. instDoc' = instDoc
      BY <1>4 DEF Interrupt, LoseSlot, LeaveTakeSlot, LeaveBuild, LeaveCheck,
         LeaveClosing, LeaveClose, Unwinds, instVars
    <2>. QED  BY <1>1, <1>2, <2>1 DEF TagsHonestOrBehind, LoansHonest
  <1>. QED  BY <1>3, <1>4

-----------------------------------------------------------------------------
(* The theorems *)

\* A new pool has nothing to account for.
LEMMA InitIInv == InitAll => IInv
  <1>. SUFFICES ASSUME InitAll PROVE IInv
    OBVIOUS
  <1>1. Core /\ NoSentinelWhileOpen /\ SlotsConserved
    BY InitInv, InitOpen DEF InitAll, Inv
  <1>2. SlotsAccounted
    <2>1. Len(idle) \in Nat /\ IsFiniteSet(Holders)
      BY <1>1, LenProperties, PoolAssumption, FS_Subset DEF Core, TypeOK, Holders
    <2>2. Cardinality(Holders) \in Nat /\ lost = 0
      BY <2>1, FS_CardinalityType DEF InitAll
    <2>. QED  BY <1>1, <2>1, <2>2 DEF SlotsConserved, SlotsAccounted, Holders
  <1>3. Histories /\ LeakedApart /\ leaked = {}
    BY DEF InitAll, Init, Histories, LeakedApart
  <1>4. BuiltAccounted /\ AliveAccounted
    <2>1. Cardinality(Placed(InUse)) \in Nat /\ Cardinality(leaked) \in Nat
      BY <1>1, <1>3, PlacedFinite, Finite
    <2>. QED  BY <2>1 DEF InitAll, Init, BuiltAccounted, AliveAccounted
  <1>5. BuiltBounded /\ AliveBounded
    BY <1>1, <1>2, <1>3, <1>4, OpenBounds DEF InitAll, Init
  <1>6. TagsHonestOrBehind /\ LoansHonest
    BY DEF InitAll, Init, TagsHonestOrBehind, LoansHonest
  <1>. QED  BY <1>1, <1>2, <1>3, <1>4, <1>5, <1>6 DEF IInv

\* The accounts of an open pool bound it after a step, too.
LEMMA OpenBoundsNext ==
    (Core /\ SlotsAccounted /\ Histories /\ BuiltAccounted /\ AliveAccounted /\ ~closed)'
        => BuiltBounded' /\ AliveBounded'
  BY OpenBounds, PTL

\* A step of a thread keeps the inductive invariant.
LEMMA ThreadIInv ==
    ASSUME IInv, NEW t \in Threads, ThreadStep(t), UNCHANGED histVars
    PROVE  IInv'
  <1>. USE DEF IInv
  <1>0. lost' = lost /\ leaked' = leaked
    BY DEF histVars
  <1>1. Core'
    BY StepCore DEF ThreadStep, Next
  <1>2. NoSentinelWhileOpen'
    BY OpenStep DEF ThreadStep
  <1>3. SlotsAccounted'
    BY <1>0, ThreadSlots
  <1>4. Histories' /\ LeakedApart'
    BY <1>0, ThreadLeaks
  <1>5. BuiltAccounted' /\ AliveAccounted'
    <2>1. CASE ~closed'
      BY <1>0, <1>1, <2>1, ThreadAccounts
    <2>2. CASE closed'
      BY <2>2 DEF BuiltAccounted, AliveAccounted
    <2>. QED  BY <2>1, <2>2
  <1>6. BuiltBounded' /\ AliveBounded'
    <2>1. CASE ~closed'
      BY <1>1, <1>3, <1>4, <1>5, <2>1, OpenBoundsNext
    <2>2. CASE closed'
      BY <1>0, <1>1, <1>4, <2>2, ClosedBounds
    <2>. QED  BY <2>1, <2>2
  <1>7. TagsHonestOrBehind' /\ LoansHonest'
    BY ThreadTags, ThreadLoans
  <1>. QED  BY <1>1, <1>2, <1>3, <1>4, <1>5, <1>6, <1>7

\* So does an interrupt.
LEMMA InterruptIInv ==
    ASSUME IInv, NEW t \in Threads, Interrupt(t)
    PROVE  IInv'
  <1>. USE DEF IInv
  <1>1. Core' /\ NoSentinelWhileOpen' /\ SlotsAccounted'
    BY InterruptCore, InterruptOpen, InterruptSlots
  <1>2. Histories' /\ LeakedApart'
    BY InterruptLeaks
  <1>3. BuiltAccounted' /\ AliveAccounted'
    <2>1. CASE ~closed'
      BY <2>1, InterruptAccounts
    <2>2. CASE closed'
      BY <2>2 DEF BuiltAccounted, AliveAccounted
    <2>. QED  BY <2>1, <2>2
  <1>4. BuiltBounded' /\ AliveBounded'
    BY <1>1, <1>2, InterruptBounds
  <1>5. TagsHonestOrBehind' /\ LoansHonest'
    BY InterruptData
  <1>. QED  BY <1>1, <1>2, <1>3, <1>4, <1>5

\* Every step keeps the inductive invariant: of a thread, of set_data(), of an
\* interrupt, or none.
LEMMA StepIInv == IInv /\ [NextAll]_allVars => IInv'
  <1>. SUFFICES ASSUME IInv, [NextAll]_allVars PROVE IInv'
    OBVIOUS
  <1>1. ASSUME NEW t \in Threads, ThreadStep(t), UNCHANGED histVars
        PROVE  IInv'
    BY <1>1, ThreadIInv
  <1>2. ASSUME NEW t \in Threads, Interrupt(t)
        PROVE  IInv'
    BY <1>2, InterruptIInv
  <1>3. CASE (SetData /\ UNCHANGED histVars) \/ UNCHANGED allVars
    <2>1. Core'
      BY <1>3, StepCore DEF IInv, Next, allVars
    <2>2. /\ UNCHANGED <<idle, closed, created, recreated, alive, poisoned, instDoc,
                         instVersion, pc, slot, lost, leaked>>
          /\ version' = version \/ version' = version + 1
      BY <1>3 DEF SetData, allVars, vars, histVars, queueVars, statVars, instVars
    <2>3. /\ NoSentinelWhileOpen' /\ SlotsAccounted' /\ Histories' /\ LeakedApart'
          /\ BuiltAccounted' /\ AliveAccounted' /\ BuiltBounded' /\ AliveBounded'
          /\ LoansHonest'
      BY <2>2 DEF IInv, NoSentinelWhileOpen, SlotsAccounted, Histories, LeakedApart,
         BuiltAccounted, AliveAccounted, BuiltBounded, AliveBounded, Placed, Queued,
         HeldAt, Builders, Closers, LoansHonest
    <2>4. TagsHonestOrBehind'
      BY <2>2 DEF IInv, Core, TypeOK, TagsHonestOrBehind
    <2>. QED  BY <2>1, <2>3, <2>4 DEF IInv
  <1>. QED
    BY <1>1, <1>2, <1>3 DEF NextAll, Next, Finished, Hung, ThreadStep, allVars

\* Interrupts in any number and at any step of borrow() and close() leave the
\* inductive invariant standing.
THEOREM InterruptInvariance == FairSpecAll => []IInv
  BY InitIInv, StepIInv, PTL DEF FairSpecAll

\* An open pool loses a slot only to an interrupt before the try of borrow() or
\* inside _release(), one slot each time.
THEOREM SlotLossAccounted == FairSpecAll => []SlotsAccounted
  BY InterruptInvariance, PTL DEF IInv

\* Open or closed, every instance ever built is a first build, a counted
\* replacement or a replacement of a forgotten one, and every open Store has a
\* slot, a thread that is closing it, or was forgotten.
THEOREM InstanceLossAccounted == FairSpecAll => []InstancesAccounted
  <1>1. IInv => InstancesAccounted
    <2>. SUFFICES ASSUME IInv PROVE InstancesAccounted
      OBVIOUS
    <2>1. Core /\ Histories
      BY DEF IInv
    <2>2. /\ created \in Nat /\ recreated \in Nat /\ MaxSize \in Nat
          /\ Cardinality(leaked) \in Nat /\ Cardinality(alive) \in Nat
          /\ Cardinality(alive \ leaked) \in Nat
          /\ Cardinality(Builders) \in Nat /\ Cardinality(Closers) \in Nat
      BY <2>1, Finite, PoolAssumption
    <2>3. created <= MaxSize + recreated + Cardinality(leaked)
      BY <2>2 DEF IInv, BuiltBounded
    <2>4. Cardinality(alive \ leaked) <= MaxSize + Cardinality(Closers)
      BY <2>2 DEF IInv, AliveBounded
    <2>5. Cardinality(alive) = Cardinality(alive \ leaked) + Cardinality(leaked)
      <3>1. IsFiniteSet(alive) /\ alive \cap leaked = leaked
        BY <2>1, Finite DEF Histories
      <3>2. Cardinality(alive \ leaked) = Cardinality(alive) - Cardinality(alive \cap leaked)
        BY <3>1, FS_Difference
      <3>. QED  BY <2>2, <3>1, <3>2
    <2>6. Cardinality(alive) <= MaxSize + Cardinality(Closers) + Cardinality(leaked)
      BY <2>2, <2>4, <2>5
    <2>. QED  BY <2>3, <2>6 DEF InstancesAccounted, Closers
  <1>. QED  BY <1>1, InterruptInvariance, PTL

\* Even when reloads are cut short, an evaluation sees a document that was
\* current at some moment of its borrow().
THEOREM InterruptedDecisionsFresh == FairSpecAll => []NoStaleDecision
  <1>1. IInv => NoStaleDecision
    <2>. SUFFICES ASSUME IInv, NEW t \in Threads, pc[t] = "loan"
                  PROVE  instDoc[slot[t]] \in start[t]..version
      BY DEF NoStaleDecision
    <2>1. Core /\ LoansHonest
      BY DEF IInv
    <2>2. slot[t] \in Instances
      BY <2>1, HoldsLive DEF WithInstance
    <2>3. /\ instVersion[slot[t]] \in Nat /\ start[t] \in Nat /\ version \in Nat
          /\ instVersion[slot[t]] <= version /\ start[t] <= instVersion[slot[t]]
      BY <2>1, <2>2 DEF Core, TypeOK, TagsBehind, SnapshotsFresh
    <2>. QED  BY <2>1, <2>3 DEF LoansHonest
  <1>. QED  BY <1>1, InterruptInvariance, PTL

\* An interrupt never puts one instance into two hands, nor a closed Store into
\* anyone's: what it takes from a thread it gives to no one.
THEOREM InterruptedLoansExclusive == FairSpecAll => [](ExclusiveLoan /\ HeldIsLive)
  BY InterruptInvariance, PTL DEF IInv, Core
=============================================================================
