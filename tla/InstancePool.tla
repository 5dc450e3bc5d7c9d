---------------------------- MODULE InstancePool ----------------------------
(***************************************************************************)
(* OpaInstancePool (opapywasm/pool.py): a bounded pool of policy instances *)
(* shared by application threads.  Every access to shared state (the idle  *)
(* queue, the closed event, the data snapshot, the statistics, a native    *)
(* Store) is a step of its own, so threads interleave between any two.     *)
(*                                                                         *)
(* An instance is the number of its construction; the pool sees of it its  *)
(* data (the document loaded in the guest and the version tag), whether it *)
(* is poisoned and whether its native Store is open.  The n-th document    *)
(* that set_data installs is named n, and 0 is "no data": the policy-level *)
(* pair (data, data_version), read and written only under _data_lock, is   *)
(* the single number version.                                              *)
(***************************************************************************)
EXTENDS Integers, Sequences, FiniteSets

CONSTANTS
    Threads,        \* application threads
    MaxSize,        \* max_size: capacity of the idle queue
    BorrowTimeout,  \* TRUE iff borrow_timeout_seconds is not None
    None,           \* the lazy placeholder; also "holds nothing"
    CloseSentinel,  \* _CLOSE_SENTINEL
    MaxCalls,       \* bound: borrow() and close() calls
    MaxVersion,     \* bound: set_data() calls
    MaxBuilds       \* bound: instances ever built

Instances == 1..MaxBuilds

ASSUME PoolAssumption ==
    /\ IsFiniteSet(Threads)
    /\ MaxSize \in Nat \ {0}
    /\ BorrowTimeout \in BOOLEAN
    /\ MaxCalls \in Nat /\ MaxVersion \in Nat /\ MaxBuilds \in Nat
    /\ None \notin Instances \cup Threads
    /\ CloseSentinel \notin Instances
    /\ None # CloseSentinel

VARIABLES
    idle,        \* _idle: the FIFO queue of idle slots
    closed,      \* _closed_event
    closeLock,   \* holder of _close_lock, or None
    created,     \* _created; also the number of the last instance built
    recreated,   \* _recreated
    version,     \* the policy's (data, data_version)
    alive,       \* instances whose native Store is open
    poisoned,    \* instances whose _poisoned flag is set
    instDoc,     \* instance -> document loaded in its guest heap
    instVersion, \* instance -> its data_version tag
    pc,          \* thread -> where it is in borrow() or close()
    slot,        \* thread -> the slot or instance in its hands
    snap,        \* thread -> the snapshot it last read
    discarded,   \* threads whose loan was discarded by the caller
    start,       \* history: thread -> version when its borrow() began
    calls        \* bound: calls made so far

queueVars == <<idle, closed, closeLock>>
statVars  == <<created, recreated>>
instVars  == <<alive, poisoned, instDoc, instVersion>>
vars == <<queueVars, statVars, version, instVars,
          pc, slot, snap, discarded, start, calls>>

Slots == Instances \cup {None, CloseSentinel}

\* The steps of a thread that has drawn a slot and not yet given it back.
HoldingPcs == {"drawn", "build", "construct", "check", "reload", "loan",
               "release", "count", "putNone", "putBack"}
BorrowPcs  == HoldingPcs \cup {"get", "drop", "repost", "closeInst"}
ClosePcs   == {"drain", "drainClose", "wake"}

Init ==
    /\ idle = [n \in 1..MaxSize |-> None]
    /\ closed = FALSE
    /\ closeLock = None
    /\ created = 0 /\ recreated = 0
    /\ version = 0
    /\ alive = {} /\ poisoned = {}
    /\ instDoc = [i \in Instances |-> 0]
    /\ instVersion = [i \in Instances |-> 0]
    /\ pc = [t \in Threads |-> "idle"]
    /\ slot = [t \in Threads |-> None]
    /\ snap = [t \in Threads |-> 0]
    /\ discarded = {}
    /\ start = [t \in Threads |-> 0]
    /\ calls = 0

\* Thread t moves from step `from` to step `to`.
Goto(t, from, to) == pc[t] = from /\ pc' = [pc EXCEPT ![t] = to]

\* Thread t returns from borrow(), and its local variables are gone.
Forget(t) == snap' = [snap EXCEPT ![t] = 0] /\ start' = [start EXCEPT ![t] = 0]

\* Mutant: the queue is built without its maxsize.
PutUnbounded(x) == idle' = Append(idle, x)

\* put_nowait: the queue is bounded, and queue.Full is swallowed.
PutNowait(x) == idle' = IF Len(idle) < MaxSize THEN Append(idle, x) ELSE idle

-----------------------------------------------------------------------------
(* borrow() up to the loan *)

\* borrow(): the closed check, before anything is drawn.
Borrow(t) ==
    /\ calls < MaxCalls
    /\ Goto(t, "idle", IF closed THEN "idle" ELSE "get")
    /\ calls' = calls + 1
    /\ start' = [start EXCEPT ![t] = IF closed THEN 0 ELSE version]
    /\ UNCHANGED <<queueVars, statVars, version, instVars, slot, snap, discarded>>

\* _take_slot(): Queue.get returns; t blocks while the queue is empty.
GetSlot(t) ==
    /\ idle # <<>>
    /\ Goto(t, "get", "drawn")
    /\ slot' = [slot EXCEPT ![t] = Head(idle)]
    /\ idle' = Tail(idle)
    /\ UNCHANGED <<closed, closeLock, statVars, version, instVars, snap,
                   discarded, start, calls>>

\* _take_slot(): Queue.get raises Empty, which only a timed get does.
GetTimesOut(t) ==
    /\ BorrowTimeout
    /\ idle = <<>>
    /\ Goto(t, "get", "idle")
    /\ Forget(t)
    /\ UNCHANGED <<queueVars, statVars, version, instVars, slot, discarded,
                   calls>>

\* _take_slot(): fail closed on a sentinel, or on any slot of a closed pool.
CheckDrawn(t) ==
    /\ Goto(t, "drawn",
            IF slot[t] = CloseSentinel \/ closed
            THEN IF slot[t] \in Instances THEN "drop" ELSE "repost"
            ELSE IF slot[t] = None THEN "build" ELSE "check")
    /\ UNCHANGED <<queueVars, statVars, version, instVars, slot, snap,
                   discarded, start, calls>>

\* _take_slot(): close the live instance that is being dropped.
DropDrawn(t) ==
    /\ Goto(t, "drop", "repost")
    /\ alive' = alive \ {slot[t]}
    /\ slot' = [slot EXCEPT ![t] = None]
    /\ UNCHANGED <<queueVars, statVars, version, poisoned, instDoc, instVersion,
                   snap, discarded, start, calls>>

\* Mutant: a woken waiter raises without passing the wake-up on.
RepostNothing(t) ==
    /\ Goto(t, "repost", "idle")
    /\ slot' = [slot EXCEPT ![t] = None]
    /\ Forget(t)
    /\ UNCHANGED <<queueVars, statVars, version, instVars, discarded, calls>>

\* _take_slot(): chain-wake the next waiter and raise OpaPolicyClosedError.
RepostSentinel(t) ==
    /\ Goto(t, "repost", "idle")
    /\ PutNowait(CloseSentinel)
    /\ slot' = [slot EXCEPT ![t] = None]
    /\ Forget(t)
    /\ UNCHANGED <<closed, closeLock, statVars, version, instVars, discarded,
                   calls>>

\* _create_instance() -> OpaWasmPolicy._build_instance(): the data snapshot.
BuildSnapshot(t) ==
    /\ Goto(t, "build", "construct")
    /\ snap' = [snap EXCEPT ![t] = version]
    /\ UNCHANGED <<queueVars, statVars, version, instVars, slot, discarded,
                   start, calls>>

\* OpaPolicyInstance.__init__ succeeds: a Store is open and the data loaded;
\* _create_instance() counts it.
ConstructOK(t) ==
    /\ created < MaxBuilds
    /\ Goto(t, "construct", "check")
    /\ created' = created + 1
    /\ alive' = alive \cup {created'}
    /\ instDoc' = [instDoc EXCEPT ![created'] = snap[t]]
    /\ instVersion' = [instVersion EXCEPT ![created'] = snap[t]]
    /\ slot' = [slot EXCEPT ![t] = created']
    /\ UNCHANGED <<queueVars, recreated, version, poisoned, snap, discarded,
                   start, calls>>

\* Mutant: a failed construction does not restore the placeholder.
ConstructLosesSlot(t) ==
    /\ Goto(t, "construct", "idle")
    /\ UNCHANGED <<queueVars, statVars, version, instVars, slot, snap,
                   discarded, start, calls>>

\* Mutant: the placeholder is restored where the construction failed, and once
\* more by _release.
ConstructRestoresTwice(t) ==
    /\ Goto(t, "construct", "putNone")
    /\ PutNowait(None)
    /\ UNCHANGED <<closed, closeLock, statVars, version, instVars, slot, snap,
                   discarded, start, calls>>

\* OpaPolicyInstance.__init__ raises; borrow() still has instance = None, so
\* _release puts the placeholder back.  Runtime says what becomes of the Store.
ConstructFails(t) ==
    /\ Goto(t, "construct", "putNone")
    /\ UNCHANGED <<queueVars, statVars, version, instVars, slot, snap,
                   discarded, start, calls>>

\* Mutant: the version tag is never compared.
CheckNothing(t) ==
    /\ Goto(t, "check", "loan")
    /\ snap' = [snap EXCEPT ![t] = version]
    /\ UNCHANGED <<queueVars, statVars, version, instVars, slot, discarded,
                   start, calls>>

\* Mutant: the snapshot is the one of the start of borrow(), before the wait.
CheckEarlySnapshot(t) ==
    /\ Goto(t, "check", IF instVersion[slot[t]] # start[t] THEN "reload" ELSE "loan")
    /\ snap' = [snap EXCEPT ![t] = start[t]]
    /\ UNCHANGED <<queueVars, statVars, version, instVars, slot, discarded,
                   start, calls>>

\* _refresh_if_stale(): read the snapshot, compare the version tag.
CheckStale(t) ==
    /\ Goto(t, "check", IF instVersion[slot[t]] # version THEN "reload" ELSE "loan")
    /\ snap' = [snap EXCEPT ![t] = version]
    /\ UNCHANGED <<queueVars, statVars, version, instVars, slot, discarded,
                   start, calls>>

\* reload_data(): the document is parsed, then the tag is bumped.
ReloadOK(t) ==
    /\ Goto(t, "reload", "loan")
    /\ instDoc' = [instDoc EXCEPT ![slot[t]] = snap[t]]
    /\ instVersion' = [instVersion EXCEPT ![slot[t]] = snap[t]]
    /\ UNCHANGED <<queueVars, statVars, version, alive, poisoned, slot, snap,
                   discarded, start, calls>>

\* Mutant: a failed reload does not poison the instance.
ReloadFailsClean(t) ==
    /\ Goto(t, "reload", "release")
    /\ \E d \in {0, instDoc[slot[t]], snap[t]} :
           instDoc' = [instDoc EXCEPT ![slot[t]] = d]
    /\ UNCHANGED <<queueVars, statVars, version, alive, poisoned, instVersion,
                   slot, snap, discarded, start, calls>>

\* reload_data(): a guest call fails, at the heap reset (the old document), in
\* the parse (none) or at the checkpoint (the new one); the tag stays and the
\* instance is poisoned.
ReloadFails(t) ==
    /\ Goto(t, "reload", "release")
    /\ \E d \in {0, instDoc[slot[t]], snap[t]} :
           instDoc' = [instDoc EXCEPT ![slot[t]] = d]
    /\ poisoned' = poisoned \cup {slot[t]}
    /\ UNCHANGED <<queueVars, statVars, version, alive, instVersion, slot, snap,
                   discarded, start, calls>>

-----------------------------------------------------------------------------
(* the loan and its release *)

\* evaluate() returns, or fails before it enters the guest.
EvalReturns(t) ==
    /\ Goto(t, "loan", "release")
    /\ UNCHANGED <<queueVars, statVars, version, instVars, slot, snap,
                   discarded, start, calls>>

\* evaluate() fails after it entered the guest.
EvalPoisons(t) ==
    /\ Goto(t, "loan", "release")
    /\ poisoned' = poisoned \cup {slot[t]}
    /\ UNCHANGED <<queueVars, statVars, version, alive, instDoc, instVersion,
                   slot, snap, discarded, start, calls>>

\* PolicyLoan.discard(), called by the borrower inside its with block.
Discard(t) ==
    /\ pc[t] = "loan" /\ t \notin discarded
    /\ discarded' = discarded \cup {t}
    /\ UNCHANGED <<queueVars, statVars, version, instVars, pc, slot, snap,
                   start, calls>>

\* Mutant: a self-poisoned instance is replaced without being counted.
ReleaseUncounted(t) ==
    /\ Goto(t, "release",
            IF closed \/ slot[t] \in poisoned THEN "putNone"
            ELSE IF t \in discarded THEN "count" ELSE "putBack")
    /\ UNCHANGED <<queueVars, statVars, version, instVars, slot, snap,
                   discarded, start, calls>>

\* _release(): read the closed event once and decide.
Release(t) ==
    /\ Goto(t, "release",
            IF closed THEN "putNone"
            ELSE IF t \in discarded \/ slot[t] \in poisoned THEN "count"
            ELSE "putBack")
    /\ UNCHANGED <<queueVars, statVars, version, instVars, slot, snap,
                   discarded, start, calls>>

\* _release(): count the replacement of an instance of an open pool.
CountRecreated(t) ==
    /\ Goto(t, "count", "putNone")
    /\ recreated' = recreated + 1
    /\ UNCHANGED <<queueVars, created, version, instVars, slot, snap,
                   discarded, start, calls>>

\* Mutant: the instance itself goes back although it is about to be closed.
PutDoomed(t) ==
    /\ Goto(t, "putNone", IF slot[t] = None THEN "idle" ELSE "closeInst")
    /\ PutNowait(slot[t])
    /\ Forget(t)
    /\ UNCHANGED <<closed, closeLock, statVars, version, instVars, slot,
                   discarded, calls>>

\* _release(): the placeholder goes back before the instance is closed.
PutPlaceholder(t) ==
    /\ Goto(t, "putNone", IF slot[t] = None THEN "idle" ELSE "closeInst")
    /\ PutNowait(None)
    /\ Forget(t)
    /\ UNCHANGED <<closed, closeLock, statVars, version, instVars, slot,
                   discarded, calls>>

\* _release(): free the native resources of the replaced instance.
CloseReleased(t) ==
    /\ Goto(t, "closeInst", "idle")
    /\ alive' = alive \ {slot[t]}
    /\ slot' = [slot EXCEPT ![t] = None]
    /\ discarded' = discarded \ {t}
    /\ UNCHANGED <<queueVars, statVars, version, poisoned, instDoc, instVersion,
                   snap, start, calls>>

\* _release(): a healthy instance goes back to the idle queue.
PutBack(t) ==
    /\ Goto(t, "putBack", "idle")
    /\ PutNowait(slot[t])
    /\ slot' = [slot EXCEPT ![t] = None]
    /\ Forget(t)
    /\ UNCHANGED <<closed, closeLock, statVars, version, instVars, discarded,
                   calls>>

-----------------------------------------------------------------------------
(* close() and set_data() *)

\* Mutant: close() tears down every instance, those on loan too.
CloseAll(t) ==
    /\ calls < MaxCalls
    /\ closeLock = None
    /\ Goto(t, "idle", IF closed THEN "idle" ELSE "drain")
    /\ closeLock' = IF closed THEN None ELSE t
    /\ closed' = TRUE
    /\ alive' = {}
    /\ calls' = calls + 1
    /\ UNCHANGED <<idle, statVars, version, poisoned, instDoc, instVersion,
                   slot, snap, discarded, start>>

\* close(): take _close_lock; a closed pool is left alone, else set the event.
Close(t) ==
    /\ calls < MaxCalls
    /\ closeLock = None
    /\ Goto(t, "idle", IF closed THEN "idle" ELSE "drain")
    /\ closeLock' = IF closed THEN None ELSE t
    /\ closed' = TRUE
    /\ calls' = calls + 1
    /\ UNCHANGED <<idle, statVars, version, instVars, slot, snap, discarded, start>>

\* close(): one get_nowait of the drain loop.
Drain(t) ==
    /\ idle # <<>>
    /\ Goto(t, "drain", IF Head(idle) \in Instances THEN "drainClose" ELSE "drain")
    /\ idle' = Tail(idle)
    /\ slot' = [slot EXCEPT ![t] = IF Head(idle) \in Instances THEN Head(idle)
                                   ELSE None]
    /\ UNCHANGED <<closed, closeLock, statVars, version, instVars, snap,
                   discarded, start, calls>>

\* close(): close the idle instance just drained.
DrainClose(t) ==
    /\ Goto(t, "drainClose", "drain")
    /\ alive' = alive \ {slot[t]}
    /\ slot' = [slot EXCEPT ![t] = None]
    /\ UNCHANGED <<queueVars, statVars, version, poisoned, instDoc, instVersion,
                   snap, discarded, start, calls>>

\* close(): get_nowait raises Empty, which ends the loop.
DrainEmpty(t) ==
    /\ idle = <<>>
    /\ Goto(t, "drain", "wake")
    /\ UNCHANGED <<queueVars, statVars, version, instVars, slot, snap,
                   discarded, start, calls>>

\* close(): post the wake sentinel and release _close_lock.
Wake(t) ==
    /\ Goto(t, "wake", "idle")
    /\ PutNowait(CloseSentinel)
    /\ closeLock' = None
    /\ UNCHANGED <<closed, statVars, version, instVars, slot, snap, discarded,
                   start, calls>>

\* OpaWasmPolicy.set_data(): swap the policy-level snapshot under _data_lock.
SetData ==
    /\ version < MaxVersion
    /\ version' = version + 1
    /\ UNCHANGED <<queueVars, statVars, instVars, pc, slot, snap, discarded,
                   start, calls>>

-----------------------------------------------------------------------------
(* The specification *)

BorrowStep(t) ==
    \/ GetSlot(t) \/ GetTimesOut(t) \/ CheckDrawn(t) \/ DropDrawn(t)
    \/ RepostSentinel(t) \/ BuildSnapshot(t) \/ ConstructOK(t)
    \/ ConstructFails(t) \/ CheckStale(t) \/ ReloadOK(t) \/ ReloadFails(t)

LoanStep(t) ==
    \/ EvalReturns(t) \/ EvalPoisons(t) \/ Release(t) \/ CountRecreated(t)
    \/ PutPlaceholder(t) \/ CloseReleased(t) \/ PutBack(t)

CloseStep(t) == Drain(t) \/ DrainClose(t) \/ DrainEmpty(t) \/ Wake(t)

\* What a thread inside a call does next; entering a call and discarding a
\* loan are the caller's choice.
Step(t) == BorrowStep(t) \/ LoanStep(t) \/ CloseStep(t)

\* All the calls the bound allows were made and have returned.
Finished ==
    /\ calls = MaxCalls
    /\ \A t \in Threads : pc[t] = "idle"
    /\ UNCHANGED vars

Next ==
    \/ \E t \in Threads : Borrow(t) \/ Close(t) \/ Discard(t) \/ Step(t)
    \/ SetData
    \/ Finished

Spec == Init /\ [][Next]_vars

-----------------------------------------------------------------------------
(* Correctness *)

\* Ranges of the variables; the idle queue never exceeds max_size, and only
\* its holder runs the drain of close() (_close_lock).
TypeOK ==
    /\ idle \in Seq(Slots) /\ Len(idle) <= MaxSize
    /\ closed \in BOOLEAN
    /\ closeLock \in Threads \cup {None}
    /\ created \in 0..MaxBuilds /\ recreated \in Nat
    /\ version \in Nat
    /\ alive \subseteq 1..created /\ poisoned \subseteq 1..created
    /\ instDoc \in [Instances -> Nat] /\ instVersion \in [Instances -> Nat]
    /\ pc \in [Threads -> {"idle"} \cup BorrowPcs \cup ClosePcs]
    /\ slot \in [Threads -> Slots]
    /\ snap \in [Threads -> Nat] /\ start \in [Threads -> Nat]
    /\ discarded \subseteq Threads
    /\ calls \in Nat
    /\ \A t \in Threads : pc[t] \in ClosePcs <=> closeLock = t

\* An instance is in one place: in one thread's hands or once in the idle
\* queue, through every release, replacement, failed reload and drain.
ExclusiveLoan ==
    /\ \A t, u \in Threads :
           t # u /\ slot[t] \in Instances => slot[t] # slot[u]
    /\ \A t \in Threads, n \in DOMAIN idle :
           slot[t] \in Instances => slot[t] # idle[n]
    /\ \A m, n \in DOMAIN idle :
           m # n /\ idle[m] \in Instances => idle[m] # idle[n]

\* While the pool is open no slot is lost or invented: a slot is idle or held,
\* whatever construction, reload or evaluation failed.
SlotsConserved ==
    ~closed => Len(idle) + Cardinality({t \in Threads : pc[t] \in HoldingPcs})
                 = MaxSize

\* No thread reaches a Store after its close, and none is closed twice: an
\* instance in a thread's hands or in the queue is alive, even across close().
HeldIsLive ==
    /\ \A t \in Threads : slot[t] \in Instances => slot[t] \in alive
    /\ \A n \in DOMAIN idle : idle[n] \in Instances => idle[n] \in alive

\* An instance waiting in the queue is not poisoned, and its guest holds the
\* document its version tag names.
IdleHealthy ==
    \A n \in DOMAIN idle :
        idle[n] \in Instances =>
            /\ idle[n] \notin poisoned
            /\ instDoc[idle[n]] = instVersion[idle[n]]
            /\ instVersion[idle[n]] <= version

\* "Once set_data returns, no new evaluation can see stale data": an
\* evaluation runs against a document that was current at some moment of its
\* borrow().
NoStaleDecision ==
    \A t \in Threads :
        pc[t] = "loan" => instDoc[slot[t]] \in start[t]..version

\* A data reload never takes an instance back to an older document version.
VersionMonotonic ==
    [][\A i \in 1..created : instVersion'[i] >= instVersion[i]]_vars

\* What close() documents of instances on loan: "_release drops them because
\* the pool is closed".  Once all calls returned, a closed pool has no Store.
ClosedPoolIsEmpty ==
    closed /\ (\A t \in Threads : pc[t] = "idle") => alive = {}

\* What the class documents of max_size: "maximum number of live instances".
LiveAtMostMaxSize == Cardinality(alive) <= MaxSize
=============================================================================
