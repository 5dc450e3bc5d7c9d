--------------------------- MODULE PoolInterrupts ---------------------------
(***************************************************************************)
(* The pool of InstancePool under asynchronous exceptions: a signal makes  *)
(* Python raise KeyboardInterrupt (or another BaseException) in a thread   *)
(* between any two steps of borrow() or close().  What the exception       *)
(* unwinds depends on where it strikes:                                    *)
(*   - before the try of borrow(), and inside _release(), nobody gives the *)
(*     slot back;                                                          *)
(*   - inside the try, the finally clause does;                            *)
(*   - in _take_slot() of a closed pool, and in close(), a wake-up that    *)
(*     other waiters depend on may not be posted.                          *)
(* An instance nobody refers to any more keeps its Store open until the    *)
(* garbage collector finds it, which is not modelled.                      *)
(***************************************************************************)
EXTENDS InstancePool

CONSTANT MaxInterrupts   \* bound: asynchronous exceptions

\* Every build is paid for by one borrow(), so the bound on builds never bites.
ASSUME InterruptAssumption == MaxInterrupts \in Nat /\ MaxBuilds >= MaxCalls

VARIABLES
    interrupts,  \* bound: asynchronous exceptions so far
    lost,        \* history: slots that no one will give back
    leaked,      \* history: open instances that no one will close
    cut          \* history: a wake-up of a closed pool was not passed on

histVars == <<interrupts, lost, leaked, cut>>
allVars  == <<vars, histVars>>

InitAll == Init /\ interrupts = 0 /\ lost = 0 /\ leaked = {} /\ cut = FALSE

Strike == interrupts < MaxInterrupts /\ interrupts' = interrupts + 1

Leaks(t) == leaked' = leaked \cup ({slot[t]} \cap Instances)

\* The exception leaves borrow() or close(), whose local variables are gone.
Unwinds(t) ==
    /\ pc' = [pc EXCEPT ![t] = "idle"]
    /\ slot' = [slot EXCEPT ![t] = None]
    /\ discarded' = discarded \ {t}
    /\ Forget(t)
    /\ UNCHANGED <<statVars, version, instVars, calls>>

\* Before the try of borrow() or inside _release(): the slot is in no one's
\* hands and not in the queue.
LoseSlot(t) ==
    /\ Strike
    /\ pc[t] \in {"drawn", "build", "check", "release", "count", "putNone", "putBack"}
    /\ lost' = lost + 1
    /\ cut' = (cut \/ (pc[t] = "drawn" /\ closed))
    /\ Leaks(t) /\ Unwinds(t)
    /\ UNCHANGED queueVars

\* In Queue.get() nothing is drawn yet; further on in _take_slot(), when the
\* pool is closed, the sentinel is not re-posted.
LeaveTakeSlot(t) ==
    /\ Strike
    /\ pc[t] \in {"get", "drop", "repost"}
    /\ cut' = (cut \/ pc[t] # "get")
    /\ Leaks(t) /\ Unwinds(t)
    /\ UNCHANGED <<queueVars, lost>>

\* Inside the try before `instance` is assigned: a constructor is left, of which
\* Runtime says whether its Store is closed, a drawn or finished instance is
\* forgotten, and _release() gets None and restores the placeholder.
LeaveBuild(t) ==
    /\ Strike
    /\ pc[t] \in {"build", "construct", "check"}
    /\ pc' = [pc EXCEPT ![t] = "putNone"]
    /\ slot' = [slot EXCEPT ![t] = None]
    /\ Leaks(t)
    /\ UNCHANGED <<queueVars, statVars, version, instVars, snap, discarded,
                   start, calls, lost, cut>>

\* Inside the try once `instance` is assigned: it is released as it is.
LeaveCheck(t) ==
    /\ Strike
    /\ pc[t] = "check" /\ pc' = [pc EXCEPT ![t] = "release"]
    /\ UNCHANGED <<queueVars, statVars, version, instVars, slot, snap, discarded,
                   start, calls, lost, leaked, cut>>

\* Mutant: reload_data() sets the version tag before it loads the document.
LeaveReloadTagged(t) ==
    /\ Strike
    /\ pc[t] = "reload" /\ pc' = [pc EXCEPT ![t] = "release"]
    /\ instDoc' = [instDoc EXCEPT ![slot[t]] = 0]
    /\ instVersion' = [instVersion EXCEPT ![slot[t]] = snap[t]]
    /\ UNCHANGED <<queueVars, statVars, version, alive, poisoned, slot, snap,
                   discarded, start, calls, lost, leaked, cut>>

\* Inside reload_data(): "except Exception" does not see the exception, so the
\* instance is released unpoisoned, with any document under its old tag.
LeaveReload(t) ==
    /\ Strike
    /\ pc[t] = "reload" /\ pc' = [pc EXCEPT ![t] = "release"]
    /\ \E d \in {0, instDoc[slot[t]], snap[t]} :
           instDoc' = [instDoc EXCEPT ![slot[t]] = d]
    /\ UNCHANGED <<queueVars, statVars, version, alive, poisoned, instVersion,
                   slot, snap, discarded, start, calls, lost, leaked, cut>>

\* In _release() after the placeholder went back: the instance stays open.
LeaveClosing(t) ==
    /\ Strike
    /\ pc[t] = "closeInst"
    /\ Leaks(t) /\ Unwinds(t)
    /\ UNCHANGED <<queueVars, lost, cut>>

\* In close(): _close_lock is released, the rest of the drain and the sentinel
\* are missing, and no later close() makes up for them.
LeaveClose(t) ==
    /\ Strike
    /\ pc[t] \in ClosePcs
    /\ cut' = TRUE /\ closeLock' = None
    /\ Leaks(t) /\ Unwinds(t)
    /\ UNCHANGED <<idle, closed, lost>>

\* An exception in the body of the with statement is EvalReturns: the instance
\* is released as it is.  PolicyInstance says what its guest may hold.
Interrupt(t) ==
    \/ LoseSlot(t) \/ LeaveTakeSlot(t) \/ LeaveBuild(t) \/ LeaveCheck(t)
    \/ LeaveReload(t) \/ LeaveClosing(t) \/ LeaveClose(t)

\* Waiters without a timeout for which nothing is left to wait for.
Hung ==
    /\ ~BorrowTimeout /\ idle = <<>> /\ calls = MaxCalls
    /\ cut \/ (lost > 0 /\ ~closed)
    /\ \A t \in Threads : pc[t] \in {"idle", "get"}
    /\ UNCHANGED allVars

NextAll ==
    \/ Next /\ UNCHANGED histVars
    \/ \E t \in Threads : Interrupt(t)
    \/ Hung

\* A thread inside a call keeps running (Python schedules every runnable
\* thread; guest code ends by itself or at its epoch deadline); no one owes an
\* interrupt.
FairSpecAll ==
    /\ InitAll /\ [][NextAll]_allVars
    /\ \A t \in Threads : WF_allVars(Step(t) /\ UNCHANGED histVars)

-----------------------------------------------------------------------------
(* Correctness *)

\* While the pool is open every slot is idle, held, or lost by an interrupt
\* that struck between the draw and the try or inside _release(): no other
\* interrupt and no failure costs a slot, and none invents one.
SlotsAccounted ==
    ~closed => Len(idle) + Cardinality({t \in Threads : pc[t] \in HoldingPcs}) + lost
                 = MaxSize

\* Every instance is explained.  Beyond the MaxSize first builds, each was
\* built for one counted in instances_recreated or for one that an interrupt
\* made the pool forget; and the open Stores of finished instances are at most
\* one per slot, plus one for each thread that has given the slot back and is
\* still closing the instance it replaced, plus those forgotten.
InstancesAccounted ==
    /\ created <= MaxSize + recreated + Cardinality(leaked)
    /\ Cardinality(alive) <=
          MaxSize + Cardinality({t \in Threads : pc[t] \in {"closeInst", "drop"}})
                  + Cardinality(leaked)

\* Every borrow() and close() returns without a timeout: a waiter is served,
\* or woken by close() and the chain of re-posted sentinels.  It can hang only
\* for a lost slot, which close() still ends, or for a wake-up that an
\* interrupt cut off.
CallsReturn ==
    \A t \in Threads :
        /\ pc[t] # "idle" ~> pc[t] = "idle" \/ cut \/ (lost > 0 /\ ~closed)
        /\ closed /\ pc[t] # "idle" ~> pc[t] = "idle" \/ cut
=============================================================================
