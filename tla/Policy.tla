------------------------------- MODULE Policy -------------------------------
(***************************************************************************)
(* The life of an OpaWasmPolicy (opapywasm/policy.py) and of the epoch     *)
(* ticker thread it owns (EpochTicker in opapywasm/runtime.py): building   *)
(* with a probe instance, evaluations and set_data() in several threads,   *)
(* and close(), which must not stop the ticker under an evaluation that    *)
(* only the ticker can interrupt.                                          *)
(*                                                                         *)
(* The instance pool appears as the service it implements: this module     *)
(* takes its steps from DecisionService, and PoolRefinement shows that the *)
(* pool takes no others.                                                   *)
(***************************************************************************)
EXTENDS Naturals, FiniteSets

CONSTANTS
    Threads,      \* application threads
    MaxSize,      \* pool_size
    MayTimeout,   \* TRUE iff borrow_timeout_seconds is not None
    MaxVersion,   \* bound: set_data() calls
    EvalTimeout,  \* TRUE iff eval_timeout_seconds is not None
    Deadline      \* deadline_ticks(eval_timeout_seconds)

ASSUME PolicyAssumption ==
    /\ IsFiniteSet(Threads)
    /\ MaxSize \in Nat \ {0} /\ Deadline \in Nat \ {0}
    /\ MayTimeout \in BOOLEAN /\ EvalTimeout \in BOOLEAN
    /\ MaxVersion \in Nat

VARIABLES
    current, open, phase, since, sees,  \* the pool, see DecisionService
    made,      \* __init__: "no", "building", "yes" or "failed"
    closed,    \* _closed
    active,    \* _active_evals
    stop,      \* EpochTicker._stop
    thread,    \* EpochTicker._thread is not None
    ticker,    \* the ticker thread: "off", "wait" or "bump"
    pc,        \* thread -> where it is in a call
    left       \* thread -> epoch ticks to the deadline of its evaluation

poolVars   == <<current, open, phase, since, sees>>
lifeVars   == <<made, closed, active>>
tickerVars == <<stop, thread, ticker>>
vars == <<poolVars, lifeVars, tickerVars, pc, left>>

Pool == INSTANCE DecisionService

\* The steps of a thread inside _enter_eval ... _exit_eval.
EvalPcs == {"borrow", "wait", "prepare", "ready", "guest", "release", "exit"}
StopPcs == {"stop", "unref", "join"}

Init ==
    /\ Pool!Init
    /\ made = "no" /\ closed = FALSE /\ active = 0
    /\ stop = FALSE /\ thread = FALSE /\ ticker = "off"
    /\ pc = [t \in Threads |-> "idle"]
    /\ left = [t \in Threads |-> 0]

Goto(t, from, to) == pc[t] = from /\ pc' = [pc EXCEPT ![t] = to]

\* A call of thread t on a policy that has been built; traffic never ends.
Call(t, to) == made = "yes" /\ Goto(t, "idle", to)

-----------------------------------------------------------------------------
(* EpochTicker *)

\* ensure_running(), called by an instance built with a deadline.
EnsureRunning ==
    IF EvalTimeout /\ ~thread /\ ~stop
    THEN thread' = TRUE /\ ticker' = "wait"
    ELSE UNCHANGED <<thread, ticker>>

\* _run(): the wait of one tick ends, by the stop event or by time.
TickerWakes ==
    /\ ticker = "wait"
    /\ ticker' = IF stop THEN "off" ELSE "bump"
    /\ UNCHANGED <<poolVars, lifeVars, stop, thread, pc, left>>

\* _run(): increment_epoch() brings every armed deadline one tick nearer.
TickerBumps ==
    /\ ticker = "bump"
    /\ ticker' = "wait"
    /\ left' = [t \in Threads |-> IF left[t] > 0 THEN left[t] - 1 ELSE 0]
    /\ UNCHANGED <<poolVars, lifeVars, stop, thread, pc>>

\* close(): set the stop event.
StopTicker(t) ==
    /\ Goto(t, "stop", "unref")
    /\ stop' = TRUE
    /\ UNCHANGED <<poolVars, lifeVars, thread, ticker, left>>

\* close(): under _lock, take the thread out of the object.
UnrefTicker(t) ==
    /\ Goto(t, "unref", IF thread THEN "join" ELSE "idle")
    /\ thread' = FALSE
    /\ UNCHANGED <<poolVars, lifeVars, stop, ticker, left>>

\* close(): join returns when the thread has ended, or after one second, or
\* raises because the thread was never started.
JoinTicker(t) ==
    /\ Goto(t, "join", "idle")
    /\ UNCHANGED <<poolVars, lifeVars, tickerVars, left>>

-----------------------------------------------------------------------------
(* Construction *)

\* __init__: build the probe instance; the last thing it does is to start the
\* ticker.  A probe that cannot be built has not come that far, and a thread
\* that the system refuses to start is recorded all the same.
BuildProbe(t) ==
    /\ made = "no"
    /\ made' = "building"
    /\ \/ Goto(t, "idle", "probed") /\ EnsureRunning
       \/ Goto(t, "idle", "abandon") /\ UNCHANGED <<thread, ticker>>
       \/ Goto(t, "idle", "abandon") /\ EvalTimeout /\ thread' = TRUE /\ UNCHANGED ticker
    /\ UNCHANGED <<poolVars, closed, active, stop, left>>

\* __init__: the metadata decodes and the policy is handed out, or it does not.
ReadMetadata(t) ==
    /\ \/ Goto(t, "probed", "idle") /\ made' = "yes"
       \/ Goto(t, "probed", "abandon") /\ UNCHANGED made
    /\ UNCHANGED <<poolVars, closed, active, tickerVars, left>>

\* Mutant: a failed construction leaves the factory open.
AbandonPoolOnly(t) ==
    /\ Goto(t, "abandon", "idle")
    /\ Pool!Shut
    /\ made' = "failed"
    /\ UNCHANGED <<closed, active, tickerVars, left>>

\* __init__: a failed construction closes the pool and then the factory.
Abandon(t) ==
    /\ Goto(t, "abandon", "stop")
    /\ Pool!Shut
    /\ made' = "failed"
    /\ UNCHANGED <<closed, active, tickerVars, left>>

-----------------------------------------------------------------------------
(* evaluate_raw() *)

\* Mutant: the evaluation is not registered with the lifecycle.
EnterUncounted(t) ==
    /\ Call(t, "borrow")
    /\ UNCHANGED <<poolVars, lifeVars, tickerVars, left>>

\* _enter_eval(): register, open or closed.
EnterEval(t) ==
    /\ Call(t, "borrow")
    /\ active' = active + 1
    /\ UNCHANGED <<poolVars, made, closed, tickerVars, left>>

\* borrow() begins, or finds the pool closed.
BorrowBegins(t) ==
    /\ IF open THEN Goto(t, "borrow", "wait") /\ Pool!Invoke(t)
               ELSE Goto(t, "borrow", "exit") /\ UNCHANGED poolVars
    /\ UNCHANGED <<lifeVars, tickerVars, left>>

\* borrow() gets a slot, or is turned away.
BorrowEnds(t) ==
    /\ \/ Goto(t, "wait", "prepare") /\ Pool!Grant(t)
       \/ Goto(t, "wait", "exit") /\ Pool!Refuse(t)
    /\ UNCHANGED <<lifeVars, tickerVars, left>>

\* The slot holds an instance, or one is built, which starts the ticker, or
\* the building fails.
Prepare(t) ==
    /\ \/ Goto(t, "prepare", "ready") /\ UNCHANGED <<poolVars, thread, ticker>>
       \/ Goto(t, "prepare", "ready") /\ EnsureRunning /\ UNCHANGED poolVars
       \/ Goto(t, "prepare", "release") /\ Pool!Answer(t) /\ UNCHANGED <<thread, ticker>>
    /\ UNCHANGED <<lifeVars, stop, left>>

\* The data is refreshed and the guest entered with a fresh deadline.
EnterGuest(t) ==
    /\ Goto(t, "ready", "guest")
    /\ Pool!Pin(t)
    /\ left' = [left EXCEPT ![t] = IF EvalTimeout THEN Deadline ELSE 0]
    /\ UNCHANGED <<lifeVars, tickerVars>>

\* The guest returns or fails by itself; a runaway policy never does.
GuestReturns(t) ==
    /\ Goto(t, "guest", "release")
    /\ Pool!Answer(t)
    /\ left' = [left EXCEPT ![t] = 0]
    /\ UNCHANGED <<lifeVars, tickerVars>>

\* The epoch has passed the deadline of the store: the guest traps.
DeadlineTraps(t) ==
    /\ EvalTimeout /\ left[t] = 0
    /\ Goto(t, "guest", "release")
    /\ Pool!Answer(t)
    /\ UNCHANGED <<lifeVars, tickerVars, left>>

\* _release(): the slot goes back.
ReleaseSlot(t) ==
    /\ Goto(t, "release", "exit")
    /\ Pool!GiveBack(t)
    /\ UNCHANGED <<lifeVars, tickerVars, left>>

\* Mutant: an evaluation that failed leaves its count behind.
ExitKeepsCount(t) ==
    /\ active' \in {active, active - 1}
    /\ Goto(t, "exit", IF closed /\ active' = 0 THEN "stop" ELSE "idle")
    /\ UNCHANGED <<poolVars, made, closed, tickerVars, left>>

\* _exit_eval(): the last evaluation of a closed policy stops the ticker.
ExitEval(t) ==
    /\ active' = active - 1
    /\ Goto(t, "exit", IF closed /\ active' = 0 THEN "stop" ELSE "idle")
    /\ UNCHANGED <<poolVars, made, closed, tickerVars, left>>

-----------------------------------------------------------------------------
(* set_data() and close() *)

\* set_data(): a closed policy refuses before anything is serialised.
SetDataChecks(t) ==
    /\ Call(t, IF closed THEN "idle" ELSE "serialise")
    /\ UNCHANGED <<poolVars, lifeVars, tickerVars, left>>

\* set_data(): the document is refused, or swapped in under _data_lock.
SetDataSwaps(t) ==
    /\ Goto(t, "serialise", "idle")
    /\ Pool!Publish \/ UNCHANGED poolVars
    /\ UNCHANGED <<lifeVars, tickerVars, left>>

\* Mutant: the pool is still open when the lifecycle section runs.
CloseLifecycleFirst(t) ==
    /\ Call(t, "lifecycle")
    /\ UNCHANGED <<poolVars, lifeVars, tickerVars, left>>

\* close(): the pool first.
ClosePool(t) ==
    /\ Call(t, "lifecycle")
    /\ Pool!Shut
    /\ UNCHANGED <<lifeVars, tickerVars, left>>

\* Mutant: close() stops the ticker whether or not evaluations are in flight.
CloseStopsAlways(t) ==
    /\ Goto(t, "lifecycle", "stop")
    /\ closed' = TRUE
    /\ UNCHANGED <<poolVars, made, active, tickerVars, left>>

\* close(): then, under _lifecycle_lock, the flag and the decision to stop.
CloseLifecycle(t) ==
    /\ Goto(t, "lifecycle", IF active = 0 THEN "stop" ELSE "idle")
    /\ closed' = TRUE
    /\ UNCHANGED <<poolVars, made, active, tickerVars, left>>

-----------------------------------------------------------------------------

\* What a thread inside a call does next, but for the guest's own return.
Step(t) ==
    \/ StopTicker(t) \/ UnrefTicker(t) \/ JoinTicker(t)
    \/ ReadMetadata(t) \/ Abandon(t)
    \/ BorrowBegins(t) \/ BorrowEnds(t) \/ Prepare(t) \/ EnterGuest(t)
    \/ DeadlineTraps(t) \/ ReleaseSlot(t) \/ ExitEval(t)
    \/ SetDataSwaps(t) \/ CloseLifecycle(t)

Ticker == TickerWakes \/ TickerBumps

\* There is no policy to call.
Finished ==
    /\ made = "failed"
    /\ \A t \in Threads : pc[t] = "idle"
    /\ UNCHANGED vars

Next ==
    \/ \E t \in Threads :
           \/ BuildProbe(t) \/ EnterEval(t) \/ SetDataChecks(t) \/ ClosePool(t)
           \/ GuestReturns(t) \/ Step(t)
    \/ Ticker
    \/ Finished

Spec == Init /\ [][Next]_vars

\* Threads inside a call and the ticker thread are scheduled.  The guest owes
\* nothing: a policy may loop for ever.
FairSpec ==
    /\ Spec
    /\ \A t \in Threads : WF_vars(Step(t))
    /\ WF_vars(Ticker)

-----------------------------------------------------------------------------
(* Correctness *)

\* Ranges of the variables.
TypeOK ==
    /\ current \in Nat /\ open \in BOOLEAN
    /\ phase \in [Threads -> {"none", "waiting"} \cup Pool!Serving]
    /\ since \in [Threads -> Nat] /\ sees \in [Threads -> Nat]
    /\ made \in {"no", "building", "yes", "failed"}
    /\ closed \in BOOLEAN /\ active \in Nat
    /\ stop \in BOOLEAN /\ thread \in BOOLEAN /\ ticker \in {"off", "wait", "bump"}
    /\ pc \in [Threads -> {"idle", "probed", "abandon", "serialise", "lifecycle"}
                            \cup EvalPcs \cup StopPcs]
    /\ left \in [Threads -> 0..Deadline]

\* _active_evals counts the evaluations in flight, so that zero means none.
ActiveCounts == active = Cardinality({t \in Threads : pc[t] \in EvalPcs})

\* An evaluation in the guest can always be interrupted: the ticker it depends
\* on is running and no one has told it to stop, whenever close() was called.
TickerOutlivesEvals ==
    \A t \in Threads :
        pc[t] \in {"ready", "guest"} /\ EvalTimeout => ticker # "off" /\ ~stop

\* Every call ends under traffic that never does, close() or not: a waiter that
\* is overtaken for ever gives up at its borrow timeout, and an evaluation that
\* runs away is trapped at its deadline.
EveryCallEnds == \A t \in Threads : pc[t] # "idle" ~> pc[t] = "idle"

\* A closed policy, and a policy that failed to build, ends up without its
\* ticker thread and stays without, if callers ever pause: the calls that a
\* closed policy refuses are counted too, and as long as they overlap without
\* end no one sees a count of zero.
TickerReaped ==
    []<>(active = 0) => ((closed \/ made = "failed") ~> [](ticker = "off"))
=============================================================================
