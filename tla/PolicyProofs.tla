---------------------------- MODULE PolicyProofs ----------------------------
(***************************************************************************)
(* Theorems about Policy for every set of threads, pool size, deadline and *)
(* bound: the count of the evaluations in flight is exact, and no          *)
(* evaluation runs without the ticker that can interrupt it.               *)
(*                                                                         *)
(* TickerOutlivesEvals is not inductive: that nobody stops the ticker      *)
(* under an evaluation rests on the order of close() (the pool first, so   *)
(* that no one is granted later) and on the exact count.                   *)
(***************************************************************************)
EXTENDS Policy, FiniteSetTheorems, TLAPS

Evals == {t \in Threads : pc[t] \in EvalPcs}

\* Once anything of close() or of a failed construction has run, the pool is
\* shut for good.
ShutFirst ==
    open => /\ ~closed /\ ~stop /\ made # "failed"
            /\ \A t \in Threads : pc[t] \notin StopPcs \cup {"lifecycle"}

\* When a thread is to stop the ticker, no granted evaluation is left.
Drained ==
    stop \/ (\E t \in Threads : pc[t] \in StopPcs) =>
        \A t \in Threads : pc[t] \notin {"wait", "prepare", "ready", "guest", "release"}

\* One thread constructs the policy, and no one calls it before.
Construction ==
    /\ \A t \in Threads : pc[t] \in {"probed", "abandon"} => made = "building"
    /\ \A t, u \in Threads :
           pc[t] \in {"probed", "abandon"} /\ pc[u] \in {"probed", "abandon"} => t = u
    /\ made # "yes" =>
           \A t \in Threads : pc[t] \notin EvalPcs \cup {"serialise", "lifecycle"}

\* The ticker runs from the probe on until it is told to stop.
TickerOn ==
    /\ made = "no" => ~thread
    /\ \A t \in Threads : pc[t] \in {"unref", "join"} => stop
    /\ EvalTimeout /\ ~stop /\ made = "yes" => thread /\ ticker # "off"
    /\ EvalTimeout /\ ~stop =>
           \A t \in Threads : pc[t] = "probed" => thread /\ ticker # "off"

Life == ShutFirst /\ Drained /\ Construction /\ TickerOn

Inv == TypeOK /\ ActiveCounts /\ Life

-----------------------------------------------------------------------------
(* Initial states and the single steps *)

\* A policy that is not built yet satisfies the inductive invariant.
LEMMA InitInv == Init => Inv
  <1>. SUFFICES ASSUME Init PROVE Inv
    OBVIOUS
  <1>1. TypeOK
    <2>1. open \in BOOLEAN /\ closed \in BOOLEAN /\ stop \in BOOLEAN /\ thread \in BOOLEAN
      BY Zenon DEF Init, Pool!Init
    <2>2. /\ current = 0 /\ active = 0
          /\ phase = [t \in Threads |-> "none"]
          /\ since = [t \in Threads |-> 0] /\ sees = [t \in Threads |-> 0]
          /\ made = "no" /\ ticker = "off" /\ pc = [t \in Threads |-> "idle"]
          /\ left = [t \in Threads |-> 0]
      BY DEF Init, Pool!Init
    <2>. QED  BY <2>1, <2>2, PolicyAssumption DEF TypeOK
  <1>2. Evals = {}
    BY DEF Init, Evals, EvalPcs
  <1>3. ActiveCounts
    BY <1>2, FS_EmptySet DEF Init, ActiveCounts, Evals
  <1>4. Life
    BY DEF Init, Pool!Init, Life, ShutFirst, Drained, Construction, TickerOn,
        EvalPcs, StopPcs
  <1>. QED  BY <1>1, <1>3, <1>4 DEF Inv

\* What thread t may do.
ThreadStep(t) ==
    \/ BuildProbe(t) \/ EnterEval(t) \/ SetDataChecks(t) \/ ClosePool(t)
    \/ GuestReturns(t) \/ Step(t)

\* A thread in flight is counted, and a count of zero means that none is.
LEMMA CountFacts ==
    ASSUME Inv
    PROVE  /\ IsFiniteSet(Evals)
           /\ active = Cardinality(Evals) /\ active \in Nat
           /\ \A t \in Evals : active > 0
           /\ active = 0 => Evals = {}
           /\ \A t \in Evals : active - 1 = 0 => Evals = {t}
  <1>1. IsFiniteSet(Evals) /\ active = Cardinality(Evals) /\ active \in Nat
    BY PolicyAssumption, FS_Subset, FS_CardinalityType
       DEF Inv, TypeOK, ActiveCounts, Evals
  <1>2. active = 0 => Evals = {}
    BY <1>1, FS_EmptySet
  <1>3. ASSUME NEW t \in Evals
        PROVE  active > 0 /\ (active - 1 = 0 => Evals = {t})
    <2>1. /\ IsFiniteSet(Evals \ {t})
          /\ Cardinality(Evals \ {t}) = Cardinality(Evals) - 1
      BY <1>1, FS_RemoveElement
    <2>2. active - 1 = 0 => Evals \ {t} = {}
      BY <1>1, <2>1, FS_EmptySet
    <2>. QED  BY <1>1, <1>2, <2>2
  <1>. QED  BY <1>1, <1>2, <1>3

\* A step of thread t keeps every variable in its range.
LEMMA TypeStep ==
    ASSUME Inv, NEW t \in Threads, ThreadStep(t)
    PROVE  TypeOK'
  <1>. USE DEF Goto, Call, poolVars, lifeVars, tickerVars, EvalPcs, StopPcs,
           Pool!Serving, Pool!Move
  <1>0. TypeOK /\ Deadline \in Nat
    BY PolicyAssumption DEF Inv
  <1>1. CASE StopTicker(t) \/ UnrefTicker(t) \/ JoinTicker(t)
    BY <1>0, <1>1, ZenonT(30) DEF StopTicker, UnrefTicker, JoinTicker, TypeOK
  <1>2. CASE BuildProbe(t) \/ ReadMetadata(t) \/ Abandon(t)
    BY <1>0, <1>2 DEF BuildProbe, EnsureRunning, ReadMetadata, Abandon, Pool!Shut, TypeOK
  <1>3. CASE EnterEval(t) \/ BorrowBegins(t) \/ BorrowEnds(t)
    BY <1>0, <1>3 DEF EnterEval, BorrowBegins, BorrowEnds, Pool!Invoke, Pool!Grant,
        Pool!Refuse, TypeOK
  <1>4. CASE Prepare(t)
    <2>1. CASE Goto(t, "prepare", "ready") /\ UNCHANGED poolVars
      BY <1>0, <1>4, <2>1 DEF Prepare, EnsureRunning, TypeOK
    <2>2. CASE Goto(t, "prepare", "release") /\ Pool!Answer(t) /\ UNCHANGED <<thread, ticker>>
      BY <1>0, <1>4, <2>2 DEF Prepare, Pool!Answer, TypeOK
    <2>. QED  BY <1>4, <2>1, <2>2 DEF Prepare
  <1>5. CASE EnterGuest(t)
    BY <1>0, <1>5 DEF EnterGuest, Pool!Pin, TypeOK
  <1>6. CASE GuestReturns(t) \/ DeadlineTraps(t)
    BY <1>0, <1>6 DEF GuestReturns, DeadlineTraps, Pool!Answer, TypeOK
  <1>7. CASE ReleaseSlot(t)
    BY <1>0, <1>7 DEF ReleaseSlot, Pool!GiveBack, TypeOK
  <1>8. CASE ExitEval(t)
    <2>1. t \in Evals
      BY <1>8 DEF ExitEval, Evals
    <2>2. active - 1 \in Nat
      BY <2>1, CountFacts
    <2>. QED  BY <1>0, <1>8, <2>2 DEF ExitEval, TypeOK
  <1>9. CASE SetDataChecks(t)
    BY <1>0, <1>9 DEF SetDataChecks, TypeOK
  <1>10. CASE SetDataSwaps(t)
    BY <1>0, <1>10 DEF SetDataSwaps, Pool!Publish, TypeOK
  <1>11. CASE ClosePool(t)
    <2>1. open' \in BOOLEAN
      BY <1>11, Zenon DEF ClosePool, Pool!Shut
    <2>2. /\ Call(t, "lifecycle")
          /\ UNCHANGED <<current, phase, since, sees, lifeVars, tickerVars, left>>
      BY <1>11 DEF ClosePool, Pool!Shut
    <2>. QED  BY <1>0, <2>1, <2>2 DEF TypeOK
  <1>12. CASE CloseLifecycle(t)
    BY <1>0, <1>12 DEF CloseLifecycle, TypeOK
  <1>. QED
    BY <1>1, <1>2, <1>3, <1>4, <1>5, <1>6, <1>7, <1>8, <1>9, <1>10, <1>11, <1>12
       DEF ThreadStep, Step

\* _enter_eval() and _exit_eval() bracket what is counted, and nothing else
\* touches the count.
LEMMA CountStep ==
    ASSUME Inv, NEW t \in Threads, ThreadStep(t)
    PROVE  ActiveCounts'
  <1>. USE DEF Goto, Call, poolVars, lifeVars, tickerVars, EvalPcs, StopPcs
  <1>. SUFFICES active' = Cardinality(Evals')
    BY DEF ActiveCounts, Evals
  <1>0. pc \in [Threads -> {"idle", "probed", "abandon", "serialise", "lifecycle"}
                             \cup EvalPcs \cup StopPcs]
    BY DEF Inv, TypeOK
  <1>1. CASE EnterEval(t)
    <2>1. Evals' = Evals \cup {t} /\ t \notin Evals
      BY <1>0, <1>1 DEF EnterEval, Evals
    <2>2. Cardinality(Evals \cup {t}) = Cardinality(Evals) + 1
      BY <2>1, CountFacts, FS_AddElement
    <2>. QED  BY <1>1, <2>1, <2>2, CountFacts DEF EnterEval
  <1>2. CASE ExitEval(t)
    <2>1. Evals' = Evals \ {t} /\ t \in Evals
      BY <1>0, <1>2 DEF ExitEval, Evals
    <2>2. Cardinality(Evals \ {t}) = Cardinality(Evals) - 1
      BY <2>1, CountFacts, FS_RemoveElement
    <2>. QED  BY <1>2, <2>1, <2>2, CountFacts DEF ExitEval
  <1>3. CASE Evals' = Evals /\ active' = active
    BY <1>3, CountFacts
  <1>4. CASE \/ StopTicker(t) \/ UnrefTicker(t) \/ JoinTicker(t)
             \/ BuildProbe(t) \/ ReadMetadata(t) \/ Abandon(t)
             \/ SetDataChecks(t) \/ SetDataSwaps(t) \/ ClosePool(t)
             \/ CloseLifecycle(t)
    BY <1>0, <1>3, <1>4 DEF StopTicker, UnrefTicker, JoinTicker, BuildProbe,
        ReadMetadata, Abandon, SetDataChecks, SetDataSwaps, ClosePool,
        CloseLifecycle, Evals
  <1>5. CASE \/ BorrowBegins(t) \/ BorrowEnds(t) \/ Prepare(t) \/ EnterGuest(t)
             \/ GuestReturns(t) \/ DeadlineTraps(t) \/ ReleaseSlot(t)
    BY <1>0, <1>3, <1>5 DEF BorrowBegins, BorrowEnds, Prepare, EnterGuest,
        GuestReturns, DeadlineTraps, ReleaseSlot, Evals
  <1>. QED  BY <1>1, <1>2, <1>4, <1>5 DEF ThreadStep, Step

\* A step of thread t keeps the order of the shutdown: the pool, the count, the
\* ticker.
LEMMA LifeStep ==
    ASSUME Inv, NEW t \in Threads, ThreadStep(t)
    PROVE  Life'
  <1>. USE DEF Goto, Call, poolVars, lifeVars, tickerVars, EvalPcs, StopPcs,
           Life, ShutFirst, Drained, Construction, TickerOn
  <1>0. /\ pc \in [Threads -> {"idle", "probed", "abandon", "serialise", "lifecycle"}
                                \cup EvalPcs \cup StopPcs]
        /\ Life /\ open \in BOOLEAN /\ stop \in BOOLEAN /\ closed \in BOOLEAN
        /\ thread \in BOOLEAN
    BY DEF Inv, TypeOK
  <1>1. CASE StopTicker(t)
    BY <1>0, <1>1 DEF StopTicker
  <1>2. CASE UnrefTicker(t) \/ JoinTicker(t)
    BY <1>0, <1>2 DEF UnrefTicker, JoinTicker
  <1>3. CASE BuildProbe(t)
    BY <1>0, <1>3 DEF BuildProbe, EnsureRunning
  <1>4. CASE ReadMetadata(t)
    BY <1>0, <1>4 DEF ReadMetadata
  <1>5. CASE Abandon(t)
    BY <1>0, <1>5 DEF Abandon, Pool!Shut
  <1>6. CASE EnterEval(t) \/ SetDataChecks(t) \/ SetDataSwaps(t)
    BY <1>0, <1>6 DEF EnterEval, SetDataChecks, SetDataSwaps, Pool!Publish
  <1>7. CASE BorrowBegins(t) \/ BorrowEnds(t)
    BY <1>0, <1>7 DEF BorrowBegins, BorrowEnds, Pool!Invoke, Pool!Grant, Pool!Refuse
  <1>8. CASE Prepare(t)
    BY <1>0, <1>8 DEF Prepare, EnsureRunning, Pool!Answer
  <1>9. CASE EnterGuest(t) \/ GuestReturns(t) \/ DeadlineTraps(t) \/ ReleaseSlot(t)
    BY <1>0, <1>9 DEF EnterGuest, GuestReturns, DeadlineTraps, ReleaseSlot,
        Pool!Pin, Pool!Answer, Pool!GiveBack
  <1>10. CASE ExitEval(t)
    <2>1. closed /\ active' = 0 => \A u \in Threads \ {t} : pc[u] \notin EvalPcs
      BY <1>10, CountFacts DEF ExitEval, Evals
    <2>. QED  BY <1>0, <1>10, <2>1 DEF ExitEval
  <1>11. CASE ClosePool(t)
    BY <1>0, <1>11 DEF ClosePool, Pool!Shut
  <1>12. CASE CloseLifecycle(t)
    <2>1. active = 0 => \A u \in Threads : pc[u] \notin EvalPcs
      BY CountFacts DEF Evals
    <2>. QED  BY <1>0, <1>12, <2>1 DEF CloseLifecycle
  <1>. QED
    BY <1>1, <1>2, <1>3, <1>4, <1>5, <1>6, <1>7, <1>8, <1>9, <1>10, <1>11, <1>12
       DEF ThreadStep, Step

\* A step of the ticker thread: it ends only when told to stop.
LEMMA TickerStep ==
    ASSUME Inv, Ticker
    PROVE  Inv'
  <1>. USE DEF Ticker, TickerWakes, TickerBumps, poolVars, lifeVars
  <1>1. TypeOK'
    BY PolicyAssumption DEF Inv, TypeOK
  <1>2. ActiveCounts'
    BY DEF Inv, ActiveCounts
  <1>3. Life'
    BY DEF Inv, TypeOK, Life, ShutFirst, Drained, Construction, TickerOn
  <1>. QED  BY <1>1, <1>2, <1>3 DEF Inv

-----------------------------------------------------------------------------
(* The theorems *)

\* Every step of a thread or of the ticker preserves the inductive invariant.
LEMMA StepInv == Inv /\ [Next]_vars => Inv'
  <1>. SUFFICES ASSUME Inv, [Next]_vars PROVE Inv'
    OBVIOUS
  <1>1. ASSUME NEW t \in Threads, ThreadStep(t) PROVE Inv'
    BY <1>1, TypeStep, CountStep, LifeStep DEF Inv
  <1>2. CASE UNCHANGED vars
    BY <1>2 DEF vars, poolVars, lifeVars, tickerVars, Inv, TypeOK, ActiveCounts, Life,
        ShutFirst, Drained, Construction, TickerOn
  <1>. QED  BY <1>1, <1>2, TickerStep DEF Next, ThreadStep, Finished

\* The inductive invariant holds from the probe to the end of the ticker.
THEOREM Invariance == Spec => []Inv
  BY InitInv, StepInv, PTL DEF Spec

\* Type correctness of the facade and its ticker; _active_evals is never negative.
THEOREM TypeCorrect == Spec => []TypeOK
  BY Invariance, PTL DEF Inv

\* _active_evals is the number of evaluations between _enter_eval() and
\* _exit_eval(), refused and failed ones included.
THEOREM ActiveExact == Spec => []ActiveCounts
  BY Invariance, PTL DEF Inv

\* No evaluation is ever in the guest without a running ticker that nobody has
\* told to stop, however close() races evaluate(), construction and other
\* close() calls.
THEOREM TickerGuards == Spec => []TickerOutlivesEvals
  <1>1. Inv => TickerOutlivesEvals
    BY DEF Inv, Life, Drained, Construction, TickerOn, TickerOutlivesEvals, EvalPcs
  <1>. QED  BY <1>1, Invariance, PTL
=============================================================================
