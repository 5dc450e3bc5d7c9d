--------------------------- MODULE PoolRefinement ---------------------------
(***************************************************************************)
(* The pool implements DecisionService.  The moment a borrow() is granted  *)
(* is the closed check of _take_slot, the moment its data is pinned is the *)
(* snapshot of _refresh_if_stale, and the lease ends with the put of the   *)
(* slot, before a replaced instance is closed.                             *)
(***************************************************************************)
EXTENDS InstancePool

\* The phase of the service that a step of borrow() belongs to.
PhaseOf(p) ==
    CASE p \in {"get", "drawn", "drop", "repost"}             -> "waiting"
      [] p \in {"build", "construct", "check"}                -> "leased"
      [] p \in {"reload", "loan"}                             -> "pinned"
      [] p \in {"release", "count", "putNone", "putBack"}     -> "returning"
      [] p \in {"idle", "closeInst"} \cup ClosePcs            -> "none"

PhaseBar == [t \in Threads |-> PhaseOf(pc[t])]
SinceBar == [t \in Threads |-> IF PhaseOf(pc[t]) = "none" THEN 0 ELSE start[t]]

\* While it reloads, an evaluation is pinned to the snapshot it loads, and
\* on loan to the document the guest really holds.
SeesBar ==
    [t \in Threads |-> CASE pc[t] = "reload" -> snap[t]
                         [] pc[t] = "loan"   -> instDoc[slot[t]]
                         [] OTHER            -> 0]

Service == INSTANCE DecisionService
    WITH MayTimeout <- BorrowTimeout, current <- version, open <- ~closed,
         phase <- PhaseBar, since <- SinceBar, sees <- SeesBar

\* borrow(), close() and set_data() implement the service.
ImplementsService == Service!Spec

\* "max concurrent evals": borrow() never serves more than max_size callers at
\* a time, also when close() has emptied the queue under their loans and put
\* sentinels in place of slots.
EvaluationsBounded == Cardinality(Service!Leases) <= MaxSize
=============================================================================
