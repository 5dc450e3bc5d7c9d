-------------------------- MODULE DecisionService ---------------------------
(***************************************************************************)
(* What the instance pool promises its callers, with no queue, instance or *)
(* sentinel in sight: a service that at most MaxSize callers use at a time *)
(* and that answers each from one version of the data document, a version  *)
(* that was current after the call began.  Once shut it grants nothing.    *)
(***************************************************************************)
EXTENDS Naturals, FiniteSets

CONSTANTS
    Threads,    \* callers
    MaxSize,    \* callers served at a time
    MayTimeout, \* whether a waiting caller may give up
    MaxVersion  \* bound: versions published

VARIABLES
    current,  \* the version of the data document in force
    open,     \* whether the service still grants
    phase,    \* caller -> none, waiting, leased, pinned or returning
    since,    \* caller -> the version in force when its call began
    sees      \* caller -> the version its evaluation is pinned to

vars == <<current, open, phase, since, sees>>

Serving == {"leased", "pinned", "returning"}
Leases == {t \in Threads : phase[t] \in Serving}

Init ==
    /\ current = 0
    /\ open = TRUE
    /\ phase = [t \in Threads |-> "none"]
    /\ since = [t \in Threads |-> 0]
    /\ sees = [t \in Threads |-> 0]

Move(t, from, to) == phase[t] = from /\ phase' = [phase EXCEPT ![t] = to]

\* set_data() puts the next version in force.
Publish ==
    /\ current < MaxVersion
    /\ current' = current + 1
    /\ UNCHANGED <<open, phase, since, sees>>

\* close() ends the granting.
Shut == open' = FALSE /\ UNCHANGED <<current, phase, since, sees>>

\* A call begins while the service is open.
Invoke(t) ==
    /\ open
    /\ Move(t, "none", "waiting")
    /\ since' = [since EXCEPT ![t] = current]
    /\ UNCHANGED <<current, open, sees>>

\* A waiting caller gets one of the MaxSize leases.
Grant(t) ==
    /\ open
    /\ Cardinality(Leases) < MaxSize
    /\ Move(t, "waiting", "leased")
    /\ UNCHANGED <<current, open, since, sees>>

\* A waiting caller is turned away: the service is shut, or it gives up.
Refuse(t) ==
    /\ ~open \/ MayTimeout
    /\ Move(t, "waiting", "none")
    /\ since' = [since EXCEPT ![t] = 0]
    /\ UNCHANGED <<current, open, sees>>

\* The evaluation is pinned to the version in force now.
Pin(t) ==
    /\ Move(t, "leased", "pinned")
    /\ sees' = [sees EXCEPT ![t] = current]
    /\ UNCHANGED <<current, open, since>>

\* The caller has its decision, or its error.
Answer(t) ==
    /\ \/ Move(t, "leased", "returning")
       \/ Move(t, "pinned", "returning")
    /\ sees' = [sees EXCEPT ![t] = 0]
    /\ UNCHANGED <<current, open, since>>

\* The lease is free for another caller.
GiveBack(t) ==
    /\ Move(t, "returning", "none")
    /\ since' = [since EXCEPT ![t] = 0]
    /\ UNCHANGED <<current, open, sees>>

Next ==
    \/ Publish \/ Shut
    \/ \E t \in Threads :
           \/ Invoke(t) \/ Grant(t) \/ Refuse(t) \/ Pin(t)
           \/ Answer(t) \/ GiveBack(t)

Spec == Init /\ [][Next]_vars
=============================================================================
