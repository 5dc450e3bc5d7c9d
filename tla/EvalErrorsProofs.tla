--------------------------- MODULE EvalErrorsProofs ---------------------------
(***************************************************************************)
(* Proofs about Facade and EvalErrors: a policy that is ready can be       *)
(* called, with an entrypoint it declares, and the exception of a failed   *)
(* call is the right one, for every set of names and ids and any number of *)
(* exceptions and except blocks.                                           *)
(***************************************************************************)
EXTENDS EvalErrors, TLAPS

-----------------------------------------------------------------------------
(* The inductive invariant *)

\* An exception object.
ErrorTypes == OpaWasmErrors \cup {"other"}
ExnType == [type : ErrorTypes, says : BOOLEAN, cause : Nat, context : Nat]

Types ==
    /\ exns \in Seq(ExnType) /\ handlers \in Seq(Nat)
    /\ exc \in Nat /\ cur \in Nat /\ raised \in Nat
    /\ mark \in Nat /\ mark <= Len(exns)
    /\ host \in Nat

ModuleTypes ==
    /\ exports \in [Exports -> Kinds \cup {Absent}]
    /\ entries \in [Names -> Ids \cup Bools \cup {Absent}]

\* The first n exceptions lead to each other only.
Closed(n) == \A i \in 1..n : exns[i].cause <= n /\ exns[i].context <= n

\* No reference to an exception dangles, although GoesOn and LeavesHandler
\* drop exceptions: those that were there when a call began lead to each other
\* only, unless the call raised one of them again.
Linked ==
    /\ Closed(Len(exns))
    /\ exc <= Len(exns) /\ cur <= Len(exns) /\ raised <= Len(exns)
    /\ Closed(mark) \/ (at = "raised" /\ raised <= mark)
    /\ \A k \in 1..Len(handlers) :
           1 <= handlers[k] /\ handlers[k] <= IF at = "ready" THEN Len(exns) ELSE mark
    /\ at = "raised" => raised # 0

\* The construction: what each check of OpaAbi.__init__ has established when
\* the next one begins.
Constructing == {"settings", "factory", "runtime", "version", "exports",
                 "evalPath", "signatures", "metadata"} \cup Rejected
Calling == {"enter", "result", "answered", "find", "epoch", "raised"}

Checked ==
    /\ at \in Constructing \cup {"ready"} \cup Calling
    /\ at \in {"evalPath", "signatures"} => Has("required")
    /\ at = "signatures" => Has("opa_eval")
    /\ at \in {"metadata", "ready"} \cup Calling =>
           \A e \in Exports : exports[e] = "right"
    /\ at \in {"ready"} \cup Calling => \A n \in Names : entries[n] \notin Bools

\* Before a call, and until something goes wrong in one, nothing has failed.
Untroubled ==
    /\ at \notin {"find", "epoch", "raised"} => failure = "none" /\ host = 0
    /\ at \in Constructing \cup {"ready"} => mark = 0 /\ exc = 0 /\ cur = 0 /\ raised = 0
    /\ at = "epoch" => host = 0

\* The first walk, for the error of a host import: it stands at the error, or
\* at the trap whose next link is the error, and has not been there before.
TowardsHost ==
    at = "find" /\ host # 0 =>
        /\ host \in DOMAIN exns /\ failure \in HostErrors
        /\ exns[host].type = failure
        /\ host \notin seen
        /\ \/ cur = host
           \/ /\ cur = exc /\ seen = {} /\ exc \in DOMAIN exns
              /\ exns[exc].type = "other" /\ Follow(exc) = host

\* Both walks, for a failure of the guest outside of except blocks: the
\* exception is alone, so a walk is at it or past it.
Alone ==
    at \in {"find", "epoch"} /\ host = 0 /\ handlers = <<>> =>
        /\ failure \in {"trap", "timeout", "crash"}
        /\ exc \in DOMAIN exns
        /\ exns[exc].type = "other" /\ exns[exc].cause = 0 /\ exns[exc].context = 0
        /\ failure = "timeout" => exns[exc].says
        /\ \/ cur = exc /\ seen = {}
           \/ cur = 0 /\ (at = "epoch" => ~exns[exc].says)

Inv ==
    /\ Types /\ ModuleTypes /\ Linked /\ Checked /\ Untroubled /\ TowardsHost /\ Alone
    /\ EntrypointDeclared /\ HostErrorSurfaces /\ OutcomeExact

-----------------------------------------------------------------------------
(* What failures are called *)

\* The names of the SDK's errors are none of the other failures, and "other",
\* the class of everything else, is none of theirs.
LEMMA FailureNames ==
    /\ CodecErrors \subseteq OpaWasmErrors /\ BorrowErrors \subseteq OpaWasmErrors
    /\ HostErrors \subseteq OpaWasmErrors
    /\ {"OpaEvaluationError", "OpaEntrypointError"} \subseteq OpaWasmErrors
    /\ OpaWasmErrors \cap {"other", "unwrapped", "trap", "timeout", "crash"} = {}
  BY DEF OpaWasmErrors, PassthroughErrors, HostErrors, BorrowErrors, CodecErrors

-----------------------------------------------------------------------------
(* Exceptions are added at the end *)

\* The exception being handled is an object, and one from before the call.
LEMMA HandledBound ==
    ASSUME Types, Linked
    PROVE  /\ Handled \in Nat /\ Handled <= Len(exns)
           /\ at # "ready" => Handled <= mark
  <1>1. CASE handlers = <<>>
    BY <1>1 DEF Handled, Types
  <1>2. CASE handlers # <<>>
    <2>1. Len(handlers) >= 1 /\ Handled = handlers[1]
      BY <1>2 DEF Handled
    <2> QED  BY <2>1 DEF Types, Linked
  <1> QED  BY <1>1, <1>2

\* A walk stays among the exceptions.
LEMMA FollowBound ==
    ASSUME Types, Linked, cur # 0
    PROVE  Follow(cur) \in 0..Len(exns)
  <1>1. cur \in 1..Len(exns)
    BY DEF Types, Linked
  <1>2. exns[cur] \in ExnType /\ exns[cur].cause <= Len(exns) /\ exns[cur].context <= Len(exns)
    BY <1>1 DEF Types, Linked, Closed
  <1>3. exns[cur].cause \in Nat /\ exns[cur].context \in Nat
    BY <1>2 DEF ExnType
  <1> QED  BY <1>2, <1>3 DEF Follow

\* New exceptions, whose links do not dangle.
Grows ==
    /\ exns' \in Seq(ExnType) /\ Len(exns') >= Len(exns)
    /\ \A i \in 1..Len(exns) : exns'[i] = exns[i]
    /\ \A i \in (Len(exns) + 1)..Len(exns') :
           exns'[i].cause <= Len(exns') /\ exns'[i].context <= Len(exns')

\* Within a call the other exceptions stay, and no reference dangles.
LEMMA GrowsKeeps ==
    ASSUME Types, Linked, Grows,
           handlers' = handlers,
           \/ at \notin {"ready", "raised"} /\ mark' = mark
           \/ at = "ready" /\ mark' = Len(exns),
           at' # "ready",
           exc' \in 0..Len(exns'), cur' \in 0..Len(exns'),
           raised' \in 0..Len(exns'), at' = "raised" => raised' # 0,
           host' \in Nat
    PROVE  Types' /\ Linked'
  <1>1. Types'
    BY DEF Types, Grows
  <1>2. Closed(Len(exns))'
    <2> SUFFICES ASSUME NEW i \in 1..Len(exns')
                 PROVE  exns'[i].cause <= Len(exns') /\ exns'[i].context <= Len(exns')
      BY DEF Closed
    <2>1. CASE i \in (Len(exns) + 1)..Len(exns')
      BY <2>1 DEF Grows
    <2>2. CASE i \in 1..Len(exns)
      <3>1. exns[i] \in ExnType /\ exns[i].cause <= Len(exns) /\ exns[i].context <= Len(exns)
        BY <2>2 DEF Types, Linked, Closed
      <3>2. exns[i].cause \in Nat /\ exns[i].context \in Nat
        BY <3>1 DEF ExnType
      <3>3. exns'[i] = exns[i]
        BY <2>2 DEF Grows
      <3>4. Len(exns) \in Nat /\ Len(exns') \in Nat /\ Len(exns) <= Len(exns')
        BY DEF Grows, Types
      <3> QED  BY <3>1, <3>2, <3>3, <3>4
    <2> QED  BY <2>1, <2>2
  <1>3. Closed(mark)'
    <2>1. mark' \in 0..Len(exns) /\ Closed(mark')
      BY DEF Linked, Types
    <2>2. \A i \in 1..mark' : i \in 1..Len(exns) /\ exns'[i] = exns[i]
      BY <2>1 DEF Grows
    <2> QED  BY <2>1, <2>2 DEF Closed
  <1>4. \A k \in 1..Len(handlers) : 1 <= handlers[k] /\ handlers[k] <= mark'
    BY DEF Linked
  <1>5. Linked'
    BY <1>1, <1>2, <1>3, <1>4 DEF Linked
  <1> QED  BY <1>1, <1>5

\* One new exception.
LEMMA OneMore ==
    ASSUME Types, NEW x \in ExnType, exns' = Append(exns, x),
           x.cause <= Len(exns) + 1, x.context <= Len(exns) + 1
    PROVE  /\ Grows /\ Len(exns') = Len(exns) + 1
           /\ exns'[Len(exns) + 1] = x
  <1>1. /\ exns' \in Seq(ExnType) /\ Len(exns') = Len(exns) + 1
        /\ \A i \in 1..Len(exns) : exns'[i] = exns[i]
        /\ exns'[Len(exns) + 1] = x
    BY DEF Types
  <1> QED  BY <1>1 DEF Grows

\* Two new exceptions.
LEMMA TwoMore ==
    ASSUME Types, NEW x \in ExnType, NEW y \in ExnType, exns' = exns \o <<x, y>>,
           x.cause <= Len(exns) + 1, x.context <= Len(exns) + 1,
           y.cause <= Len(exns) + 1, y.context <= Len(exns) + 1
    PROVE  /\ Grows /\ Len(exns') = Len(exns) + 2
           /\ exns'[Len(exns) + 1] = x /\ exns'[Len(exns) + 2] = y
  <1>1. /\ exns' \in Seq(ExnType) /\ Len(exns') = Len(exns) + 2
        /\ \A i \in 1..Len(exns) : exns'[i] = exns[i]
        /\ exns'[Len(exns) + 1] = x /\ exns'[Len(exns) + 2] = y
    <2>1. <<x, y>> \in Seq(ExnType) /\ Len(<<x, y>>) = 2
          /\ <<x, y>>[1] = x /\ <<x, y>>[2] = y
      OBVIOUS
    <2> QED  BY <2>1 DEF Types
  <1>2. x.cause \in Nat /\ x.context \in Nat /\ y.cause \in Nat /\ y.context \in Nat
    BY DEF ExnType
  <1>3. Len(exns) \in Nat
    BY DEF Types
  <1>4. \A i \in (Len(exns) + 1)..(Len(exns) + 2) : i \in {Len(exns) + 1, Len(exns) + 2}
    BY <1>3
  <1> QED  BY <1>1, <1>2, <1>3, <1>4 DEF Grows

\* A new error that leaves evaluate().
LEMMA RaiseNewKeeps ==
    ASSUME Types, Linked, NEW type \in ErrorTypes, RaiseNew(type),
           \/ at \notin {"ready", "raised"} /\ mark' = mark
           \/ at = "ready" /\ mark' = Len(exns),
           UNCHANGED <<handlers, walkVars, host>>
    PROVE  /\ Types' /\ Linked'
           /\ raised' \in DOMAIN exns' /\ exns'[raised'].type = type
  <1> DEFINE x == Exn(type, FALSE, 0, Handled)
  <1>0. Handled \in Nat /\ Handled <= Len(exns) /\ Len(exns) \in Nat
    BY HandledBound
  <1>1. /\ x \in ExnType /\ x.cause <= Len(exns) + 1 /\ x.context <= Len(exns) + 1
        /\ x.type = type
    BY <1>0 DEF Exn, ExnType
  <1>2. exns' = Append(exns, x) /\ raised' = Len(exns) + 1 /\ at' = "raised"
    BY DEF RaiseNew, LeavesWith, NewId
  <1> HIDE DEF x
  <1>3. Grows /\ Len(exns') = Len(exns) + 1 /\ exns'[Len(exns) + 1] = x
    BY <1>1, <1>2, OneMore
  <1>4. Types' /\ Linked'
    <2>1. /\ exc' \in 0..Len(exns') /\ cur' \in 0..Len(exns')
          /\ raised' \in 0..Len(exns') /\ raised' # 0 /\ host' \in Nat
          /\ handlers' = handlers
      BY <1>0, <1>2, <1>3 DEF Types, Linked, walkVars
    <2> QED  BY <1>2, <1>3, <2>1, GrowsKeeps
  <1>5. raised' \in DOMAIN exns' /\ exns'[raised'].type = type
    BY <1>0, <1>1, <1>2, <1>3, <1>4
  <1> QED  BY <1>4, <1>5

\* `raise typed from exc` changes links only, and only those of typed itself,
\* or to None.
LEMMA ReraiseKeeps ==
    ASSUME Types, Linked, NEW typed \in 1..Len(exns), Reraise(typed)
    PROVE  /\ exns' \in Seq(ExnType) /\ Len(exns') = Len(exns)
           /\ Closed(Len(exns))'
           /\ \A i \in 1..Len(exns) :
                  /\ exns'[i].type = exns[i].type /\ exns'[i].says = exns[i].says
                  /\ i # typed => /\ exns'[i].cause = exns[i].cause
                                  /\ exns'[i].context \in {0, exns[i].context}
  <1> DEFINE Cut(i) == i \in ContextChain(exc) /\ exns[i].context = typed
  <1>1. exc \in 0..Len(exns) /\ DOMAIN exns = 1..Len(exns) /\ Len(exns) \in Nat
    BY DEF Types, Linked
  <1>2. \A i \in 1..Len(exns) :
          exns'[i] = IF i = typed
                     THEN [exns[i] EXCEPT !.cause = exc,
                              !.context = IF typed = exc THEN @ ELSE exc]
                     ELSE IF Cut(i) THEN [exns[i] EXCEPT !.context = 0] ELSE exns[i]
    BY <1>1 DEF Reraise
  <1> HIDE DEF Cut
  <1>3. \A i \in 1..Len(exns) : /\ exns[i] \in ExnType
                                /\ exns[i].cause <= Len(exns) /\ exns[i].context <= Len(exns)
    BY DEF Types, Linked, Closed
  <1>4. ASSUME NEW i \in 1..Len(exns)
        PROVE  /\ exns'[i] \in ExnType
               /\ exns'[i].type = exns[i].type /\ exns'[i].says = exns[i].says
               /\ i # typed => /\ exns'[i].cause = exns[i].cause
                               /\ exns'[i].context \in {0, exns[i].context}
               /\ exns'[i].cause <= Len(exns) /\ exns'[i].context <= Len(exns)
    <2> DEFINE e == exns[i]
    <2>0. /\ e \in ExnType /\ e.cause \in Nat /\ e.context \in Nat
          /\ e.cause <= Len(exns) /\ e.context <= Len(exns)
      BY <1>3 DEF ExnType
    <2>1. CASE i = typed
      <3> DEFINE c == IF typed = exc THEN e.context ELSE exc
      <3>1. c \in Nat /\ c <= Len(exns) /\ exc \in Nat /\ exc <= Len(exns)
        BY <1>1, <2>0
      <3>2. exns'[i] = [e EXCEPT !.cause = exc, !.context = c]
        BY <1>2, <2>1
      <3> HIDE DEF c, e
      <3>3. /\ exns'[i] \in ExnType /\ exns'[i].cause = exc /\ exns'[i].context = c
            /\ exns'[i].type = e.type /\ exns'[i].says = e.says
        BY <2>0, <3>1, <3>2 DEF ExnType
      <3> QED  BY <2>1, <3>1, <3>3 DEF e
    <2>2. CASE i # typed /\ Cut(i)
      <3>2. exns'[i] = [e EXCEPT !.context = 0]
        BY <1>2, <2>2
      <3> HIDE DEF e
      <3>3. /\ exns'[i] \in ExnType /\ exns'[i].cause = e.cause /\ exns'[i].context = 0
            /\ exns'[i].type = e.type /\ exns'[i].says = e.says
        BY <2>0, <3>2 DEF ExnType
      <3> QED  BY <1>1, <2>0, <2>2, <3>3 DEF e
    <2>3. CASE i # typed /\ ~Cut(i)
      BY <1>2, <2>0, <2>3
    <2> QED  BY <2>1, <2>2, <2>3
  <1>5. exns' \in Seq(ExnType) /\ Len(exns') = Len(exns)
    <2>1. DOMAIN exns' = 1..Len(exns) /\ exns' = [i \in 1..Len(exns) |-> exns'[i]]
      BY <1>1 DEF Reraise
    <2>2. exns' \in [1..Len(exns) -> ExnType]
      BY <1>4, <2>1
    <2> QED  BY <1>1, <2>1, <2>2
  <1> QED  BY <1>4, <1>5 DEF Closed


-----------------------------------------------------------------------------
(* Its preservation, action by action *)

\* _resolve_entrypoint() finds an id.
LEMMA CallStep ==
    ASSUME Inv, NEW q \in Requests, Call(q)
    PROVE  Inv'
  <1>1. Types'
    BY DEF Inv, Call, Begins, Types, walkVars
  <1>2. ModuleTypes'
    BY DEF Inv, Call, Resolve, ModuleTypes, moduleVars
  <1>3. Linked'
    BY DEF Inv, Call, Begins, Resolve, Linked, Closed, walkVars
  <1>4. Checked'
    BY DEF Inv, Call, Resolve, ModuleTypes, Checked, Calling, moduleVars
  <1>5. Untroubled'
    BY DEF Inv, Call, Resolve, Untroubled, Constructing, Rejected
  <1>6. TowardsHost'
    BY DEF Inv, Call, Resolve, TowardsHost
  <1>7. Alone'
    BY DEF Inv, Call, Resolve, Alone
  <1>8. EntrypointDeclared'
    <2>1. \A n \in Names : entries[n] \in Ids \cup {Absent}
      BY DEF Inv, ModuleTypes, Checked, Call, Resolve
    <2>2. chosen' \in Ids /\ \E n \in Declared : entries[n] = chosen'
      BY <2>1 DEF Call, Resolve, Resolves, Known, Declared
    <2> QED  BY <2>2 DEF EntrypointDeclared, Declared, Call, Resolve, moduleVars
  <1>9. HostErrorSurfaces'
    BY DEF Inv, Call, Resolve, HostErrorSurfaces
  <1>10. OutcomeExact'
    BY DEF Inv, Call, Resolve, OutcomeExact
  <1> QED  BY <1>1, <1>2, <1>3, <1>4, <1>5, <1>6, <1>7, <1>8, <1>9, <1>10 DEF Inv

\* _resolve_entrypoint() raises.
LEMMA CallRefusedStep ==
    ASSUME Inv, NEW q \in Requests, CallRefused(q)
    PROVE  Inv'
  <1>0. /\ Types' /\ Linked'
        /\ raised' \in DOMAIN exns' /\ exns'[raised'].type = "OpaEntrypointError"
    <2>1. /\ "OpaEntrypointError" \in ErrorTypes /\ RaiseNew("OpaEntrypointError") /\ UNCHANGED <<handlers, walkVars, host>>
          /\ \/ at \notin {"ready", "raised"} /\ mark' = mark
             \/ at = "ready" /\ mark' = Len(exns)
      BY DEF CallRefused, Begins, ErrorTypes, OpaWasmErrors
    <2> QED  BY <2>1, RaiseNewKeeps DEF Inv
  <1>1. Types'
    BY <1>0
  <1>2. ModuleTypes'
    BY DEF Inv, CallRefused, ModuleTypes, moduleVars
  <1>3. Linked'
    BY <1>0
  <1>4. Checked'
    BY DEF Inv, CallRefused, RaiseNew, LeavesWith, ModuleTypes, Checked, Calling, moduleVars
  <1>5. Untroubled'
    BY DEF Inv, CallRefused, RaiseNew, LeavesWith, Untroubled, Constructing, Rejected
  <1>6. TowardsHost'
    BY DEF Inv, CallRefused, RaiseNew, LeavesWith, TowardsHost
  <1>7. Alone'
    BY DEF Inv, CallRefused, RaiseNew, LeavesWith, Alone
  <1>8. EntrypointDeclared'
    BY DEF Inv, CallRefused, RaiseNew, LeavesWith, EntrypointDeclared
  <1>9. HostErrorSurfaces'
    BY DEF Inv, CallRefused, HostErrorSurfaces, Untroubled
  <1>10. OutcomeExact'
    BY <1>0, FailureNames DEF CallRefused, RaiseNew, LeavesWith, OutcomeExact
  <1> QED  BY <1>1, <1>2, <1>3, <1>4, <1>5, <1>6, <1>7, <1>8, <1>9, <1>10 DEF Inv

\* borrow() raises.
LEMMA BorrowFailsStep ==
    ASSUME Inv, NEW type \in BorrowErrors, BorrowFails(type)
    PROVE  Inv'
  <1>0. /\ Types' /\ Linked'
        /\ raised' \in DOMAIN exns' /\ exns'[raised'].type = type
    <2>1. /\ type \in ErrorTypes /\ RaiseNew(type) /\ UNCHANGED <<handlers, walkVars, host>>
          /\ \/ at \notin {"ready", "raised"} /\ mark' = mark
             \/ at = "ready" /\ mark' = Len(exns)
      BY DEF BorrowFails, Inside, ErrorTypes, OpaWasmErrors
    <2> QED  BY <2>1, RaiseNewKeeps DEF Inv
  <1>1. Types'
    BY <1>0
  <1>2. ModuleTypes'
    BY DEF Inv, BorrowFails, Inside, ModuleTypes, moduleVars
  <1>3. Linked'
    BY <1>0
  <1>4. Checked'
    BY DEF Inv, BorrowFails, Inside, RaiseNew, LeavesWith, ModuleTypes, Checked,
       Calling, moduleVars
  <1>5. Untroubled'
    BY DEF Inv, BorrowFails, RaiseNew, LeavesWith, Untroubled, Constructing, Rejected
  <1>6. TowardsHost'
    BY DEF Inv, BorrowFails, RaiseNew, LeavesWith, TowardsHost
  <1>7. Alone'
    BY DEF Inv, BorrowFails, RaiseNew, LeavesWith, Alone
  <1>8. EntrypointDeclared'
    BY DEF Inv, BorrowFails, RaiseNew, LeavesWith, EntrypointDeclared
  <1>9. HostErrorSurfaces'
    BY DEF Inv, BorrowFails, Inside, HostErrorSurfaces, Untroubled
  <1>10. OutcomeExact'
    BY <1>0, FailureNames DEF BorrowFails, RaiseNew, LeavesWith, OutcomeExact
  <1> QED  BY <1>1, <1>2, <1>3, <1>4, <1>5, <1>6, <1>7, <1>8, <1>9, <1>10 DEF Inv

\* borrow() raises what nothing wraps.
LEMMA BorrowBreaksStep ==
    ASSUME Inv, BorrowBreaks
    PROVE  Inv'
  <1> DEFINE x == Exn("other", FALSE, 0, Handled)
  <1>a. Handled \in Nat /\ Handled <= Len(exns) /\ Len(exns) \in Nat /\ NewId = Len(exns) + 1
    BY HandledBound DEF Inv, NewId
  <1>b. /\ x \in ExnType /\ x.cause <= Len(exns) + 1 /\ x.context <= Len(exns) + 1
        /\ x.type = "other"
    BY <1>a DEF Exn, ExnType, ErrorTypes
  <1>c. /\ exns' = Append(exns, x) /\ raised' = Len(exns) + 1 /\ at' = "raised"
        /\ at = "enter" /\ mark' = mark /\ UNCHANGED <<handlers, walkVars, host>>
    BY <1>a DEF BorrowBreaks, Inside, LeavesWith
  <1> HIDE DEF x
  <1>d. Grows /\ Len(exns') = Len(exns) + 1 /\ exns'[Len(exns) + 1] = x
    BY <1>b, <1>c, OneMore DEF Inv
  <1>e. /\ exc' \in 0..Len(exns') /\ cur' \in 0..Len(exns')
        /\ raised' \in 0..Len(exns') /\ raised' # 0 /\ host' \in Nat
        /\ handlers' = handlers
    BY <1>a, <1>c, <1>d DEF Inv, Types, Linked, walkVars
  <1>0. Types' /\ Linked'
    BY <1>c, <1>d, <1>e, GrowsKeeps DEF Inv
  <1>1. Types'
    BY <1>0
  <1>2. ModuleTypes'
    BY DEF Inv, BorrowBreaks, Inside, ModuleTypes, moduleVars
  <1>3. Linked'
    BY <1>0
  <1>4. Checked'
    BY DEF Inv, BorrowBreaks, Inside, LeavesWith, ModuleTypes, Checked, Calling,
       moduleVars
  <1>5. Untroubled'
    BY DEF Inv, BorrowBreaks, LeavesWith, Untroubled, Constructing, Rejected
  <1>6. TowardsHost'
    BY DEF Inv, BorrowBreaks, LeavesWith, TowardsHost
  <1>7. Alone'
    BY DEF Inv, BorrowBreaks, LeavesWith, Alone
  <1>8. EntrypointDeclared'
    BY DEF Inv, BorrowBreaks, LeavesWith, EntrypointDeclared
  <1>9. HostErrorSurfaces'
    BY DEF Inv, BorrowBreaks, Inside, HostErrorSurfaces, Untroubled
  <1>10. OutcomeExact'
    BY <1>b, <1>c, <1>d, FailureNames DEF OutcomeExact, BorrowBreaks
  <1> QED  BY <1>1, <1>2, <1>3, <1>4, <1>5, <1>6, <1>7, <1>8, <1>9, <1>10 DEF Inv

\* encode_input() or the codec raises.
LEMMA CodecFailsStep ==
    ASSUME Inv, NEW type \in CodecErrors, CodecFails(type)
    PROVE  Inv'
  <1>0. /\ Types' /\ Linked'
        /\ raised' \in DOMAIN exns' /\ exns'[raised'].type = type
    <2>1. /\ type \in ErrorTypes /\ RaiseNew(type) /\ UNCHANGED <<handlers, walkVars, host>>
          /\ \/ at \notin {"ready", "raised"} /\ mark' = mark
             \/ at = "ready" /\ mark' = Len(exns)
      BY FailureNames DEF CodecFails, Inside, ErrorTypes
    <2> QED  BY <2>1, RaiseNewKeeps DEF Inv
  <1>1. Types'
    BY <1>0
  <1>2. ModuleTypes'
    BY DEF Inv, CodecFails, Inside, ModuleTypes, moduleVars
  <1>3. Linked'
    BY <1>0
  <1>4. Checked'
    BY DEF Inv, CodecFails, Inside, RaiseNew, LeavesWith, ModuleTypes, Checked, Calling,
       moduleVars
  <1>5. Untroubled'
    BY DEF Inv, CodecFails, RaiseNew, LeavesWith, Untroubled, Constructing, Rejected
  <1>6. TowardsHost'
    BY DEF Inv, CodecFails, RaiseNew, LeavesWith, TowardsHost
  <1>7. Alone'
    BY DEF Inv, CodecFails, RaiseNew, LeavesWith, Alone
  <1>8. EntrypointDeclared'
    BY DEF Inv, CodecFails, RaiseNew, LeavesWith, EntrypointDeclared
  <1>9. HostErrorSurfaces'
    BY DEF Inv, CodecFails, Inside, HostErrorSurfaces, Untroubled
  <1>10. OutcomeExact'
    BY <1>0, FailureNames DEF CodecFails, RaiseNew, LeavesWith, OutcomeExact
  <1> QED  BY <1>1, <1>2, <1>3, <1>4, <1>5, <1>6, <1>7, <1>8, <1>9, <1>10 DEF Inv

\* The call fails before the guest is entered and the reset of the heap traps.
LEMMA FailsTwiceStep ==
    ASSUME Inv, NEW type \in CodecErrors \cup {"other"}, FailsTwice(type)
    PROVE  Inv'
  <1> DEFINE x == Exn(type, FALSE, 0, Handled)
             y == Exn("other", TRUE, 0, NewId)
  <1>a. Handled \in Nat /\ Handled <= Len(exns) /\ Len(exns) \in Nat /\ NewId = Len(exns) + 1
    BY HandledBound DEF Inv, NewId
  <1>f. type \in ErrorTypes /\ "other" \in ErrorTypes
    BY FailureNames DEF ErrorTypes
  <1>b. /\ x \in ExnType /\ x.cause <= Len(exns) + 1 /\ x.context <= Len(exns) + 1
        /\ y \in ExnType /\ y.cause <= Len(exns) + 1 /\ y.context <= Len(exns) + 1
        /\ y.type = "other"
    BY <1>a, <1>f DEF Exn, ExnType
  <1>c. /\ exns' = exns \o <<x, y>> /\ raised' = Len(exns) + 2 /\ at' = "raised"
        /\ at = "enter" /\ mark' = mark /\ UNCHANGED <<handlers, walkVars, host>>
    BY <1>a DEF FailsTwice, Inside, LeavesWith
  <1> HIDE DEF x, y
  <1>d. Grows /\ Len(exns') = Len(exns) + 2 /\ exns'[Len(exns) + 2] = y
    BY <1>b, <1>c, TwoMore DEF Inv
  <1>e. /\ exc' \in 0..Len(exns') /\ cur' \in 0..Len(exns')
        /\ raised' \in 0..Len(exns') /\ raised' # 0 /\ host' \in Nat
        /\ handlers' = handlers
    BY <1>a, <1>c, <1>d DEF Inv, Types, Linked, walkVars
  <1>0. Types' /\ Linked'
    BY <1>c, <1>d, <1>e, GrowsKeeps DEF Inv
  <1>1. Types'
    BY <1>0
  <1>2. ModuleTypes'
    BY DEF Inv, FailsTwice, Inside, ModuleTypes, moduleVars
  <1>3. Linked'
    BY <1>0
  <1>4. Checked'
    BY DEF Inv, FailsTwice, Inside, LeavesWith, ModuleTypes, Checked, Calling,
       moduleVars
  <1>5. Untroubled'
    BY DEF Inv, FailsTwice, LeavesWith, Untroubled, Constructing, Rejected
  <1>6. TowardsHost'
    BY DEF Inv, FailsTwice, LeavesWith, TowardsHost
  <1>7. Alone'
    BY DEF Inv, FailsTwice, LeavesWith, Alone
  <1>8. EntrypointDeclared'
    BY DEF Inv, FailsTwice, LeavesWith, EntrypointDeclared
  <1>9. HostErrorSurfaces'
    BY DEF Inv, FailsTwice, Inside, HostErrorSurfaces, Untroubled
  <1>10. OutcomeExact'
    BY <1>b, <1>c, <1>d, FailureNames DEF OutcomeExact, FailsTwice
  <1> QED  BY <1>1, <1>2, <1>3, <1>4, <1>5, <1>6, <1>7, <1>8, <1>9, <1>10 DEF Inv

\* _simplify_result() raises.
LEMMA AnswerRefusedStep ==
    ASSUME Inv, NEW s \in Shapes, AnswerRefused(s)
    PROVE  Inv'
  <1>0. /\ Types' /\ Linked'
        /\ raised' \in DOMAIN exns' /\ exns'[raised'].type = "OpaEvaluationError"
    <2>1. /\ "OpaEvaluationError" \in ErrorTypes /\ RaiseNew("OpaEvaluationError") /\ UNCHANGED <<handlers, walkVars, host>>
          /\ \/ at \notin {"ready", "raised"} /\ mark' = mark
             \/ at = "ready" /\ mark' = Len(exns)
      BY DEF AnswerRefused, ErrorTypes, OpaWasmErrors, PassthroughErrors
    <2> QED  BY <2>1, RaiseNewKeeps DEF Inv
  <1>1. Types'
    BY <1>0
  <1>2. ModuleTypes'
    BY DEF Inv, AnswerRefused, ModuleTypes, moduleVars
  <1>3. Linked'
    BY <1>0
  <1>4. Checked'
    BY DEF Inv, AnswerRefused, RaiseNew, LeavesWith, ModuleTypes, Checked, Calling,
       moduleVars
  <1>5. Untroubled'
    BY DEF Inv, AnswerRefused, RaiseNew, LeavesWith, Untroubled, Constructing, Rejected
  <1>6. TowardsHost'
    BY DEF Inv, AnswerRefused, RaiseNew, LeavesWith, TowardsHost
  <1>7. Alone'
    BY DEF Inv, AnswerRefused, RaiseNew, LeavesWith, Alone
  <1>8. EntrypointDeclared'
    BY DEF Inv, AnswerRefused, RaiseNew, LeavesWith, EntrypointDeclared
  <1>9. HostErrorSurfaces'
    BY DEF Inv, AnswerRefused, HostErrorSurfaces, Untroubled
  <1>10. OutcomeExact'
    BY <1>0, FailureNames DEF AnswerRefused, RaiseNew, LeavesWith, OutcomeExact
  <1> QED  BY <1>1, <1>2, <1>3, <1>4, <1>5, <1>6, <1>7, <1>8, <1>9, <1>10 DEF Inv

\* The guest traps, or Python code fails before it is entered.
LEMMA EvalFailsStep ==
    ASSUME Inv, NEW what \in {"trap", "timeout", "crash"}, EvalFails(what)
    PROVE  Inv'
  <1>a. Handled \in Nat /\ Handled <= Len(exns) /\ Len(exns) \in Nat /\ NewId = Len(exns) + 1
    BY HandledBound DEF Inv, NewId
  <1>b. PICK says \in BOOLEAN :
            (what = "timeout" => says) /\ exns' = Append(exns, Exn("other", says, 0, Handled))
    BY DEF EvalFails
  <1> DEFINE x == Exn("other", says, 0, Handled)
  <1>c. /\ x \in ExnType /\ x.cause <= Len(exns) + 1 /\ x.context <= Len(exns) + 1
        /\ x.type = "other" /\ x.says = says /\ x.cause = 0 /\ x.context = Handled
    <2>1. "other" \in ErrorTypes
      BY DEF ErrorTypes
    <2> QED  BY <1>a, <2>1 DEF Exn, ExnType
  <1>d. /\ exc' = Len(exns) + 1 /\ cur' = Len(exns) + 1 /\ seen' = {} /\ at' = "find"
        /\ at = "enter" /\ failure' = what
        /\ UNCHANGED <<limits, config, moduleVars, callVars, handlers, mark, raised, host>>
    BY <1>a DEF EvalFails, Inside, Catches
  <1>e. exns' = Append(exns, x)
    BY <1>b
  <1> HIDE DEF x
  <1>f. Grows /\ Len(exns') = Len(exns) + 1 /\ exns'[Len(exns) + 1] = x
    BY <1>c, <1>e, OneMore DEF Inv
  <1>g. /\ exc' \in 0..Len(exns') /\ cur' \in 0..Len(exns')
        /\ raised' \in 0..Len(exns') /\ host' \in Nat
        /\ handlers' = handlers
    BY <1>a, <1>d, <1>f DEF Inv, Types, Linked
  <1>0. Types' /\ Linked'
    BY <1>d, <1>f, <1>g, GrowsKeeps DEF Inv
  <1>1. Types'
    BY <1>0
  <1>2. ModuleTypes'
    BY DEF Inv, EvalFails, Inside, ModuleTypes, moduleVars
  <1>3. Linked'
    BY <1>0
  <1>4. Checked'
    BY DEF Inv, EvalFails, Inside, Catches, ModuleTypes, Checked, Calling, moduleVars
  <1>5. Untroubled'
    BY DEF Inv, EvalFails, Catches, Untroubled, Constructing, Rejected
  <1>6. TowardsHost'
    BY DEF Inv, EvalFails, Inside, Untroubled, TowardsHost
  <1>7. Alone'
    <2>1. /\ exc' \in DOMAIN exns' /\ exns'[exc'] = x
      BY <1>0, <1>a, <1>d, <1>f
    <2>2. handlers = <<>> => x.context = 0
      BY <1>c DEF Handled
    <2> QED  BY <2>1, <2>2, <1>b, <1>c, <1>d DEF Alone
  <1>8. EntrypointDeclared'
    BY DEF Inv, EvalFails, Catches, EntrypointDeclared
  <1>9. HostErrorSurfaces'
    BY DEF Inv, EvalFails, Catches, HostErrorSurfaces
  <1>10. OutcomeExact'
    BY DEF Inv, EvalFails, Catches, OutcomeExact
  <1> QED  BY <1>1, <1>2, <1>3, <1>4, <1>5, <1>6, <1>7, <1>8, <1>9, <1>10 DEF Inv

\* A host import raises.
LEMMA HostFailsStep ==
    ASSUME Inv, NEW type \in HostErrors, HostFails(type)
    PROVE  Inv'
  <1> DEFINE h == Exn(type, FALSE, 0, Handled)
             t1 == Exn("other", FALSE, NewId, Handled)
             t2 == Exn("other", FALSE, 0, NewId)
  <1>a. Handled \in Nat /\ Handled <= Len(exns) /\ Len(exns) \in Nat /\ NewId = Len(exns) + 1
    BY HandledBound DEF Inv, NewId
  <1>b. type \in ErrorTypes /\ "other" \in ErrorTypes
    BY DEF ErrorTypes, OpaWasmErrors
  <1>c. /\ h \in ExnType /\ h.cause <= Len(exns) + 1 /\ h.context <= Len(exns) + 1
        /\ h.type = type
        /\ t1 \in ExnType /\ t1.cause <= Len(exns) + 1 /\ t1.context <= Len(exns) + 1
        /\ t1.type = "other" /\ t1.cause = Len(exns) + 1
        /\ t2 \in ExnType /\ t2.cause <= Len(exns) + 1 /\ t2.context <= Len(exns) + 1
        /\ t2.type = "other" /\ t2.cause = 0 /\ t2.context = Len(exns) + 1
    BY <1>a, <1>b DEF Exn, ExnType
  <1>d. /\ cur' = exc' /\ seen' = {} /\ at' = "find" /\ at = "enter"
        /\ failure' = type /\ host' = Len(exns) + 1
        /\ UNCHANGED <<limits, config, moduleVars, callVars, handlers, mark, raised>>
    BY <1>a DEF HostFails, Inside, Catches
  <1>e. \/ exns' = Append(exns, h) /\ exc' = Len(exns) + 1
        \/ exns' = exns \o <<h, t1>> /\ exc' = Len(exns) + 2
        \/ exns' = exns \o <<h, t2>> /\ exc' = Len(exns) + 2
    <2>1. \/ exns' = Append(exns, h) /\ exc' = NewId
          \/ exns' = exns \o <<h, t1>> /\ exc' = NewId + 1
          \/ exns' = exns \o <<h, t2>> /\ exc' = NewId + 1
      BY DEF HostFails, Catches
    <2>2. NewId = Len(exns) + 1 /\ NewId + 1 = Len(exns) + 2
      BY <1>a
    <2> HIDE DEF h, t1, t2
    <2> QED  BY <2>1, <2>2, Zenon
  <1> HIDE DEF h, t1, t2
  <1>f. /\ Grows /\ exc' \in 1..Len(exns') /\ Len(exns') >= Len(exns) + 1
        /\ exns'[Len(exns) + 1] = h
        /\ exc' = host' \/ exns'[exc'] \in {t1, t2}
    <2>1. CASE exns' = Append(exns, h) /\ exc' = Len(exns) + 1
      BY <1>a, <1>c, <1>d, <2>1, OneMore DEF Inv
    <2>2. CASE exns' = exns \o <<h, t1>> /\ exc' = Len(exns) + 2
      <3>1. Grows /\ Len(exns') = Len(exns) + 2 /\ exns'[Len(exns) + 1] = h
            /\ exns'[Len(exns) + 2] = t1
        BY <1>c, <2>2, TwoMore DEF Inv
      <3> QED  BY <1>a, <2>2, <3>1
    <2>3. CASE exns' = exns \o <<h, t2>> /\ exc' = Len(exns) + 2
      <3>1. Grows /\ Len(exns') = Len(exns) + 2 /\ exns'[Len(exns) + 1] = h
            /\ exns'[Len(exns) + 2] = t2
        BY <1>c, <2>3, TwoMore DEF Inv
      <3> QED  BY <1>a, <2>3, <3>1
    <2> QED  BY <1>e, <2>1, <2>2, <2>3
  <1>g. /\ exc' \in 0..Len(exns') /\ cur' \in 0..Len(exns')
        /\ raised' \in 0..Len(exns') /\ host' \in Nat
        /\ handlers' = handlers
    BY <1>a, <1>d, <1>f DEF Inv, Types, Linked
  <1>0. Types' /\ Linked'
    BY <1>d, <1>f, <1>g, GrowsKeeps DEF Inv
  <1>1. Types'
    BY <1>0
  <1>2. ModuleTypes'
    BY DEF Inv, HostFails, Inside, ModuleTypes, moduleVars
  <1>3. Linked'
    BY <1>0
  <1>4. Checked'
    BY DEF Inv, HostFails, Inside, Catches, ModuleTypes, Checked, Calling, moduleVars
  <1>5. Untroubled'
    BY DEF Inv, HostFails, Catches, Untroubled, Constructing, Rejected
  <1>6. TowardsHost'
    <2>1. /\ host' \in DOMAIN exns' /\ exns'[host'].type = failure'
          /\ exc' \in DOMAIN exns'
      BY <1>0, <1>a, <1>c, <1>d, <1>f
    <2>2. exns'[exc'] \in {t1, t2} => exns'[exc'].type = "other" /\ Follow(exc)' = host'
      BY <1>a, <1>c, <1>d DEF Follow
    <2> QED  BY <2>1, <2>2, <1>d, <1>f DEF TowardsHost
  <1>7. Alone'
    BY <1>a, <1>d DEF Alone
  <1>8. EntrypointDeclared'
    BY DEF Inv, HostFails, Catches, EntrypointDeclared
  <1>9. HostErrorSurfaces'
    BY DEF Inv, HostFails, Catches, HostErrorSurfaces
  <1>10. OutcomeExact'
    BY DEF Inv, HostFails, Catches, OutcomeExact
  <1> QED  BY <1>1, <1>2, <1>3, <1>4, <1>5, <1>6, <1>7, <1>8, <1>9, <1>10 DEF Inv

\* evaluate_raw() returns.
LEMMA EvalReturnsStep ==
    ASSUME Inv, EvalReturns
    PROVE  Inv'
  <1>1. Types'
    BY DEF Inv, EvalReturns, Types, errorVars, walkVars
  <1>2. ModuleTypes'
    BY DEF Inv, EvalReturns, ModuleTypes, moduleVars
  <1>3. Linked'
    BY DEF Inv, EvalReturns, Linked, Closed, errorVars, walkVars
  <1>4. Checked'
    BY DEF Inv, EvalReturns, ModuleTypes, Checked, Calling, moduleVars
  <1>5. Untroubled'
    BY DEF Inv, EvalReturns, Untroubled, Constructing, Rejected, errorVars
  <1>6. TowardsHost'
    BY DEF Inv, EvalReturns, TowardsHost
  <1>7. Alone'
    BY DEF Inv, EvalReturns, Alone
  <1>8. EntrypointDeclared'
    BY DEF Inv, EvalReturns, EntrypointDeclared, Declared, moduleVars, callVars
  <1>9. HostErrorSurfaces'
    BY DEF Inv, EvalReturns, HostErrorSurfaces
  <1>10. OutcomeExact'
    BY DEF Inv, EvalReturns, OutcomeExact
  <1> QED  BY <1>1, <1>2, <1>3, <1>4, <1>5, <1>6, <1>7, <1>8, <1>9, <1>10 DEF Inv

\* _simplify_result() returns.
LEMMA AnswerStep ==
    ASSUME Inv, NEW s \in Shapes, Answer(s)
    PROVE  Inv'
  <1>1. Types'
    BY DEF Inv, Answer, Types, errorVars, walkVars
  <1>2. ModuleTypes'
    BY DEF Inv, Answer, Simplify, ModuleTypes, moduleVars
  <1>3. Linked'
    BY DEF Inv, Answer, Simplify, Linked, Closed, errorVars, walkVars
  <1>4. Checked'
    BY DEF Inv, Answer, Simplify, ModuleTypes, Checked, Calling, moduleVars
  <1>5. Untroubled'
    BY DEF Inv, Answer, Simplify, Untroubled, Constructing, Rejected, errorVars
  <1>6. TowardsHost'
    BY DEF Inv, Answer, Simplify, TowardsHost
  <1>7. Alone'
    BY DEF Inv, Answer, Simplify, Alone
  <1>8. EntrypointDeclared'
    BY DEF Inv, Answer, Simplify, EntrypointDeclared, Declared, moduleVars
  <1>9. HostErrorSurfaces'
    BY DEF Inv, Answer, Simplify, HostErrorSurfaces
  <1>10. OutcomeExact'
    BY DEF Inv, Answer, Simplify, Refuses, Shapes, OutcomeExact
  <1> QED  BY <1>1, <1>2, <1>3, <1>4, <1>5, <1>6, <1>7, <1>8, <1>9, <1>10 DEF Inv

\* A step of _find_typed_in_chain().
LEMMA FindNextStep ==
    ASSUME Inv, FindNext
    PROVE  Inv'
  <1>0. cur # 0 /\ Follow(cur) \in 0..Len(exns) /\ Len(exns) \in Nat
    BY FollowBound DEF Inv, FindNext, Stops
  <1>1. Types'
    BY <1>0 DEF Inv, Types, FindNext, WalkOn, Walking
  <1>2. ModuleTypes'
    BY DEF Inv, FindNext, Walking, ModuleTypes, moduleVars
  <1>3. Linked'
    BY <1>0 DEF Inv, Linked, Closed, FindNext, WalkOn, Walking
  <1>4. Checked'
    BY DEF Inv, FindNext, Walking, ModuleTypes, Checked, moduleVars
  <1>5. Untroubled'
    BY DEF Inv, FindNext, Stops, Untroubled
  <1>6. TowardsHost'
    <2> SUFFICES ASSUME host # 0
                 PROVE  TowardsHost'
      BY DEF TowardsHost, FindNext, Walking
    <2>1. cur # host
      BY DEF Inv, TowardsHost, FindNext, IsTyped, OpaWasmErrors
    <2>2. /\ cur = exc /\ seen = {} /\ exns[exc].type = "other" /\ Follow(exc) = host
          /\ host \in DOMAIN exns /\ failure \in HostErrors /\ exns[host].type = failure
      BY <2>1 DEF Inv, TowardsHost, FindNext
    <2>3. cur' = host /\ seen' = {exc}
      BY <2>2 DEF FindNext, WalkOn
    <2>4. UNCHANGED <<exns, host, failure>>
      BY DEF FindNext, Walking
    <2>5. host \notin seen'
      BY <2>1, <2>2, <2>3
    <2> QED  BY <2>2, <2>3, <2>4, <2>5 DEF TowardsHost
  <1>7. Alone'
    BY DEF Inv, FindNext, WalkOn, Walking, Follow, Stops, Alone
  <1>8. EntrypointDeclared'
    BY DEF Inv, FindNext, EntrypointDeclared
  <1>9. HostErrorSurfaces'
    BY DEF Inv, FindNext, HostErrorSurfaces
  <1>10. OutcomeExact'
    BY DEF Inv, FindNext, OutcomeExact
  <1> QED  BY <1>1, <1>2, <1>3, <1>4, <1>5, <1>6, <1>7, <1>8, <1>9, <1>10 DEF Inv

\* _find_typed_in_chain() finds nothing.
LEMMA FindNoneStep ==
    ASSUME Inv, FindNone
    PROVE  Inv'
  <1>1. Types'
    BY DEF Inv, FindNone, Walking, Types
  <1>2. ModuleTypes'
    BY DEF Inv, FindNone, Walking, ModuleTypes, moduleVars
  <1>3. Linked'
    BY DEF Inv, FindNone, Walking, Linked, Closed
  <1>4. Checked'
    BY DEF Inv, FindNone, Walking, ModuleTypes, Checked, Calling, moduleVars
  <1>5. Untroubled'
    <2>1. host = 0
      <3> SUFFICES ASSUME host # 0 PROVE FALSE
        OBVIOUS
      <3>1. /\ host \in DOMAIN exns /\ host \notin seen
            /\ cur = host \/ (cur \in DOMAIN exns /\ seen = {})
        BY DEF Inv, TowardsHost, FindNone
      <3>2. cur # 0
        BY <3>1 DEF Inv, Types
      <3> QED  BY <3>1, <3>2 DEF FindNone, Stops
    <2> QED  BY <2>1 DEF Untroubled, FindNone, Walking, Constructing, Rejected
  <1>6. TowardsHost'
    BY DEF Inv, FindNone, TowardsHost
  <1>7. Alone'
    BY DEF Inv, FindNone, Walking, Alone
  <1>8. EntrypointDeclared'
    BY DEF Inv, FindNone, EntrypointDeclared
  <1>9. HostErrorSurfaces'
    BY DEF Inv, FindNone, HostErrorSurfaces
  <1>10. OutcomeExact'
    BY DEF Inv, FindNone, OutcomeExact
  <1> QED  BY <1>1, <1>2, <1>3, <1>4, <1>5, <1>6, <1>7, <1>8, <1>9, <1>10 DEF Inv

\* _find_typed_in_chain() finds an error, which is raised again.
LEMMA FindTypedStep ==
    ASSUME Inv, FindTyped
    PROVE  Inv'
  <1>a. cur \in 1..Len(exns) /\ Len(exns) \in Nat
    BY DEF Inv, Types, Linked, FindTyped, Stops
  <1>b. /\ exns' \in Seq(ExnType) /\ Len(exns') = Len(exns) /\ Closed(Len(exns))'
        /\ \A i \in 1..Len(exns) :
               /\ exns'[i].type = exns[i].type /\ exns'[i].says = exns[i].says
               /\ i # cur => /\ exns'[i].cause = exns[i].cause
                             /\ exns'[i].context \in {0, exns[i].context}
    BY <1>a, ReraiseKeeps DEF Inv, FindTyped
  <1>c. /\ at = "find" /\ at' = "raised" /\ raised' = cur
        /\ UNCHANGED <<limits, config, moduleVars, callVars, handlers, mark, failure, host, walkVars>>
    BY DEF FindTyped, LeavesWith, Walking
  <1>d. host # 0 => cur = host
    BY DEF Inv, TowardsHost, FindTyped, IsTyped, OpaWasmErrors, PassthroughErrors,
       HostErrors, BorrowErrors
  <1>e. handlers = <<>> => host # 0
    <2> SUFFICES ASSUME handlers = <<>>, host = 0 PROVE FALSE
      OBVIOUS
    <2>1. exns[cur].type = "other"
      BY <1>a, <1>c DEF Inv, Alone
    <2> QED  BY <2>1 DEF FindTyped, IsTyped, OpaWasmErrors, PassthroughErrors,
                HostErrors, BorrowErrors
  <1>1. Types'
    BY <1>a, <1>b, <1>c DEF Inv, Types, walkVars
  <1>2. ModuleTypes'
    BY DEF Inv, FindTyped, Walking, ModuleTypes, moduleVars
  <1>3. Linked'
    <2>1. raised' <= mark' \/ Closed(mark)'
      <3> SUFFICES ASSUME mark < cur, NEW i \in 1..mark
                   PROVE  exns'[i].cause <= mark /\ exns'[i].context <= mark
        BY <1>a, <1>c DEF Inv, Types, Closed
      <3>1. i \in 1..Len(exns) /\ i # cur
        BY <1>a DEF Inv, Types
      <3>2. exns[i].cause <= mark /\ exns[i].context <= mark
        BY <1>c DEF Inv, Linked, Closed
      <3> QED  BY <1>b, <3>1, <3>2 DEF Inv, Types
    <2> QED  BY <1>a, <1>b, <1>c, <2>1 DEF Inv, Linked, walkVars
  <1>4. Checked'
    BY DEF Inv, FindTyped, Walking, LeavesWith, ModuleTypes, Checked, Calling, moduleVars
  <1>5. Untroubled'
    BY DEF Inv, FindTyped, LeavesWith, Untroubled, Constructing, Rejected
  <1>6. TowardsHost'
    BY DEF Inv, FindTyped, LeavesWith, TowardsHost
  <1>7. Alone'
    BY DEF Inv, FindTyped, LeavesWith, Alone
  <1>8. EntrypointDeclared'
    BY DEF Inv, FindTyped, LeavesWith, EntrypointDeclared
  <1>9. HostErrorSurfaces'
    BY <1>c, <1>d DEF HostErrorSurfaces
  <1>10. OutcomeExact'
    <2>1. ASSUME handlers = <<>>
          PROVE  exns'[raised'].type = failure' /\ failure' \in HostErrors
      <3>1. cur = host
        BY <1>d, <1>e, <2>1
      <3>2. exns[cur].type = failure /\ failure \in HostErrors
        BY <1>c, <1>e, <2>1, <3>1 DEF Inv, TowardsHost
      <3> QED  BY <1>a, <1>b, <1>c, <3>2
    <2> QED  BY <1>c, <2>1, FailureNames DEF OutcomeExact
  <1> QED  BY <1>1, <1>2, <1>3, <1>4, <1>5, <1>6, <1>7, <1>8, <1>9, <1>10 DEF Inv

\* A step of _is_epoch_interrupt().
LEMMA EpochNextStep ==
    ASSUME Inv, EpochNext
    PROVE  Inv'
  <1>0. cur # 0 /\ Follow(cur) \in 0..Len(exns) /\ Len(exns) \in Nat
    BY FollowBound DEF Inv, EpochNext, Stops
  <1>1. Types'
    BY <1>0 DEF Inv, Types, EpochNext, WalkOn, Walking
  <1>2. ModuleTypes'
    BY DEF Inv, EpochNext, Walking, ModuleTypes, moduleVars
  <1>3. Linked'
    BY <1>0 DEF Inv, Linked, Closed, EpochNext, WalkOn, Walking
  <1>4. Checked'
    BY DEF Inv, EpochNext, Walking, ModuleTypes, Checked, moduleVars
  <1>5. Untroubled'
    BY DEF Inv, EpochNext, Walking, Stops, Untroubled
  <1>6. TowardsHost'
    BY DEF Inv, EpochNext, TowardsHost
  <1>7. Alone'
    BY DEF Inv, EpochNext, WalkOn, Walking, Follow, Stops, Mentions, Alone
  <1>8. EntrypointDeclared'
    BY DEF Inv, EpochNext, EntrypointDeclared
  <1>9. HostErrorSurfaces'
    BY DEF Inv, EpochNext, HostErrorSurfaces
  <1>10. OutcomeExact'
    BY DEF Inv, EpochNext, OutcomeExact
  <1> QED  BY <1>1, <1>2, <1>3, <1>4, <1>5, <1>6, <1>7, <1>8, <1>9, <1>10 DEF Inv

\* _is_epoch_interrupt() ends.
LEMMA EpochEndsStep ==
    ASSUME Inv, EpochEnds
    PROVE  Inv'
  <1> DEFINE limit == ~Stops /\ failure # "crash"
             x == Exn("OpaEvaluationError", limit, exc, exc)
  <1>a. Len(exns) \in Nat /\ NewId = Len(exns) + 1 /\ exc \in 0..Len(exns)
    BY DEF Inv, Types, Linked, NewId
  <1>b. limit \in BOOLEAN /\ "OpaEvaluationError" \in ErrorTypes
    BY DEF ErrorTypes, OpaWasmErrors, PassthroughErrors
  <1>c. /\ exns' = Append(exns, x) /\ raised' = Len(exns) + 1 /\ at' = "raised"
        /\ at = "epoch"
        /\ UNCHANGED <<limits, config, moduleVars, callVars, handlers, mark, failure, host, walkVars>>
    BY <1>a DEF EpochEnds, LeavesWith, Walking
  <1>d. /\ x \in ExnType /\ x.cause <= Len(exns) + 1 /\ x.context <= Len(exns) + 1
        /\ x.type = "OpaEvaluationError" /\ x.says = limit
    <2> HIDE DEF limit
    <2> QED  BY <1>a, <1>b DEF Exn, ExnType
  <1> HIDE DEF x
  <1>f. Grows /\ Len(exns') = Len(exns) + 1 /\ exns'[Len(exns) + 1] = x
    BY <1>c, <1>d, OneMore DEF Inv
  <1>g. /\ exc' \in 0..Len(exns') /\ cur' \in 0..Len(exns')
        /\ raised' \in 0..Len(exns') /\ raised' # 0 /\ host' \in Nat
        /\ handlers' = handlers
    BY <1>a, <1>c, <1>f DEF Inv, Types, Linked, walkVars
  <1>0. Types' /\ Linked'
    BY <1>c, <1>f, <1>g, GrowsKeeps DEF Inv
  <1>h. ASSUME handlers = <<>>
        PROVE  /\ failure \in {"trap", "timeout", "crash"}
               /\ failure = "timeout" => ~Stops
    BY <1>c, <1>h DEF Inv, Untroubled, Alone, Stops
  <1>1. Types'
    BY <1>0
  <1>2. ModuleTypes'
    BY DEF Inv, EpochEnds, Walking, ModuleTypes, moduleVars
  <1>3. Linked'
    BY <1>0
  <1>4. Checked'
    BY DEF Inv, EpochEnds, Walking, LeavesWith, ModuleTypes, Checked, Calling, moduleVars
  <1>5. Untroubled'
    BY DEF Inv, EpochEnds, LeavesWith, Untroubled, Constructing, Rejected
  <1>6. TowardsHost'
    BY DEF Inv, EpochEnds, LeavesWith, TowardsHost
  <1>7. Alone'
    BY DEF Inv, EpochEnds, LeavesWith, Alone
  <1>8. EntrypointDeclared'
    BY DEF Inv, EpochEnds, LeavesWith, EntrypointDeclared
  <1>9. HostErrorSurfaces'
    BY DEF Inv, EpochEnds, Walking, HostErrorSurfaces, Untroubled
  <1>10. OutcomeExact'
    <2>1. raised' = Len(exns) + 1 /\ exns'[raised'] = x
      BY <1>c, <1>f
    <2> QED  BY <2>1, <1>c, <1>d, <1>h, FailureNames DEF OutcomeExact
  <1> QED  BY <1>1, <1>2, <1>3, <1>4, <1>5, <1>6, <1>7, <1>8, <1>9, <1>10 DEF Inv

\* The application drops the error.
LEMMA GoesOnStep ==
    ASSUME Inv, GoesOn
    PROVE  Inv'
  <1>1. Types'
    BY DEF Inv, GoesOn, Forgets, Types
  <1>2. ModuleTypes'
    BY DEF Inv, GoesOn, Forgets, ModuleTypes, moduleVars
  <1>3. Linked'
    <2>1. CASE handlers = <<>>
      BY <2>1 DEF GoesOn, Forgets, Linked, Closed
    <2>2. CASE handlers # <<>> /\ raised <= mark
      BY <2>2 DEF Inv, GoesOn, Forgets, Types, Linked, Closed
    <2>3. CASE handlers # <<>> /\ ~(raised <= mark)
      BY <2>3 DEF Inv, GoesOn, Forgets, Types, Linked, Closed
    <2> QED  BY <2>1, <2>2, <2>3
  <1>4. Checked'
    BY DEF Inv, GoesOn, Forgets, ModuleTypes, Checked, Calling, moduleVars
  <1>5. Untroubled'
    BY DEF Inv, GoesOn, Forgets, Untroubled
  <1>6. TowardsHost'
    BY DEF Inv, GoesOn, TowardsHost
  <1>7. Alone'
    BY DEF Inv, GoesOn, Alone
  <1>8. EntrypointDeclared'
    BY DEF Inv, GoesOn, EntrypointDeclared
  <1>9. HostErrorSurfaces'
    BY DEF Inv, GoesOn, HostErrorSurfaces
  <1>10. OutcomeExact'
    BY DEF Inv, GoesOn, OutcomeExact
  <1> QED  BY <1>1, <1>2, <1>3, <1>4, <1>5, <1>6, <1>7, <1>8, <1>9, <1>10 DEF Inv

\* The application handles the error.
LEMMA HandlesStep ==
    ASSUME Inv, Handles
    PROVE  Inv'
  <1>a. PICK n \in 0..Len(handlers) :
          handlers' = <<raised>> \o SubSeq(handlers, n + 1, Len(handlers))
    BY DEF Handles
  <1>b. /\ handlers' \in Seq(Nat)
        /\ \A k \in 1..Len(handlers') : 1 <= handlers'[k] /\ handlers'[k] <= Len(exns)
    <2> DEFINE rest == SubSeq(handlers, n + 1, Len(handlers))
    <2>1. /\ rest \in Seq(Nat) /\ Len(rest) = Len(handlers) - n
          /\ \A k \in 1..Len(rest) : rest[k] = handlers[n + k]
      BY DEF Inv, Types
    <2>2. \A k \in 1..Len(handlers) : 1 <= handlers[k] /\ handlers[k] <= Len(exns)
      BY SMTT(20) DEF Inv, Types, Linked, Handles
    <2>3. \A k \in 1..Len(rest) : 1 <= rest[k] /\ rest[k] <= Len(exns)
      BY <2>1, <2>2 DEF Inv
    <2>4. raised \in Nat /\ 1 <= raised /\ raised <= Len(exns)
      BY DEF Inv, Types, Linked, Handles
    <2> HIDE DEF rest
    <2>5. <<raised>> \in Seq(Nat) /\ Len(<<raised>>) = 1 /\ <<raised>>[1] = raised
      BY <2>4
    <2>6. handlers' = <<raised>> \o rest
      BY <1>a DEF rest
    <2>7. /\ handlers' \in Seq(Nat) /\ Len(handlers') = 1 + Len(rest)
          /\ handlers'[1] = raised /\ \A k \in 2..Len(handlers') : handlers'[k] = rest[k - 1]
      BY <2>1, <2>5, <2>6
    <2> SUFFICES ASSUME NEW k \in 1..Len(handlers')
                 PROVE  1 <= handlers'[k] /\ handlers'[k] <= Len(exns)
      BY <2>7
    <2>8. CASE k = 1
      BY <2>4, <2>7, <2>8
    <2>9. CASE k # 1
      <3>1. Len(rest) \in Nat
        BY <2>1
      <3>2. k - 1 \in 1..Len(rest) /\ handlers'[k] = rest[k - 1]
        BY <2>7, <2>9, <3>1
      <3> QED  BY <2>3, <3>2
    <2> QED  BY <2>8, <2>9
  <1>1. Types'
    BY <1>b, SMTT(20) DEF Inv, Types, Handles, Forgets
  <1>2. ModuleTypes'
    BY DEF Inv, Handles, Forgets, ModuleTypes, moduleVars
  <1>3. Linked'
    <2>1. /\ exns' = exns /\ mark' = 0 /\ exc' = 0 /\ cur' = 0 /\ raised' = 0 /\ at' = "ready"
      BY DEF Handles, Forgets
    <2>2. Closed(Len(exns))' /\ Closed(mark)' /\ Len(exns) \in Nat
      BY <2>1 DEF Inv, Linked, Closed
    <2> QED  BY <1>b, <2>1, <2>2 DEF Linked
  <1>4. Checked'
    BY DEF Inv, Handles, Forgets, ModuleTypes, Checked, Calling, moduleVars
  <1>5. Untroubled'
    BY DEF Inv, Handles, Forgets, Untroubled
  <1>6. TowardsHost'
    BY DEF Inv, Handles, TowardsHost
  <1>7. Alone'
    BY DEF Inv, Handles, Alone
  <1>8. EntrypointDeclared'
    BY DEF Inv, Handles, EntrypointDeclared
  <1>9. HostErrorSurfaces'
    BY DEF Inv, Handles, HostErrorSurfaces
  <1>10. OutcomeExact'
    BY DEF Inv, Handles, OutcomeExact
  <1> QED  BY <1>1, <1>2, <1>3, <1>4, <1>5, <1>6, <1>7, <1>8, <1>9, <1>10 DEF Inv

\* The application handles an error of its own.
LEMMA FailsItselfStep ==
    ASSUME Inv, NEW says \in BOOLEAN, NEW circular \in BOOLEAN, FailsItself(says, circular)
    PROVE  Inv'
  <1> DEFINE x == Exn("other", says, IF circular THEN NewId ELSE 0, Handled)
  <1>a. Handled \in Nat /\ Handled <= Len(exns) /\ Len(exns) \in Nat /\ NewId = Len(exns) + 1
    BY HandledBound DEF Inv, NewId
  <1>b. /\ x \in ExnType /\ x.cause <= Len(exns) + 1 /\ x.context <= Len(exns) + 1
    BY <1>a DEF Exn, ExnType, ErrorTypes
  <1>c. /\ exns' = Append(exns, x) /\ handlers' = <<Len(exns) + 1>> \o handlers
        /\ at = "ready" /\ UNCHANGED <<facadeVars, walkVars, raised, mark, failure, host>>
    BY <1>a DEF FailsItself
  <1> HIDE DEF x
  <1>d. /\ exns' \in Seq(ExnType) /\ Len(exns') = Len(exns) + 1
        /\ \A i \in 1..Len(exns) : exns'[i] = exns[i]
        /\ exns'[Len(exns) + 1] = x
    BY <1>b, <1>c DEF Inv, Types
  <1>e. /\ handlers' \in Seq(Nat) /\ Len(handlers') = 1 + Len(handlers)
        /\ handlers'[1] = Len(exns) + 1
        /\ \A k \in 2..Len(handlers') : handlers'[k] = handlers[k - 1]
    <2> DEFINE n == Len(exns) + 1
    <2>1. <<n>> \in Seq(Nat) /\ Len(<<n>>) = 1 /\ <<n>>[1] = n
      BY <1>a
    <2>2. handlers' = <<n>> \o handlers
      BY <1>c
    <2> HIDE DEF n
    <2>3. handlers \in Seq(Nat)
      BY DEF Inv, Types
    <2>4. /\ handlers' \in Seq(Nat) /\ Len(handlers') = 1 + Len(handlers)
          /\ handlers'[1] = n
          /\ \A k \in 2..Len(handlers') : handlers'[k] = handlers[k - 1]
      BY <2>1, <2>2, <2>3
    <2> QED  BY <2>4 DEF n
  <1>f. Closed(Len(exns))'
    <2> SUFFICES ASSUME NEW i \in 1..Len(exns')
                 PROVE  exns'[i].cause <= Len(exns') /\ exns'[i].context <= Len(exns')
      BY DEF Closed
    <2>1. CASE i = Len(exns) + 1
      BY <1>b, <1>d, <2>1
    <2>2. CASE i \in 1..Len(exns)
      <3>1. /\ exns[i] \in ExnType /\ exns'[i] = exns[i]
            /\ exns[i].cause <= Len(exns) /\ exns[i].context <= Len(exns)
        BY <1>d, <2>2 DEF Inv, Linked, Closed
      <3>2. exns[i].cause \in Nat /\ exns[i].context \in Nat
        BY <3>1 DEF ExnType
      <3> QED  BY <1>a, <1>d, <3>1, <3>2
    <2> QED  BY <1>a, <1>d, <2>1, <2>2
  <1>g. mark = 0
    BY <1>c DEF Inv, Untroubled
  <1>1. Types'
    BY <1>a, <1>c, <1>d, <1>e DEF Inv, Types, walkVars
  <1>2. ModuleTypes'
    BY DEF Inv, FailsItself, ModuleTypes, facadeVars, moduleVars
  <1>3. Linked'
    <2>1. \A k \in 1..Len(handlers') : 1 <= handlers'[k] /\ handlers'[k] <= Len(exns')
      <3>1. \A k \in 1..Len(handlers) : handlers[k] \in Nat /\ 1 <= handlers[k] /\ handlers[k] <= Len(exns)
        BY <1>c DEF Inv, Types, Linked
      <3>2. Len(handlers) \in Nat
        BY DEF Inv
      <3> SUFFICES ASSUME NEW k \in 1..Len(handlers')
                   PROVE  1 <= handlers'[k] /\ handlers'[k] <= Len(exns')
        OBVIOUS
      <3>3. CASE k = 1
        BY <1>a, <1>d, <1>e, <3>3
      <3>4. CASE k # 1
        <4>1. k - 1 \in 1..Len(handlers) /\ handlers'[k] = handlers[k - 1]
          BY <1>e, <3>2, <3>4
        <4> QED  BY <1>a, <1>d, <3>1, <4>1
      <3> QED  BY <3>3, <3>4
    <2>2. Closed(mark)'
      BY <1>c, <1>g DEF Closed
    <2>3. exc <= Len(exns) /\ cur <= Len(exns) /\ raised <= Len(exns)
          /\ exc \in Nat /\ cur \in Nat /\ raised \in Nat
      BY DEF Inv, Types, Linked
    <2> QED  BY <1>a, <1>c, <1>d, <1>f, <2>1, <2>2, <2>3 DEF Linked, walkVars, facadeVars
  <1>4. Checked'
    BY DEF Inv, FailsItself, ModuleTypes, Checked, facadeVars, moduleVars
  <1>5. Untroubled'
    BY DEF Inv, FailsItself, Untroubled, walkVars
  <1>6. TowardsHost'
    BY DEF Inv, FailsItself, TowardsHost, facadeVars
  <1>7. Alone'
    BY DEF Inv, FailsItself, Alone
  <1>8. EntrypointDeclared'
    BY DEF Inv, FailsItself, EntrypointDeclared, facadeVars
  <1>9. HostErrorSurfaces'
    BY DEF Inv, FailsItself, HostErrorSurfaces, facadeVars
  <1>10. OutcomeExact'
    BY DEF Inv, FailsItself, OutcomeExact, facadeVars
  <1> QED  BY <1>1, <1>2, <1>3, <1>4, <1>5, <1>6, <1>7, <1>8, <1>9, <1>10 DEF Inv

\* An except block ends.
LEMMA LeavesHandlerStep ==
    ASSUME Inv, LeavesHandler
    PROVE  Inv'
  <1>a. /\ at = "ready" /\ handlers # <<>> /\ handlers' = Tail(handlers)
        /\ exns' = IF handlers' = <<>> THEN <<>> ELSE exns
        /\ UNCHANGED <<facadeVars, walkVars, raised, mark, failure, host>>
    BY DEF LeavesHandler
  <1>b. /\ handlers' \in Seq(Nat) /\ Len(handlers') = Len(handlers) - 1 /\ Len(handlers) \in Nat
        /\ \A k \in 1..Len(handlers') : handlers'[k] = handlers[k + 1]
    BY <1>a DEF Inv, Types
  <1>c. mark = 0 /\ exc = 0 /\ cur = 0 /\ raised = 0
    BY <1>a DEF Inv, Untroubled
  <1>1. Types'
    BY <1>a, <1>b, <1>c DEF Inv, Types, walkVars
  <1>2. ModuleTypes'
    BY DEF Inv, LeavesHandler, ModuleTypes, facadeVars, moduleVars
  <1>3. Linked'
    <2>1. CASE handlers' = <<>>
      <3>1. exns' = <<>> /\ Len(exns') = 0 /\ Len(handlers') = 0
        BY <1>a, <2>1
      <3>2. at' = "ready" /\ mark' = 0 /\ exc' = 0 /\ cur' = 0 /\ raised' = 0
        BY <1>a, <1>c DEF walkVars, facadeVars
      <3>3. Closed(Len(exns))' /\ Closed(mark)'
        BY <3>1, <3>2 DEF Closed
      <3> QED  BY <3>1, <3>2, <3>3 DEF Linked
    <2>2. CASE handlers' # <<>>
      <3>1. \A k \in 1..Len(handlers') : k + 1 \in 1..Len(handlers)
        BY <1>b
      <3> QED  BY <1>a, <1>b, <2>2, <3>1 DEF Inv, Linked, Closed, walkVars, facadeVars
    <2> QED  BY <2>1, <2>2
  <1>4. Checked'
    BY DEF Inv, LeavesHandler, ModuleTypes, Checked, facadeVars, moduleVars
  <1>5. Untroubled'
    BY DEF Inv, LeavesHandler, Untroubled, walkVars
  <1>6. TowardsHost'
    BY DEF Inv, LeavesHandler, TowardsHost, facadeVars
  <1>7. Alone'
    BY DEF Inv, LeavesHandler, Alone, facadeVars
  <1>8. EntrypointDeclared'
    BY DEF Inv, LeavesHandler, EntrypointDeclared, facadeVars
  <1>9. HostErrorSurfaces'
    BY DEF Inv, LeavesHandler, HostErrorSurfaces, facadeVars
  <1>10. OutcomeExact'
    BY DEF Inv, LeavesHandler, OutcomeExact, facadeVars
  <1> QED  BY <1>1, <1>2, <1>3, <1>4, <1>5, <1>6, <1>7, <1>8, <1>9, <1>10 DEF Inv

\* A step of the construction.
LEMMA BuildStepStep ==
    ASSUME Inv, BuildStep, UNCHANGED errorVars
    PROVE  Inv'
  <1>0. at \in Constructing /\ at' \in Constructing \cup {"ready"} /\ UNCHANGED callVars
    BY DEF BuildStep, PostInit, Compile, Instantiate, CheckVersion, CheckExports,
       CheckEvalPath, CheckSignatures, Decode, Constructing, Rejected
  <1>1. Types'
    BY DEF Inv, Types, errorVars, walkVars
  <1>2. ModuleTypes'
    BY DEF Inv, BuildStep, PostInit, Compile, Instantiate, CheckVersion, CheckExports,
       CheckEvalPath, CheckSignatures, Decode, ModuleTypes, moduleVars
  <1>3. Linked'
    BY <1>0 DEF Inv, Types, Linked, Closed, Untroubled, Constructing, Rejected, errorVars,
       walkVars
  <1>4. Checked'
    BY DEF Inv, BuildStep, PostInit, Compile, Instantiate, CheckVersion, CheckExports,
       CheckEvalPath, CheckSignatures, Decode, Rejected, Has, ModuleTypes, Checked,
       Constructing, Calling, Exports, Kinds, moduleVars
  <1>5. Untroubled'
    BY <1>0 DEF Inv, Untroubled, Constructing, Rejected, errorVars, walkVars
  <1>6. TowardsHost'
    BY <1>0 DEF TowardsHost, Constructing, Rejected
  <1>7. Alone'
    BY <1>0 DEF Alone, Constructing, Rejected
  <1>8. EntrypointDeclared'
    BY <1>0 DEF EntrypointDeclared, Constructing, Rejected
  <1>9. HostErrorSurfaces'
    BY <1>0 DEF HostErrorSurfaces, Constructing, Rejected
  <1>10. OutcomeExact'
    BY <1>0 DEF OutcomeExact, Constructing, Rejected
  <1> QED  BY <1>1, <1>2, <1>3, <1>4, <1>5, <1>6, <1>7, <1>8, <1>9, <1>10 DEF Inv

-----------------------------------------------------------------------------
(* The theorems *)

\* An application that has not started satisfies the inductive invariant.
LEMMA InvInit == InitAll => Inv
  <1> SUFFICES ASSUME InitAll PROVE Inv
    OBVIOUS
  <1> USE DEF InitAll, Init
  <1>1. Types /\ Linked
    <2>1. exns \in Seq(ExnType) /\ handlers \in Seq(Nat) /\ Len(exns) = 0 /\ Len(handlers) = 0
      OBVIOUS
    <2> QED  BY <2>1 DEF Types, Linked, Closed
  <1>2. ModuleTypes
    BY DEF ModuleTypes
  <1>3. Checked /\ Untroubled
    BY DEF Checked, Untroubled, Constructing, Calling
  <1>4. TowardsHost /\ Alone
    BY DEF TowardsHost, Alone
  <1>5. EntrypointDeclared /\ HostErrorSurfaces /\ OutcomeExact
    BY DEF EntrypointDeclared, HostErrorSurfaces, OutcomeExact
  <1> QED  BY <1>1, <1>2, <1>3, <1>4, <1>5 DEF Inv

\* A step of a walk along the chain of exceptions keeps it.
LEMMA WalkStep == ASSUME Inv, Walk PROVE Inv'
  BY FindNextStep, FindNoneStep, FindTypedStep, EpochNextStep, EpochEndsStep DEF Walk

\* So does doing nothing.
LEMMA StutterStep == ASSUME Inv, UNCHANGED vars PROVE Inv'
  <1> USE DEF vars, facadeVars, errorVars, walkVars, moduleVars, callVars
  <1>1. Types' /\ ModuleTypes'
    BY DEF Inv, Types, ModuleTypes
  <1>2. Linked'
    BY DEF Inv, Linked, Closed
  <1>3. Checked' /\ Untroubled'
    BY DEF Inv, Checked, Has, Untroubled
  <1>4. TowardsHost' /\ Alone'
    BY DEF Inv, TowardsHost, Follow, Alone
  <1>5. EntrypointDeclared' /\ HostErrorSurfaces' /\ OutcomeExact'
    BY DEF Inv, EntrypointDeclared, Declared, HostErrorSurfaces, OutcomeExact
  <1> QED  BY <1>1, <1>2, <1>3, <1>4, <1>5 DEF Inv

\* Every step of construction, call and walk keeps it.
LEMMA InvStep == Inv /\ [NextAll]_vars => Inv'
  <1> SUFFICES ASSUME Inv, [NextAll]_vars PROVE Inv'
    OBVIOUS
  <1>1. CASE BuildStep /\ UNCHANGED errorVars
    BY <1>1, BuildStepStep
  <1>2. CASE \E q \in Requests : Call(q) \/ CallRefused(q)
    BY <1>2, CallStep, CallRefusedStep
  <1>3. CASE (\E e \in BorrowErrors : BorrowFails(e)) \/ BorrowBreaks
    BY <1>3, BorrowFailsStep, BorrowBreaksStep
  <1>4. CASE \/ \E e \in CodecErrors : CodecFails(e)
             \/ \E e \in CodecErrors \cup {"other"} : FailsTwice(e)
    BY <1>4, CodecFailsStep, FailsTwiceStep
  <1>5. CASE \E what \in {"trap", "timeout", "crash"} : EvalFails(what)
    BY <1>5, EvalFailsStep
  <1>6. CASE \E e \in HostErrors : HostFails(e)
    BY <1>6, HostFailsStep
  <1>7. CASE EvalReturns
    BY <1>7, EvalReturnsStep
  <1>8. CASE \E s \in Shapes : Answer(s) \/ AnswerRefused(s)
    BY <1>8, AnswerStep, AnswerRefusedStep
  <1>9. CASE Walk
    BY <1>9, WalkStep
  <1>10. CASE GoesOn \/ Handles \/ LeavesHandler
    BY <1>10, GoesOnStep, HandlesStep, LeavesHandlerStep
  <1>11. CASE \E says, circular \in BOOLEAN : FailsItself(says, circular)
    BY <1>11, FailsItselfStep
  <1>12. CASE Finished \/ UNCHANGED vars
    BY <1>12, StutterStep DEF Finished
  <1> QED  BY <1>1, <1>2, <1>3, <1>4, <1>5, <1>6, <1>7, <1>8, <1>9, <1>10, <1>11, <1>12
           DEF NextAll

\* It holds throughout.
LEMMA InvAlways == FairSpecAll => []Inv
  BY InvInit, InvStep, PTL DEF FairSpecAll

\* A policy that has passed OpaAbi.__init__ can be evaluated: all the exports
\* an evaluation calls are there with their signatures.
THEOREM ReadyPolicyIsCallable == FairSpecAll => []ReadyIsCallable
  <1>1. Inv => ReadyIsCallable
    BY DEF Inv, Checked, Calling, ReadyIsCallable
  <1> QED  BY <1>1, InvAlways, PTL

\* The entrypoint that reaches opa_eval is a declared id and no boolean, from
\* whichever of call, configuration and fallback _resolve_entrypoint() took it.
THEOREM EntrypointIsDeclared == FairSpecAll => []EntrypointDeclared
  <1>1. Inv => EntrypointDeclared
    BY DEF Inv
  <1> QED  BY <1>1, InvAlways, PTL

\* evaluate() raises the error of a builtin or of opa_abort, whichever way the
\* error reached it and however many exceptions its caller was handling.
THEOREM HostErrorIsRaised == FairSpecAll => []HostErrorSurfaces
  <1>1. Inv => HostErrorSurfaces
    BY DEF Inv
  <1> QED  BY <1>1, InvAlways, PTL

\* Outside of except blocks the exception of evaluate() says what went wrong:
\* it is an OpaWasmError unless a trap of the heap functions in borrow() or in a
\* handler, or a ticker that does not start, left unwrapped; a trap of the
\* evaluation is an OpaEvaluationError, a timeout one that names the limit; and
\* strict_result never answers UNDEFINED.
THEOREM OutcomeIsExact == FairSpecAll => []OutcomeExact
  <1>1. Inv => OutcomeExact
    BY DEF Inv
  <1> QED  BY <1>1, InvAlways, PTL

=============================================================================
