----------------------------- MODULE EvalErrors -----------------------------
(***************************************************************************)
(* What a call of evaluate() raises: Evaluator.evaluate (evaluator.py)     *)
(* with its two walks along the chain of an exception, for a policy that   *)
(* Facade has built and a caller that may itself be handling exceptions.   *)
(*                                                                         *)
(* Python links exceptions: `raise e from c` sets __cause__, and every     *)
(* raise sets __context__ to the exception that is being handled at that   *)
(* moment in the thread, in whatever frame.  A call made inside an except  *)
(* block of the application therefore raises exceptions that lead to the   *)
(* application's, which may be the error of an earlier call.               *)
(*                                                                         *)
(* Exceptions are objects with an identity, numbered as they are created;  *)
(* 0 is None.  Objects that nothing can refer to are dropped.              *)
(***************************************************************************)
EXTENDS Facade

CONSTANTS
    MaxExns,     \* bound: exception objects
    MaxHandlers  \* bound: nested except blocks around a call

ASSUME EvalErrorsAssumption == MaxExns \in Nat /\ MaxHandlers \in Nat

VARIABLES
    exns,      \* the exception objects
    handlers,  \* those the application is handling, innermost first
    exc,       \* evaluate(): the exception in its `except Exception as exc`
    cur,       \* the walks: the current exception ...
    seen,      \* ... and the visited ones
    raised,    \* what the call raised
    mark,      \* history: number of objects when the call began
    failure,   \* history: what went wrong, "unwrapped" where nothing wraps it
    host       \* history: the error of a host import

walkVars  == <<exc, cur, seen>>
errorVars == <<exns, handlers, walkVars, raised, mark, failure, host>>
vars == <<facadeVars, errorVars>>

\* The subclasses of OpaWasmError that a call can meet.  OpaPoolTimeoutError
\* stands for what else borrow() raises (OpaPolicyClosedError, the errors of a
\* failed construction): evaluate() does not tell them apart.
PassthroughErrors == {"OpaEvaluationError", "OpaInvalidInputError", "OpaMemoryError"}
HostErrors   == {"OpaBuiltinError", "OpaAbortError"}
BorrowErrors == {"OpaPoolTimeoutError", "OpaDataError"}
CodecErrors  == {"OpaInvalidInputError", "OpaMemoryError"}
OpaWasmErrors == PassthroughErrors \cup HostErrors \cup BorrowErrors
                 \cup {"OpaEntrypointError"}

\* An exception: its class ("other" for those that are not the SDK's: traps of
\* wasmtime, errors of Python and of the application), whether its text mentions
\* an interrupt or an epoch (for the message of an OpaEvaluationError: the time
\* limit), and its links.
Exn(type, says, cause, context) ==
    [type |-> type, says |-> says, cause |-> cause, context |-> context]

Handled == IF handlers = <<>> THEN 0 ELSE Head(handlers)
NewId == Len(exns) + 1

\* Bound: the policy that is called inside except blocks has default settings
\* and one entrypoint id; what it declares does not matter to its errors.
Nests ==
    /\ config = [entrypoint |-> Absent, strict |-> FALSE, shape |-> TRUE]
    /\ entries = [n \in Names |-> 0]

InitAll ==
    /\ Init
    /\ exns = <<>> /\ handlers = <<>>
    /\ exc = 0 /\ cur = 0 /\ seen = {}
    /\ raised = 0 /\ mark = 0 /\ failure = "none" /\ host = 0

\* The call leaves evaluate() with exception e.
LeavesWith(e) == raised' = e /\ at' = "raised"

\* A new error is raised outside of evaluate()'s except blocks.
RaiseNew(type) ==
    /\ exns' = Append(exns, Exn(type, FALSE, 0, Handled))
    /\ LeavesWith(NewId)
    /\ failure' = type

-----------------------------------------------------------------------------
(* The call up to the guest *)

\* A call makes at most two exceptions.
Begins == Len(exns) + 2 <= MaxExns /\ mark' = Len(exns)

\* _resolve_entrypoint() finds an id ...
Call(q) ==
    /\ Begins
    /\ Resolve(q)
    /\ UNCHANGED <<exns, handlers, walkVars, raised, failure, host>>

\* ... or raises.
CallRefused(q) ==
    /\ at = "ready" /\ Begins
    /\ ~Resolves(Fallback(q))
    /\ RaiseNew("OpaEntrypointError")
    /\ UNCHANGED <<limits, config, moduleVars, callVars, handlers, walkVars, host>>

Inside == at = "enter" /\ UNCHANGED <<limits, config, moduleVars, callVars, handlers, mark>>

\* borrow(): no slot, a closed pool, or an instance that cannot be built or
\* refreshed.
BorrowFails(type) ==
    /\ Inside /\ RaiseNew(type)
    /\ UNCHANGED <<walkVars, host>>

\* The same, with an error that nothing wraps: a trap of the guest's heap
\* functions, which load_data() calls outside of its try, or the RuntimeError
\* of a ticker that does not start.
BorrowBreaks ==
    /\ Inside
    /\ exns' = Append(exns, Exn("other", FALSE, 0, Handled))
    /\ LeavesWith(NewId)
    /\ failure' = "unwrapped"
    /\ UNCHANGED <<walkVars, host>>

\* encode_input() or the codec raises an error that passes through.
CodecFails(type) ==
    /\ Inside /\ RaiseNew(type)
    /\ UNCHANGED <<walkVars, host>>

\* The same, or an unforeseen error before the guest is entered, but the reset
\* of the heap in the handler of the error traps, with nothing around it to
\* wrap the trap.
FailsTwice(type) ==
    /\ Inside
    /\ exns' = exns \o <<Exn(type, FALSE, 0, Handled), Exn("other", TRUE, 0, NewId)>>
    /\ LeavesWith(NewId + 1)
    /\ failure' = "unwrapped"
    /\ UNCHANGED <<walkVars, host>>

\* evaluate() catches exception e.
Catches(e) == exc' = e /\ cur' = e /\ seen' = {} /\ at' = "find"

\* The guest traps, of itself or at its deadline; or Python code fails in an
\* unforeseen way before the guest is entered (a RecursionError, a str that has
\* no UTF-8 encoding) and the heap is reset.
EvalFails(what) ==
    /\ Inside
    /\ \E says \in BOOLEAN :
           /\ (what = "timeout" => says)
           /\ exns' = Append(exns, Exn("other", says, 0, Handled))
    /\ Catches(NewId)
    /\ failure' = what
    /\ UNCHANGED <<raised, host>>

\* A host import raises (opa_abort, or the dispatch of a builtin, which turns
\* every failure into OpaBuiltinError).  wasmtime lets the error through as it
\* is, or as the cause or the context of a trap.
HostFails(type) ==
    /\ Inside
    /\ failure' = type /\ host' = NewId
    /\ LET h == Exn(type, FALSE, 0, Handled)
       IN  \/ exns' = Append(exns, h) /\ Catches(NewId)
           \/ /\ exns' = exns \o <<h, Exn("other", FALSE, NewId, Handled)>>
              /\ Catches(NewId + 1)
           \/ /\ exns' = exns \o <<h, Exn("other", FALSE, 0, NewId)>>
              /\ Catches(NewId + 1)
    /\ UNCHANGED raised

\* evaluate_raw() has a result set.
EvalReturns ==
    /\ at = "enter" /\ at' = "result"
    /\ UNCHANGED <<limits, config, moduleVars, callVars, errorVars>>

Answer(s) == Simplify(s) /\ UNCHANGED errorVars

\* _simplify_result() raises.
AnswerRefused(s) ==
    /\ at = "result" /\ Refuses(s)
    /\ RaiseNew("OpaEvaluationError")
    /\ UNCHANGED <<limits, config, moduleVars, callVars, handlers, walkVars, mark, host>>

-----------------------------------------------------------------------------
(* The walks along the chain *)

FollowContext(e) ==   \* mutant: the context first
    IF exns[e].context # 0 THEN exns[e].context ELSE exns[e].cause
Follow(e) == IF exns[e].cause # 0 THEN exns[e].cause ELSE exns[e].context

StopsAtEnd == cur = 0   \* mutant: a cycle is not noticed
Stops == cur = 0 \/ cur \in seen

NeverTyped(e) == FALSE   \* mutant: the host's error is not looked for
IsTyped(e) == exns[e].type \in OpaWasmErrors

Mentions == cur # 0 /\ exns[cur].says

WalkOn == cur' = Follow(cur) /\ seen' = seen \cup {cur}

Walking == UNCHANGED <<limits, config, moduleVars, callVars, handlers, mark, failure, host>>

\* _find_typed_in_chain()
FindNext ==
    /\ at = "find" /\ ~Stops /\ ~IsTyped(cur)
    /\ WalkOn
    /\ Walking /\ UNCHANGED <<at, exns, exc, raised>>

\* There is none: on to _is_epoch_interrupt().
FindNone ==
    /\ at = "find" /\ Stops
    /\ at' = "epoch" /\ cur' = exc /\ seen' = {}
    /\ Walking /\ UNCHANGED <<exns, exc, raised>>

\* The exceptions on the context chain of e.
ContextChain(e) ==
    LET chain[i \in 0..Len(exns)] ==
            IF i = 0 THEN {} ELSE {i} \cup chain[exns[i].context]
    IN  chain[e]

\* `raise typed from exc`: Python links typed to exc and cuts the link by which
\* the context chain of exc would come back to typed.
Reraise(typed) ==
    exns' = [i \in DOMAIN exns |->
        CASE i = typed -> [exns[i] EXCEPT !.cause = exc,
                              !.context = IF typed = exc THEN @ ELSE exc]
          [] i # typed /\ i \in ContextChain(exc) /\ exns[i].context = typed ->
                 [exns[i] EXCEPT !.context = 0]
          [] OTHER -> exns[i]]

FindTyped ==
    /\ at = "find" /\ ~Stops /\ IsTyped(cur)
    /\ Reraise(cur)
    /\ LeavesWith(cur)
    /\ Walking /\ UNCHANGED walkVars

\* _is_epoch_interrupt(), which counts only once the guest was entered
EpochNext ==
    /\ at = "epoch" /\ ~Stops /\ ~Mentions
    /\ WalkOn
    /\ Walking /\ UNCHANGED <<at, exns, exc, raised>>

\* `raise OpaEvaluationError(...) from exc`, naming the time limit or not.
EpochEnds ==
    /\ at = "epoch" /\ (Stops \/ Mentions)
    /\ exns' = Append(exns, Exn("OpaEvaluationError", ~Stops /\ failure # "crash", exc, exc))
    /\ LeavesWith(NewId)
    /\ Walking /\ UNCHANGED walkVars

Walk == FindNext \/ FindNone \/ FindTyped \/ EpochNext \/ EpochEnds

-----------------------------------------------------------------------------
(* The application *)

Forgets ==
    /\ exc' = 0 /\ cur' = 0 /\ seen' = {} /\ raised' = 0
    /\ mark' = 0 /\ failure' = "none" /\ host' = 0
    /\ chosen' = Absent /\ answer' = Absent
    /\ UNCHANGED <<limits, config, moduleVars>>

\* It uses the decision, or drops the error and goes on where it is.
GoesOn ==
    /\ at \in {"answered", "raised"} /\ at' = "ready"
    /\ exns' = IF handlers = <<>> THEN <<>>
               ELSE IF raised <= mark THEN exns   \* an old one that links to new ones
               ELSE SubSeq(exns, 1, mark)
    /\ UNCHANGED handlers
    /\ Forgets

\* It handles the error, in the block it is in or after leaving some.
Handles ==
    /\ Nests
    /\ at = "raised" /\ at' = "ready"
    /\ \E n \in 0..Len(handlers) :
           handlers' = <<raised>> \o SubSeq(handlers, n + 1, Len(handlers))
    /\ Len(handlers') <= MaxHandlers
    /\ UNCHANGED exns
    /\ Forgets

\* It handles an error of its own, of any text, one made with `raise e from e`
\* included.
FailsItself(says, circular) ==
    /\ Nests
    /\ at = "ready" /\ Len(handlers) < MaxHandlers /\ Len(exns) < MaxExns
    /\ exns' = Append(exns, Exn("other", says, IF circular THEN NewId ELSE 0, Handled))
    /\ handlers' = <<NewId>> \o handlers
    /\ UNCHANGED <<facadeVars, walkVars, raised, mark, failure, host>>

\* An except block ends.
LeavesHandler ==
    /\ at = "ready" /\ handlers # <<>>
    /\ handlers' = Tail(handlers)
    /\ exns' = IF handlers' = <<>> THEN <<>> ELSE exns
    /\ UNCHANGED <<facadeVars, walkVars, raised, mark, failure, host>>

\* The construction has failed.
Finished == at \in Rejected /\ UNCHANGED vars

NextAll ==
    \/ BuildStep /\ UNCHANGED errorVars
    \/ \E q \in Requests : Call(q) \/ CallRefused(q)
    \/ \E e \in BorrowErrors : BorrowFails(e)
    \/ BorrowBreaks
    \/ \E e \in CodecErrors : CodecFails(e)
    \/ \E e \in CodecErrors \cup {"other"} : FailsTwice(e)
    \/ \E what \in {"trap", "timeout", "crash"} : EvalFails(what)
    \/ \E e \in HostErrors : HostFails(e)
    \/ EvalReturns
    \/ \E s \in Shapes : Answer(s) \/ AnswerRefused(s)
    \/ Walk
    \/ GoesOn \/ Handles \/ LeavesHandler
    \/ \E says, circular \in BOOLEAN : FailsItself(says, circular)
    \/ Finished

\* A thread that walks keeps walking.
FairSpecAll == InitAll /\ [][NextAll]_vars /\ WF_vars(Walk)

-----------------------------------------------------------------------------
(* Correctness *)

\* The error of a builtin or of opa_abort is what the caller gets, whichever
\* way wasmtime passed it on and whatever the caller was handling.
HostErrorSurfaces == at = "raised" /\ host # 0 => raised = host

\* Outside of except blocks the error says what went wrong: a trap in the
\* evaluation is an OpaEvaluationError, a timeout one that names the limit, and
\* an error of the SDK is itself.  What leaves unwrapped, and only that, is no
\* error of the SDK: a trap of the heap functions in borrow() or in a handler of
\* evaluate(), or a ticker that does not start.  And under strict_result no
\* answer is UNDEFINED.
OutcomeExact ==
    /\ at = "raised" /\ handlers = <<>> =>
           /\ exns[raised].type \in OpaWasmErrors <=> failure # "unwrapped"
           /\ failure \in OpaWasmErrors => exns[raised].type = failure
           /\ failure \in {"trap", "timeout", "crash"} =>
                /\ exns[raised].type = "OpaEvaluationError"
                /\ failure = "timeout" => exns[raised].says
                /\ failure = "crash" => ~exns[raised].says
    /\ at = "answered" /\ config.strict => answer # "UNDEFINED"

\* Both walks end, although the exceptions that the caller is handling may lead
\* to themselves, through a cause or a context of the application's making.
WalkEnds == at \in {"find", "epoch"} ~> at = "raised"

\* What evaluate() documents: it raises OpaEvaluationError if "the underlying
\* evaluation traps".  The error is at least one of this call.
OwnError == at = "raised" => raised > mark

\* What errors.py says of "every public code path", and docs/api.md of "all
\* raise types": what a call raises is an OpaWasmError.
RaisesOpaWasmError == at = "raised" => exns[raised].type \in OpaWasmErrors
=============================================================================
