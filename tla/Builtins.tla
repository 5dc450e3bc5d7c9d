------------------------------ MODULE Builtins ------------------------------
(***************************************************************************)
(* Host builtins: the copy-on-write BuiltinRegistry (builtins.py) and its  *)
(* use by OpaPolicyInstance._dispatch_builtin (instance.py).               *)
(*                                                                         *)
(* A builtin is user code that runs inside an evaluation, and it may call  *)
(* the same policy again: evaluate(), register_builtin(), or unregister()  *)
(* on the registry.  A thread is therefore a stack of calls in progress,   *)
(* the innermost last.  The pool is its number of slots in use.            *)
(*                                                                         *)
(* A callable is the number of its registration, 0 stands for none.        *)
(***************************************************************************)
EXTENDS Naturals, Sequences

CONSTANTS
    Threads,
    Nobody,         \* the registry lock's holder when it is free
    Names,          \* names of builtins
    Defaults,       \* those of default_builtins()
    MaxSize,        \* pool_size
    MayTimeout,     \* TRUE iff borrow_timeout_seconds is not None
    MaxDepth,       \* bound: calls in progress in one thread
    MaxDispatches,  \* bound: builtin calls of one evaluation
    MaxCalls        \* bound: calls of all threads together

ASSUME BuiltinsAssumption ==
    /\ Nobody \notin Threads /\ Defaults \subseteq Names
    /\ MayTimeout \in BOOLEAN
    /\ MaxSize \in Nat \ {0} /\ MaxDepth \in Nat
    /\ MaxDispatches \in Nat /\ MaxCalls \in Nat

VARIABLES
    table,   \* BuiltinRegistry._builtins: name -> callable
    lock,    \* holder of BuiltinRegistry._lock
    regs,    \* number of the last registration
    last,    \* history: name -> what was published for it last
    busy,    \* slots of the pool in use
    stack,   \* thread -> its calls in progress
    calls    \* bound: calls made so far

vars == <<table, lock, regs, last, busy, stack, calls>>

Nothing == [n \in Names |-> 0]

\* A call in progress has: where it is (at), the builtin it is about (name), the
\* callable it runs (fn), the registry as it has read it (got), the oldest
\* callables it may still use (since), and how many builtins it has called (done).

Init ==
    /\ table = [n \in Names |-> IF n \in Defaults THEN 1 ELSE 0]
    /\ lock = Nobody /\ regs = 1 /\ last = table
    /\ busy = 0
    /\ stack = [t \in Threads |-> <<>>]
    /\ calls = 0

Depth(t) == Len(stack[t])
Top(t)   == stack[t][Depth(t)]
At(t, s) == Depth(t) > 0 /\ Top(t).at = s

Push(t, f)  == stack' = [stack EXCEPT ![t] = Append(@, f)]
Becomes(t, f) == stack' = [stack EXCEPT ![t][Depth(t)] = f]
Pop(t)      == stack' = [stack EXCEPT ![t] = SubSeq(@, 1, Depth(t) - 1)]

\* Application code runs: outside of all calls, or in a builtin.
Enters(t) ==
    /\ Depth(t) = 0 \/ (Depth(t) < MaxDepth /\ At(t, "call"))
    /\ calls < MaxCalls
    /\ calls' = calls + 1

\* The callables that an evaluation which begins now may not fall behind.
Floor == [n \in Names |-> IF table[n] = 0 THEN regs + 1 ELSE table[n]]

-----------------------------------------------------------------------------
(* register(), unregister()                                                *)

\* A registration that begins.  One of something that cannot be called, and one
\* through a closed policy, is refused before it looks at the table.
Registers(t, n, at) ==
    /\ Enters(t)
    /\ Push(t, [at |-> at, name |-> n, fn |-> 0, got |-> Nothing,
                since |-> Nothing, done |-> 0])
    /\ UNCHANGED <<table, lock, regs, last, busy>>

\* register(replace=True), register(replace=False), unregister()
Register(t, n)   == Registers(t, n, "register")
Add(t, n)        == Registers(t, n, "add")
Unregister(t, n) == Registers(t, n, "unregister")

CopyUnlocked(t) ==   \* mutant: the copy is made before the lock is taken
    /\ \/ At(t, "register")
       \/ At(t, "add") /\ table[Top(t).name] = 0
       \/ At(t, "unregister") /\ table[Top(t).name] # 0
    /\ Becomes(t, [Top(t) EXCEPT !.got = table,
                   !.at = IF @ = "unregister" THEN "remove" ELSE "publish"])
    /\ UNCHANGED <<table, lock, regs, last, busy, calls>>

\* Under the lock: a copy of the current dict.
Copy(t) ==
    /\ lock = Nobody /\ lock' = t
    /\ \/ At(t, "register")
       \/ At(t, "add") /\ table[Top(t).name] = 0
       \/ At(t, "unregister") /\ table[Top(t).name] # 0
    /\ Becomes(t, [Top(t) EXCEPT !.got = table,
                   !.at = IF @ = "unregister" THEN "remove" ELSE "publish"])
    /\ UNCHANGED <<table, regs, last, busy, calls>>

\* Already registered, or not registered: OpaBuiltinError, nothing changes.
Refuse(t) ==
    /\ lock = Nobody
    /\ \/ At(t, "add") /\ table[Top(t).name] # 0
       \/ At(t, "unregister") /\ table[Top(t).name] = 0
    /\ Pop(t)
    /\ UNCHANGED <<table, lock, regs, last, busy, calls>>

\* The changed copy is published and the lock released.
Publish(t) ==
    /\ At(t, "publish") \/ At(t, "remove")
    /\ LET n == Top(t).name
           k == IF Top(t).at = "publish" THEN regs + 1 ELSE 0
       IN  /\ table' = [Top(t).got EXCEPT ![n] = k]
           /\ last' = [last EXCEPT ![n] = k]
    /\ regs' = IF Top(t).at = "publish" THEN regs + 1 ELSE regs
    /\ lock' = Nobody
    /\ Pop(t)
    /\ UNCHANGED <<busy, calls>>

-----------------------------------------------------------------------------
(* evaluate() and the builtins it calls                                    *)

Evaluate(t) ==
    /\ Enters(t)
    /\ Push(t, [at |-> "wait", name |-> Nobody, fn |-> 0, got |-> Nothing,
                since |-> Floor, done |-> 0])
    /\ UNCHANGED <<table, lock, regs, last, busy>>

TakeSlot(t) ==
    /\ At(t, "wait")
    /\ busy < MaxSize /\ busy' = busy + 1
    /\ Becomes(t, [Top(t) EXCEPT !.at = "guest"])
    /\ UNCHANGED <<table, lock, regs, last, calls>>

\* OpaPoolTimeoutError; a builtin that called evaluate() may catch it.
BorrowTimesOut(t) ==
    /\ MayTimeout
    /\ At(t, "wait") /\ busy = MaxSize
    /\ Pop(t)
    /\ UNCHANGED <<table, lock, regs, last, busy, calls>>

\* The guest calls opa_builtinN and the id is resolved to a name.
Dispatch(t, n) ==
    /\ At(t, "guest") /\ Top(t).done < MaxDispatches
    /\ Becomes(t, [Top(t) EXCEPT !.at = "snapshot", !.name = n, !.done = @ + 1])
    /\ UNCHANGED <<table, lock, regs, last, busy, calls>>

SnapshotAtBuild(t) ==   \* mutant: the snapshot of the instance's construction
    /\ At(t, "snapshot") /\ lock = Nobody
    /\ Becomes(t, [Top(t) EXCEPT !.at = "lookup",
                   !.got = [n \in Names |-> IF n \in Defaults THEN 1 ELSE 0]])
    /\ UNCHANGED <<table, lock, regs, last, busy, calls>>

SnapshotKeepsLock(t) ==   \* mutant: the callable runs under the lock
    /\ At(t, "snapshot") /\ lock = Nobody
    /\ lock' = t
    /\ Becomes(t, [Top(t) EXCEPT !.at = "lookup", !.got = table])
    /\ UNCHANGED <<table, regs, last, busy, calls>>

\* snapshot(): the published dict, read under the lock.
Snapshot(t) ==
    /\ At(t, "snapshot") /\ lock = Nobody
    /\ Becomes(t, [Top(t) EXCEPT !.at = "lookup", !.got = table])
    /\ UNCHANGED <<table, lock, regs, last, busy, calls>>

\* The callable is found, its arguments are decoded, and it is called.
Lookup(t) ==
    /\ At(t, "lookup") /\ Top(t).got[Top(t).name] # 0
    /\ Becomes(t, [Top(t) EXCEPT !.at = "call", !.got = Nothing,
                   !.fn = Top(t).got[Top(t).name]])
    /\ UNCHANGED <<table, lock, regs, last, busy, calls>>

\* Not registered, or an argument cannot be decoded.
LookupFails(t) ==
    /\ At(t, "lookup")
    /\ Becomes(t, [Top(t) EXCEPT !.at = "failed", !.got = Nothing])
    /\ UNCHANGED <<table, lock, regs, last, busy, calls>>

\* The callable returns and its result is encoded for the guest.
CallableReturns(t) ==
    /\ At(t, "call")
    /\ Becomes(t, [Top(t) EXCEPT !.at = "guest", !.fn = 0,
                   !.since[Top(t).name] = Top(t).fn])
    /\ UNCHANGED <<table, lock, regs, last, busy, calls>>

\* The callable raises, or its result is not JSON or too large.
CallableFails(t) ==
    /\ At(t, "call")
    /\ Becomes(t, [Top(t) EXCEPT !.at = "failed", !.fn = 0])
    /\ UNCHANGED <<table, lock, regs, last, busy, calls>>

\* The evaluation ends and the slot goes back.
EvalEnds(t) ==
    /\ At(t, "guest") \/ At(t, "failed")
    /\ busy' = busy - 1
    /\ Pop(t)
    /\ UNCHANGED <<table, lock, regs, last, calls>>

-----------------------------------------------------------------------------
Step(t) ==
    \/ Copy(t) \/ Refuse(t) \/ Publish(t)
    \/ TakeSlot(t) \/ BorrowTimesOut(t)
    \/ \E n \in Names : Dispatch(t, n)
    \/ Snapshot(t) \/ Lookup(t) \/ LookupFails(t)
    \/ CallableReturns(t) \/ CallableFails(t) \/ EvalEnds(t)

\* All the calls the bound allows were made and have returned.
Finished ==
    /\ calls = MaxCalls /\ \A t \in Threads : Depth(t) = 0
    /\ UNCHANGED vars

Next ==
    \/ \E t \in Threads :
         \/ Evaluate(t)
         \/ \E n \in Names : Register(t, n) \/ Add(t, n) \/ Unregister(t, n)
         \/ Step(t)
    \/ Finished

Spec == Init /\ [][Next]_vars

FairSpec == Spec /\ \A t \in Threads : WF_vars(Step(t))

-----------------------------------------------------------------------------
\* No registration is lost: the table holds, for every name, what was
\* published for it last, however register() and unregister() of several
\* threads and of running builtins interleave (BuiltinRegistry.register).
RegistrationsKept == table = last

\* register_builtin() takes effect for subsequent evaluations, and an
\* evaluation never goes back: a builtin it calls is not older than the one
\* registered when it began, nor than the one it called before by that name.
FreshDispatch ==
    \A t \in Threads : \A i \in 1..Depth(t) :
        LET f == stack[t][i]
        IN  f.at = "call" => f.fn >= f.since[f.name]

\* Every call returns, also one that a builtin makes on its own policy: a
\* callable never runs under the registry lock, and with a borrow timeout the
\* slots that outer evaluations hold do not block the inner ones for ever.
CallsEnd == \A t \in Threads : Depth(t) > 0 ~> Depth(t) = 0
=============================================================================
