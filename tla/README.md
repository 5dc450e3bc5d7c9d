# Verification of opa-py-wasm

`opapywasm` evaluates compiled OPA policies (WebAssembly) from Python. A
`Store`, its memory and its instance may be used by one thread at a time; the
library makes them usable from many threads by pooling them. This directory
holds TLA+ models of the parts of the library that make this work, TLC runs
that check them on small instances, and TLAPS proofs of the properties that
matter most for every instance.

## 1. Inventory

| Component | State | Operations | Talks to |
|---|---|---|---|
| `OpaWasmPolicy` (`policy.py`) | data snapshot and version (`_data_lock`); `_closed`, `_active_evals` (`_lifecycle_lock`); metadata | constructor with probe, `evaluate(_raw)`, `set_data`, `register_builtin`, `close` | owns the pool, the runtime factory and the registry; gives the pool its three callbacks |
| `OpaInstancePool` (`pool.py`) | bounded FIFO of idle slots (instances, `None` placeholders, close sentinels), closed event, close lock, two counters | `borrow` (draw, build, refresh, loan, release), `close` | calls the factory, snapshot and refresh callbacks; closes instances |
| `OpaPolicyInstance` (`instance.py`) | `_poisoned`, `_entered_wasm`, `_data_version` | construct, `reload_data`, `evaluate`, builtin dispatch, `close` | data manager, evaluator, registry |
| `DataManager` (`data.py`) | `data_addr`, heap floor, checkpoint | `load_data`, `reset_heap_to_checkpoint` | guest, through codec and ABI |
| `Evaluator` (`evaluator.py`) | tick budget | `evaluate`: encode, arm, reset, write, eval, read, restore, disarm | guest, through codec and ABI |
| `EpochTicker` (`runtime.py`) | stop event, thread | `ensure_running`, the loop, `close` | advances the engine's epoch, which all stores of a policy share |
| `WasmtimeRuntime`, factory (`runtime.py`) | `Store`, `Memory`, `Instance`; a process-wide lock | construction with memory-doubling retry, deadlines, `close` | wasmtime |
| `MemoryCodec` (`memory.py`), `OpaAbi` (`abi.py`) | none | encoding, size guards, bounded NUL scan, pointer and range checks, typed guest calls | guest |
| `BuiltinRegistry` (`builtins.py`) | copy-on-write snapshot | `register`, `snapshot`; default builtins | called from the guest through dispatch |
| `PolicyConfig`, errors | none | validation of the settings; one class per category of error | read by the facade; raised everywhere |

What is hard about it, and the properties that make each part correct:

* **Pool.** Any two accesses to the queue, the closed event and the data
  snapshot may be separated by steps of other threads. Correct means: loans
  are exclusive, no slot is lost or invented by any failure, no `Store` is used
  after or closed twice, a decision is never made on data older than the call,
  waiters are woken by `close()`, and a closed pool holds no `Store`. A signal
  may raise an exception between any two steps; what it costs must be known.
* **Facade and ticker.** `close()` does not wait for evaluations, yet the
  ticker that bounds them must outlive the last, and must not survive it.
* **Instance.** An evaluation is half a dozen guest calls, each of which may
  trap, time out or be interrupted. Correct means: the document read is the one
  the version tag promises, nothing overwrites it, and what a failed call
  leaves behind cannot hurt the next borrower.
* **Runtime.** All `Store`s of the process share a callback free list that has
  no lock of its own, and one constructor may open and close several `Store`s.
  Correct means: the list is never updated by two at once, every attempt's
  `Store` is closed or known to be left open, and the doubling of the memory
  finds a size if there is one.
* **Builtins.** User code runs inside an evaluation and may call the same policy
  again. Correct means: no registration is lost, an evaluation does not run a
  builtin older than the call, and nested calls do not wait for themselves.
* **Evaluator.** Which error a failed call raises is found by walking along the
  chain of an exception, which Python links to whatever the calling thread is
  handling. Correct means: the error is that of this call, of the right kind,
  and the walk ends although chains may be circular.
* **Codec, default builtins, facade.** Sequential, but full of borders: chunk,
  budget and end of memory; signed addresses; two sets of checks for one
  document; operands and verbs that must stay aligned; `True == 1`.

`PROJECT.json` lists the hazards with their lines.

## 2. Modules

| Module | Models |
|---|---|
| `InstancePool` | `pool.py`: one action per access to shared state |
| `PoolInterrupts` | `InstancePool` with asynchronous exceptions between any two steps |
| `DecisionService` | abstract specification of what the pool promises |
| `PoolRefinement` | the mapping from `InstancePool` to `DecisionService` |
| `Policy` | life of an `OpaWasmPolicy` and its `EpochTicker`; the pool appears as `DecisionService` |
| `PolicyInstance` | one instance: data manager, evaluator, deadline, interrupts |
| `Runtime` | `WasmtimeRuntime` of any policy: construction with retry, wiring, `close`, under the process-wide lock |
| `Builtins` | `BuiltinRegistry`, dispatch, builtins that call their own policy |
| `Codec` | `MemoryCodec` and `_serialise_data`: size guards, pointers, NUL scan |
| `BuiltinCalls` | `Codec` with the default builtins: `sprintf`, JSON and YAML helpers, and the encoding of their results |
| `Facade` | settings, compilation, ABI validation, entrypoint map and resolution, result simplification |
| `EvalErrors` | `Facade` with the evaluation: the error that `Evaluator.evaluate` raises, for callers that are handling others |
| `MCInstancePool`, `MCPoolRefinement` | instances for TLC (symmetry, adequacy of a bound); the other modules are run as they are |
| `InstancePoolProofs`, `PoolInterruptsProofs`, `PolicyProofs`, `PolicyInstanceProofs`, `RuntimeProofs`, `BuiltinsProofs`, `BuiltinCallsProofs`, `EvalErrorsProofs` | theorems about the module of that name; the first also about `PoolRefinement`, the last two also about `Codec` and `Facade` |

The composition is by contract: `InstancePool` is shown to implement
`DecisionService`, and `Policy` takes every step of its pool from
`DecisionService` (`Pool == INSTANCE DecisionService`), so that what holds of
`Policy` does not depend on how the pool does it. `PolicyInstance` refines the
single steps "reload" and "evaluate" of `InstancePool`, `Runtime` its steps
"construct" and "close", and `Builtins` opens up an evaluation where it calls
back into Python; these relations are by reading, not checked refinements.
`PoolInterrupts`, `BuiltinCalls` and `EvalErrors` extend a module and run its
actions together with their own.

Operators marked `mutant` are wrong variants of the definition that follows
them. No specification uses them; `PROJECT.json` names, for each property, the
variant that breaks it.

### InstancePool

`idle` is the queue; its elements are numbers of instances, `None` or
`CloseSentinel`. `pc[t]` says where thread `t` is in `borrow()` or `close()`,
`slot[t]` what it has drawn. An instance is the number of its construction, so
`created` is also the last number given out. The pair (data, data_version) is
the number `version`, since both are read and written only under `_data_lock`.

    borrow   get -> drawn -> (build -> construct ->) check -> (reload ->) loan
             -> release -> putBack | (count ->) putNone -> closeInst
             drawn -> (drop ->) repost     (the pool is closed)
    close    drain <-> drainClose, -> wake

Faithful details that matter: the closed event is read at three places and may
change between any two; `put_nowait` drops on a full queue; the placeholder is
put back before the replaced instance is closed; the recreated counter is
bumped only in an open pool; a failed reload leaves the old document, none, or
the new one under the old tag. `_create_instance` counts an instance right
after the factory returns; both are one step, since no other thread can reach
the instance in between. `close()` begins, in the model, when it gets
`_close_lock`.

Left out: the properties that only report (`available`, `instances_created`).

### PoolInterrupts

`Interrupt` is a `KeyboardInterrupt` (or another `BaseException` raised from
outside) between two steps. Where it strikes decides what unwinds:

| struck in | effect | action |
|---|---|---|
| `borrow()` before the `try`; `_release()` before its put | the slot is lost, the instance forgotten | `LoseSlot` |
| `Queue.get()`, the closed branch of `_take_slot()` | a sentinel may not be passed on | `LeaveTakeSlot` |
| the `try`, `instance` not yet assigned | placeholder restored, a drawn instance forgotten | `LeaveBuild` |
| the `try`, `instance` assigned, before the reload | released as it is | `LeaveCheck` |
| `reload_data()` | passes `except Exception`: released unpoisoned under its old tag | `LeaveReload` |
| `_release()` after its put | the replaced instance stays open | `LeaveClosing` |
| `close()` | lock released, rest of the drain and the sentinel missing for good | `LeaveClose` |

`lost`, `leaked` and `cut` are history variables that say what has been lost;
the properties state that nothing else is. `Hung` is the stuttering of waiters
without a timeout for whom nothing is left to come.

### DecisionService and PoolRefinement

Callers wait, get one of `MaxSize` leases, have their evaluation pinned to the
version in force, answer, and give the lease back. Once shut nothing is
granted. The mapping places the grant at the closed check of `_take_slot`, the
pinning at the snapshot of `_refresh_if_stale`, and the end of the lease at the
put of the slot. While on loan, the version seen by the service is the document
the guest really holds, so the refinement fails if a reload leaves another.

### Policy

`made` follows the constructor (probe, metadata, or abandonment: pool closed,
then factory). `_enter_eval` and `_exit_eval` are single steps, as they run
under `_lifecycle_lock`. `left[t]` counts the ticks to the deadline of the
store `t` runs on. `GuestReturns` is the guest's own choice, so a policy that
loops for ever is a behaviour of the model. `_stop.set()`, taking the thread
out of the object, and the join with its one-second limit are three steps, and
`join` may return before the thread has ended. `ensure_running` records the
thread before it starts it, so that a start which the system refuses leaves a
thread that does not run (third case of `BuildProbe`). Calls have no bound:
threads call again and again, on a closed policy too. A refused `set_data` (bad
or oversized document) leaves the data alone. A failing refresh counts as an
evaluation that ends.

### PolicyInstance

The guest heap is a bump allocator with a pointer; the model keeps where the
document ends and which document is readable at `data_addr` (`Garbage` if it
has been overwritten or half written). Every guest call is an action guarded by
the deadline, and may fail. `Interrupted` is a `BaseException` that is not an
`Exception`: it passes `except Exception` in `load_data`, `reload_data` and
both `evaluate` methods, so the instance goes back unpoisoned from wherever it
was; the history variable `torn` says that this has happened since the last
evaluation that completed. What a poisoned instance holds is not tracked: it is never lent again
(`IdleHealthy` in `InstancePool`).

### Runtime

`pc[r]` is kept per runtime, since operations on one runtime never overlap
(`ExclusiveLoan`). The free list of the wasmtime package is external code, seen
only through the comment at `_NATIVE_LIFECYCLE_LOCK`: an update reads the list
(`seen`) and writes it in a later step, so that two updates at once lose or
share an entry. `need` is the number of pages that the module's data segments
fill; `Instantiates` and `InstantiateFails` follow from it, or the module fails
for another reason. `Interrupt` is anything that passes the inner `except`, the
`Store` constructor's own errors included; it meets the outer handler, which
calls `close()`. An interrupt inside `Store.close()` is not modelled.

    want -> store -> register -> instantiate -> built -> wiring -> wired -> ready
              ^                      |                      |                |
              |                    except                   |                |
              +----- finalise <------+                      |                |
                        |                                   v                v
                        +-------------------------------> closing -> close -> closeFin

From `built` on the constructor is `OpaPolicyInstance.__init__`. Only what it
does at `wiring` is inside its `try`. After it, at `wired`, comes
`ensure_running()`: if the ticker's thread does not start (`StartFails`), the
constructor raises and the `Store` stays open, as `why` records. So does it
after an interrupt between the return of `create_runtime()` and the `try`, after
the `try`, or on the way into `Store.close()` (`InterruptUnguarded`). A runtime
whose `Store` was left open is not built again, which stands for the object
that nobody can reach any more.

### Builtins

A thread is a stack of frames, one for each call in progress; application code
runs when the stack is empty or its top is a builtin. `got` is the registry
snapshot a frame has taken, `since` the oldest callable per name that it may
still use. `register` and `unregister` copy and publish in two steps under the
lock; a registration of what is not callable, or through a closed policy, is
refused before that and changes nothing, so it is no step of the model. The pool is a count of slots; `InstancePool` says how it works.

### Codec and BuiltinCalls

`Codec` follows one operation through its checks. A document is its kind (what
`json.dumps`, `json.loads` and OPA's parser make of it) and its size; the memory
is a sequence of NUL and other bytes, chosen when the guest is first called; the
guest answers any address of `Width` bits, which Python sees signed. The JSON
text of a terminated string is accepted or not, at will, but the empty string is
never accepted: that is what makes the unchecked NULL of `opa_eval` harmless
where the memory begins with a NUL, and only there. A `str` with a lone
surrogate has no UTF-8 encoding: both `set_data` and `encode_input` encode it
outside of their `try`, so the `UnicodeEncodeError` leaves the codec as it is
(outcome `unicodeError`; `Evaluator.evaluate` wraps it, `set_data` does not).

`BuiltinCalls` adds an operation: the guest calls a default builtin, and its
result goes through the codec. A format is the sequence of pieces into which
`_GO_VERB` cuts it. Only a bare `%%` is a percent sign without an operand: one
with flags or a width (`%5%`) takes an operand in the code and is a verb of the
kind `%v`. `%c` stands for the verbs whose conversion can raise what
`_format_verb` does not catch (`OverflowError`); all other failures fall back to
`str()`. A YAML document may hold a date, which is no JSON and fails only when
the result is encoded. Every failure is an `OpaBuiltinError`, as the dispatch
makes it one.

### Facade and EvalErrors

`Facade` takes arbitrary settings and an arbitrary module through the checks, in
the code's order; one export stands for the eight required ones, because the
code treats them alike. An export that is no function is refused by `get_func()`
as an invalid policy, one of the wrong type as an ABI error. What is checked and
never read again is forgotten.

`EvalErrors` then makes calls, one after the other. Exceptions are objects with
`__cause__` and `__context__`, created in order; `handlers` is the stack of
those the application is handling, and every new exception gets the innermost
of them as its context, as in Python. The two walks of `evaluator.py` go one
exception per step. `Reraise` is Python's `raise typed from exc`, including the
cutting of the context link that would close a cycle. The code itself makes an
error its own cause when wasmtime passes it on unwrapped; as that is an SDK
error, a walk that meets it ends there. The cycles that a walk must notice are
of exceptions of the application (`raise e from e` in `FailsItself`). How wasmtime passes on an error of a host import is open: as it
is, as the cause, or as the context of a trap.

Not everything that leaves `evaluate()` goes through its handlers or is wrapped
by them; `failure = "unwrapped"` marks the two ways around them. `BorrowBreaks`
is an error of `borrow()` that nothing wraps: a trap of `opa_heap_ptr_set` or
`opa_heap_ptr_get`, which `load_data` calls outside of its `try` or in its
handler, or the `RuntimeError` of a ticker that does not start. `FailsTwice` is
the reset of the heap in a handler of `Evaluator.evaluate`, after a refused
input or after an error of Python before the guest was entered: it is a guest
call, and its trap replaces the error.

## 3. Runs

| Run | Instance | Checks |
|---|---|---|
| `pool_safety` | 3 threads, 2 slots, 3 calls, 1 `set_data`, timeouts | `TypeOK`, `ExclusiveLoan`, `SlotsConserved`, `HeldIsLive`, `IdleHealthy`, `NoStaleDecision`, `EvaluationsBounded`, `VersionMonotonic`, `ImplementsService` |
| `pool_interrupts` | 3 threads, 1 slot, 3 calls, 1 `set_data`, 1 interrupt, no timeout, fair | `SlotsAccounted`, `InstancesAccounted`, `NoStaleDecision`, `CallsReturn` |
| `pool_leak` | 2 threads, 1 slot | `ClosedPoolIsEmpty`: **violated** |
| `pool_peak` | 2 threads, 1 slot | `LiveAtMostMaxSize`: **violated** |
| `policy` | 3 threads, 2 slots, any number of calls, 1 `set_data`, borrow timeout, fair | `TypeOK`, `ActiveCounts`, `TickerOutlivesEvals`, `EveryCallEnds`, `TickerReaped` |
| `instance` | 3 versions, heap of 6, interrupts | `TypeOK`, `DocumentSurvives`, `ScratchPastInput`, `NoHeapLeak`, `CleanAtRest` |
| `runtime` | 2 runtimes, ceilings 1, 3 and 5, needs 2 to 6 pages, fair | `TypeOK`, `RegistrySound`, `StoresAccounted`, `RetryExact`, `LockReleased` |
| `builtins` | 2 threads, 2 names, 1 slot, borrow timeout, 3 calls deep, 5 calls, fair | `RegistrationsKept`, `FreshDispatch`, `CallsEnd` |
| `codec_exact` | addresses of 4 bits, all memories of 5 and 9 bytes, chunk 3, scan 7, result 5; formats of 3 pieces, 2 operands | `ScanExact`, `WritesExact`, `StoredLoads`, `SprintfExact` |
| `calls` | 2 names, ids 0 and 1; 4 exceptions, 2 nested handlers, fair | `ReadyIsCallable`, `EntrypointDeclared`, `HostErrorSurfaces`, `OutcomeExact`, `WalkEnds` |
| `errors_stale` | 1 name; 4 exceptions, 1 handler | `OwnError`: **violated** |
| `errors_untyped` | 1 name; 4 exceptions, 1 handler | `RaisesOpaWasmError`: **violated** |

Bounds. `MaxCalls` is the number of calls of all threads together. Three calls
allow a loan in progress, a waiter and a `close()`, on two slots an instance
replaced while another is on loan and a third thread waits; on one slot, two
waiters that are woken one after the other, which is the case that needs the
chain of sentinels. One interrupt (`MaxInterrupts`) strikes at every step of every
schedule; two in one behaviour are not explored. What `pool_safety` checks is
proved for all bounds. `MaxBuilds >= MaxCalls` (an assumption of
`MCPoolRefinement` and `PoolInterrupts`) makes the bound on instances vacuous,
as a call builds at most one. Three versions let an instance
be two versions behind. A heap of six cells and sizes 1 and 2 let a document,
an input and scratch fit in several ways and also run out of memory.
`MaxVersion` is the only bound of `Policy`.

Runtimes are built and closed without end, but for those whose `Store` was left
open; two are enough to collide, and the
registry has an entry for each. The ceilings are below the default (refused) or
no power of two, and met by a need exactly and passed by one. One slot and two
threads whose builtins evaluate their own policy make the inner calls wait for
a slot that their own caller holds. A memory of nine bytes holds two full
chunks of three and a budget that ends inside the third. Three pieces
(`MaxPieces`) hold two verbs with a `%%` or text before, between or after them,
and `MaxOperands` of two gives too few, enough and too many operands. Four
exceptions (`MaxExns`) are two of earlier calls or of the application, a host
error and the trap around it; two handlers (`MaxHandlers`) nest. Calls inside
except blocks are explored for one configuration (`Nests`), as the settings
other than these have no part in the choice of an error.

Deadlock is checked in every run. `Finished` (all calls made and returned, the
operation over, no policy to call, every `Store` left open), `Retired` (instance poisoned) and `Hung`
(waiters that an interrupt has left without a wake-up) are the only stops.

Symmetry under permutation of the threads is used in runs of the pool without
liveness only.

Fairness. `PoolInterrupts!FairSpecAll` and `Policy!FairSpec` are weakly fair for the
steps of a thread inside a call: Python runs every runnable thread again and
again, and neither model holds a lock across a blocking step except
`_close_lock`, whose holder is itself fair. No interrupt is owed. In the pool an evaluation is taken to
end, which `Policy` justifies for policies with a timeout (`EveryCallEnds`); in
`Policy` the guest is owed nothing, and the ticker thread is fair because its
wait always ends. Entering a call, `set_data` and a caller's `discard` are never
owed. `Policy` has no bound on calls, so a waiter may be overtaken for ever; its
borrow timeout, which is a step of the waiter, is what ends the wait. In
`PoolInterrupts` there is no timeout and calls are bounded. `EvalErrors` is
fair only for the steps of the walks, which run without waiting.
`Runtime!FairSpec` is weakly fair for the steps of each runtime. A Python lock
is not fair, so no runtime is claimed to get it; `LockReleased` says only that
it is free again and again. `Builtins!FairSpec` is weakly fair for the steps of
a thread inside a call, the return of a user's callable included:
`docs/thread_safety.md` asks callables to be bounded.

### What the violations show

* `pool_leak`: `_release()` reads the closed event, `close()` sets it, drains
  and posts its sentinel, and then `_put_slot(instance)` parks a healthy, open
  instance in the closed pool. `close()` documents that `_release` drops it.
* `pool_peak`: the placeholder of a discarded instance is back in the queue
  before its `Store` is closed, so a waiter may build the replacement first;
  `max_size` is documented as the maximum number of live instances. What holds
  is `InstancesAccounted`: one more for every thread that is just closing one.
* `errors_stale`: `evaluate()` called inside `except OpaPoolTimeoutError:` (a
  fallback policy, a retry), with a guest that traps. The trap's `__context__`
  is the exception being handled, `_find_typed_in_chain` takes it for an error
  of a host builtin, and the caller gets the old `OpaPoolTimeoutError` again
  instead of an `OpaEvaluationError`. What holds in every context is
  `HostErrorSurfaces`, and outside of except blocks `OutcomeExact`.
* `errors_untyped`: `errors.py` and `docs/api.md` say that every error is an
  `OpaWasmError`. The traps and the `RuntimeError` of `BorrowBreaks` and
  `FailsTwice` are not. What holds is `OutcomeExact`: outside of except blocks
  these are the only ones, and every other failure has the right class.

Two passing runs state an exception where the code or its documents promise more:

* `StoresAccounted` (`runtime`): "a partially-built instance never leaks" its
  `Store` to the garbage collector, says `instance.py`. It does when
  `ensure_running()`, which comes after the `try`, cannot start the ticker's
  thread. The property says that this, and an interrupt where no handler closes
  the `Store`, are the only ways.
* `StoredLoads` (`codec_exact`): `set_data` validates text with `json.loads`,
  which takes `NaN` and `Infinity`. Such a document is stored, and then no
  instance can load it. The codec's checks agree with those of `set_data`; it is
  the guest's parser that refuses. The property says that this is the only kind
  of stored document that is not JSON.

More observations, from the passing runs and their limits:

* A `KeyboardInterrupt` in the middle of an evaluation skips both the disarming
  and the poisoning, so an idle instance may carry an armed deadline. `instance`
  shows that this costs at most a spurious failure: the document of a later
  evaluation is still right, and one that completes leaves the instance clean.
* `ScanExact` has the string refused when there is no NUL within the scan
  budget. The budget counts the NUL, and by default it equals
  `max_result_bytes`, so a result of exactly that size is refused.
* `CallsEnd` needs the borrow timeout: with `MayTimeout = FALSE` the `builtins`
  run ends in a deadlock of evaluations that wait for the slots of their own
  callers.
* `TickerReaped` holds only if callers pause: `_enter_eval` counts a call before
  it is refused, so overlapping calls on a closed policy keep its ticker alive.
* A lost slot is lost for ever (`SlotsAccounted`), and after an interrupted
  `close()` waiters without a timeout hang, since the closed event makes every
  later `close()` return at once (`CallsReturn`).
* A timeout is recognised by the words "interrupt" or "epoch" in any exception
  of the chain, so an ordinary trap under a handler whose exception has them is
  reported as a timeout.
* Outside of `evaluate()`, `PolicyConfig` raises `ValueError`, and `set_data` of
  a `str` with a lone surrogate `UnicodeEncodeError`.
* A failed `Thread.start()` in `ensure_running` also makes the cleanup's `join`
  raise `RuntimeError`.
* A deadline of n ticks is met at the n-th tick after the arming, the first of
  which may come at once; the rounding up in `deadline_ticks` does not make the
  deadline "never shorter than requested". The models count in ticks.

## 4. Proofs

Every safety property of the passing runs is a theorem, for every value of the
constants: any finite set of threads, any pool size, any number of calls,
interrupts and exceptions, any memory, width of an address, format and size
limit. The only hypotheses are the named assumptions on the constants
(`PoolAssumption`, `InterruptAssumption`, `PolicyAssumption`,
`InstanceAssumption`, `RuntimeAssumption`, `BuiltinsAssumption`,
`CodecAssumption`, `BuiltinCallsAssumption`, `FacadeAssumption`,
`EvalErrorsAssumption`), which say that a size is a number, that a limit is not
zero where the code rejects zero, and that marker values are no ordinary
values. Each proof has one inductive invariant, a conjunction of named parts;
all of them were checked with TLC on small instances first. There is
one lemma per action or per part, and in it one step per part or per action.

`InstancePoolProofs`. The invariants of the runs are not inductive. `Core` adds
what a thread holds at each step (`SlotShape`: an instance at `check`, nothing
at `construct`, an instance or nothing at `putNone`), that no tag runs ahead of
the policy (`TagsBehind`), that poisoned instances are out of circulation
(`Quarantined`), and how snapshots are ordered (`SnapshotsFresh`: a thread about
to reload has a snapshot no older than its call and newer than the tag it
overwrites; this is where it matters that the snapshot is read after the slot is
drawn). `Inv` adds `TagsHonest`: an instance that is not poisoned holds the
document of its tag. From `Inv`: `TypeCorrect`, `LoansExclusive`,
`NoUseAfterClose`, `IdleAreHealthy`, `DecisionsFresh` and `TagsMonotonic`.
`OpenInv` adds, for an open pool, that no sentinel is about; then a put always
finds room, which gives `NoSlotLost`. Refinement: `PoolImplementsService`
maps each action to one step of the service or to none. The grant needs a free
lease, which follows from `NoSlotLost`: a thread with a drawn slot is one of the
holders that, with the idle slots, make up `MaxSize`. `EvaluationsAreBounded`
follows for the closed pool too, as only an open service grants.

`PoolInterruptsProofs`. `Core` survives interrupts and `TagsHonest` does not: a
reload that is cut short leaves any document in an instance that is not
poisoned. What holds instead is `TagsHonestOrBehind`, because the tag is written
last: the document is that of the tag, or the tag is behind the policy and the
next check reloads. With `LoansHonest` this gives `InterruptedDecisionsFresh`.
`SlotLossAccounted` is the argument of `NoSlotLost` with the lost slots counted.
`InstanceLossAccounted` needs two accounts of an open pool, since neither
inequality is inductive: every instance built is in a place, counted as replaced
or forgotten (`BuiltAccounted`), and every open `Store` is forgotten or has a
place in the queue or in the hands of a thread (`AliveAccounted`); as each place
is a slot, the bounds follow (`OpenBounds`). After `close()` the accounts no
longer balance, as the drain empties the queue, so the bounds are carried on by
themselves, with room for the threads that had set out to build before
(`BuiltBounded`, `AliveBounded`). All of it rests on `LeakedApart`: no one refers
to a forgotten instance.

`PolicyProofs`. `TickerGuards`: while an evaluation is in the guest the ticker
runs and has not been told to stop. The strengthening says that shutdown goes
in order (`ShutFirst`: the pool is shut before the flag, the decision or the
stop), that a thread on its way to stop the ticker has seen the exact count at
zero and nobody can be granted after that (`Drained`, with `ActiveCounts`),
that one thread constructs the policy (`Construction`), and that the ticker
runs from the probe on (`TickerOn`).

`PolicyInstanceProofs`. What keeps a torn document from being read is the order
of versions (`TagBehind`): a load has a tag behind its snapshot until its last
step, so an interrupt at any point leaves a tag that the next loan will not
accept. `DocumentWhole` says when the document is nevertheless known to be
there, `HeapAt` where the heap pointer stands at each guest call, `Disarmed`
when a deadline may still be armed. From these: `InstanceTypeOK`,
`DocumentPreserved`, `ScratchIsPastInput`, `HeapDoesNotLeak`,
`InstanceCleanAtRest`, for every heap and every set of sizes.

`RuntimeProofs`. `RegistrySound` needs that the lock is held exactly in the
`with` blocks (`LockHolder`), so that what was read of the free list is still
its value when it is written (`ReadIsCurrent`), and that only open `Store`s
have entries (`OpenStores`, which also says of every step of constructor and
`close()` whether the `Store` is open and, at rest, why). `RetryExact` needs that the size tried before the
current one was too small (`Doubling`). From these: `TypeCorrect`,
`RegistryNeverCorrupted`, `StoresAreAccounted` and `RetryFindsSize`, for any number of
runtimes, entries, ceilings and needs.

`BuiltinsProofs`. `NoRegistrationLost` needs that the lock is held from the copy
of the dict to its publication and that the copy is still current
(`LockCoversCopy`). `DispatchIsFresh` is about every frame of every stack, those
of suspended evaluations too: `FramesSound` relates what each has read and must
use to what is registered, and `CallersInBuiltin` says that all frames but the
last are inside a builtin, so that a return finds what the call left.

`BuiltinCallsProofs`. Loop invariants: in `read_cstring()` what was collected
lies between `addr` and `pos` and has no NUL in it (`Scanning`), in `_sprintf()`
a prefix of the format is converted with one operand per verb (`FormatLoop`).
That the scan finds the least length is shown by taking a least counterexample,
as the induction theorems of the library cannot be instantiated. From these
`ScanIsExact`, `WritesAreExact`, `StoredDocumentsLoad` and `SprintfIsExact`.

`EvalErrorsProofs`. `Checked` lists what each check of the construction has
established when the next begins, which gives `ReadyPolicyIsCallable` and
`EntrypointIsDeclared`. For the walks along exceptions `Linked` says that no
reference dangles although a caller drops exceptions when it leaves its except
blocks, `TowardsHost` where the first walk stands with respect to the host's
error, `Alone` that outside of except blocks a failure of the guest leads
nowhere else. From these `HostErrorIsRaised` and `OutcomeIsExact`; the latter
also needs that the names of the SDK's errors and of the other failures are
disjoint (`FailureNames`).

The theorems about `PoolInterrupts` and `EvalErrors` are stated of
specifications with fairness; the proofs do not use it.

A caution about the prover: its SMT encoding takes `Len(x)` to be a natural
number for every `x`, also where `x` is not known to be a sequence, so a leaf may
go through without the type fact it rests on. The inductive invariants
say of the queue, the stacks, the memory, the exceptions and the handlers that
they are sequences, and of a format and its operands while the loop runs.

Only model-checked: the liveness properties (`CallsReturn`, `EveryCallEnds`,
`TickerReaped`, `LockReleased`, `CallsEnd`, `WalkEnds`), since fairness and
`ENABLED` are out of the prover's reach. The violations of section 3 are
counterexamples of TLC.

## 5. Not modelled

* How a verb of `sprintf` renders an operand: string formatting.
* What wasmtime does in compilation and linking; the text of diagnostics read
  for `opa_abort` and `opa_println`.
* The conversion of a timeout to ticks (`deadline_ticks`) and the length of a
  tick: `Deadline` is a number of ticks.
* The capability flags of `OpaAbi` that nothing reads; logging; type aliases.
* Asynchronous exceptions inside `Store.close()`, and in the middle of a single
  step of `queue.Queue`.
* wasmtime, the OPA guest and CPython: only deadline, heap and exception links
  as the library uses them.
* `scripts/build_fixtures.py`, which compiles the test policies.

## 6. Plan

Done: the pool, its abstract specification and refinement, and its behaviour
under interrupts; the facade with the ticker under endless traffic; the
instance; the runtime; builtins and the default ones; codec; settings, checks
and errors; proofs of all their safety properties. To come, in this order:

1. The safety half of the liveness properties: for each walk, scan, retry and
   drain a measure that every step of the loop decreases, as an action property
   that can be proved (`WalkEnds`, `LockReleased`).
2. `PoolInterrupts` against `DecisionService`: an interrupted call is one that
   the service refuses or that gives its lease back; what a lost slot means there.
3. `Runtime` and `InstancePool` composed, so that a close of the pool is shown to
   leave the registry as it found it but for the `Store`s that `pool_leak` is
   about.
