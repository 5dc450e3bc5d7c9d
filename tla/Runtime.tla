------------------------------ MODULE Runtime ------------------------------
(***************************************************************************)
(* Construction and closing of WasmtimeRuntime objects                     *)
(* (opapywasm/runtime.py), of any policy of the process, and the part of   *)
(* OpaPolicyInstance.__init__ that wires one up.                           *)
(*                                                                         *)
(* A Store registers its host callbacks in a free list that the wasmtime   *)
(* package shares between all Stores and does not lock, so an update of it *)
(* is two steps here: read the list, write it.  _NATIVE_LIFECYCLE_LOCK has *)
(* to make the pair atomic on every path: the retry loop that doubles the  *)
(* initial memory, its failed attempts, the outer handler, and close().    *)
(*                                                                         *)
(* Operations on one runtime never overlap (a runtime belongs to one loan, *)
(* see ExclusiveLoan in InstancePool), so pc is kept per runtime.          *)
(***************************************************************************)
EXTENDS Naturals

CONSTANTS
    Runtimes,    \* runtimes built, closed and built again
    Nobody,      \* the lock's holder when it is free
    Slots,       \* entries of the callback registry, one per Store
    Caps,        \* values of max_memory_pages
    NoCap,       \* max_memory_pages = None
    MaxPages,    \* _MAX_INSTANTIATION_MEMORY_PAGES
    Needs        \* bound: pages that the data segments of a module fill

DefaultPages == 2   \* _DEFAULT_MEMORY_PAGES

ASSUME RuntimeAssumption ==
    /\ Nobody \notin Runtimes
    /\ Caps \subseteq Nat /\ NoCap \notin Nat
    /\ MaxPages \in Nat /\ MaxPages >= DefaultPages
    /\ Needs \subseteq Nat

VARIABLES
    lock,    \* holder of _NATIVE_LIFECYCLE_LOCK
    free,    \* the registry's free list
    pc,      \* runtime -> where its constructor or its close() is
    store,   \* runtime -> _store: "absent", "open" or "closed"
    held,    \* runtime -> registry entries of its open Store
    seen,    \* runtime -> the free list as last read
    cap,     \* runtime -> max_memory_pages
    need,    \* runtime -> pages its module needs
    pages,   \* runtime -> initial_pages
    why      \* runtime -> why it is being closed, or was left open

natives == <<free, held, seen, store>>
sizes   == <<cap, need, pages>>
vars    == <<lock, natives, pc, sizes, why>>

Reasons   == {"none", "overflow", "error", "interrupt", "ticker", "close"}
LoopPcs   == {"store", "register", "instantiate", "except", "finalise"}
LockedPcs == LoopPcs \cup {"close", "closeFin"}
WiringPcs == {"built", "wiring", "wired"}
Pcs       == LockedPcs \cup WiringPcs \cup {"idle", "want", "ready", "closing"}

\* instantiation_ceiling
Ceiling(r) == IF cap[r] = NoCap THEN MaxPages ELSE cap[r]

Init ==
    /\ lock = Nobody /\ free = Slots
    /\ pc = [r \in Runtimes |-> "idle"]
    /\ store = [r \in Runtimes |-> "absent"]
    /\ held = [r \in Runtimes |-> {}]
    /\ seen = [r \in Runtimes |-> {}]
    /\ cap = [r \in Runtimes |-> NoCap]
    /\ need = [r \in Runtimes |-> 0]
    /\ pages = [r \in Runtimes |-> DefaultPages]
    /\ why = [r \in Runtimes |-> "none"]

Goto(r, from, to) == pc[r] = from /\ pc' = [pc EXCEPT ![r] = to]
Acquire(r) == lock = Nobody /\ lock' = r
Unlock     == lock' = Nobody

\* The locals of a constructor end with it or with the runtime's close().
Forget(r, reason) ==
    /\ cap' = [cap EXCEPT ![r] = NoCap]
    /\ need' = [need EXCEPT ![r] = 0]
    /\ pages' = [pages EXCEPT ![r] = DefaultPages]
    /\ why' = [why EXCEPT ![r] = reason]

-----------------------------------------------------------------------------
(* WasmtimeRuntime.__init__                                                *)

\* A cap below the two default pages is refused before a Store exists;
\* such a call changes nothing.  A runtime whose Store was left open is not
\* built again.
Construct(r, c, n) ==
    /\ c # NoCap => c >= DefaultPages
    /\ store[r] # "open"
    /\ Goto(r, "idle", "want")
    /\ cap' = [cap EXCEPT ![r] = c]
    /\ need' = [need EXCEPT ![r] = n]
    /\ pages' = [pages EXCEPT ![r] = DefaultPages]
    /\ store' = [store EXCEPT ![r] = "absent"]
    /\ why' = [why EXCEPT ![r] = "none"]
    /\ UNCHANGED <<lock, free, held, seen>>

TakeLock(r) ==
    /\ Goto(r, "want", "store")
    /\ Acquire(r)
    /\ UNCHANGED <<natives, sizes, why>>

\* A new Store takes the place of the last attempt's in self._store.  It
\* begins to register its callbacks.
OpenStore(r) ==
    /\ Goto(r, "store", "register")
    /\ store' = [store EXCEPT ![r] = "open"]
    /\ held' = [held EXCEPT ![r] = {}]
    /\ seen' = [seen EXCEPT ![r] = free]
    /\ UNCHANGED <<lock, free, sizes, why>>

Register(r) ==
    /\ Goto(r, "register", "instantiate")
    /\ \E s \in seen[r] :
         /\ held' = [held EXCEPT ![r] = {s}]
         /\ free' = seen[r] \ {s}
    /\ seen' = [seen EXCEPT ![r] = {}]
    /\ UNCHANGED <<lock, store, sizes, why>>

\* The active data segments fit: the loop is left, and the lock with it.
Instantiates(r) ==
    /\ need[r] <= pages[r]
    /\ Goto(r, "instantiate", "built")
    /\ Unlock
    /\ UNCHANGED <<natives, sizes, why>>

\* A WasmtimeError or a Trap: the trap for segments that do not fit, or
\* any other failure.
InstantiateFails(r) ==
    /\ Goto(r, "instantiate", "except")
    /\ \/ need[r] > pages[r] /\ why' = [why EXCEPT ![r] = "overflow"]
       \/ why' = [why EXCEPT ![r] = "error"]
    /\ UNCHANGED <<lock, natives, sizes>>

\* The attempt's Store is closed, which unregisters its callbacks.
CloseAttempt(r) ==
    /\ Goto(r, "except", "finalise")
    /\ seen' = [seen EXCEPT ![r] = free]
    /\ UNCHANGED <<lock, free, held, store, sizes, why>>

Finalise(r) ==
    /\ free' = seen[r] \cup held[r]
    /\ held' = [held EXCEPT ![r] = {}]
    /\ seen' = [seen EXCEPT ![r] = {}]
    /\ store' = [store EXCEPT ![r] = "closed"]

\* The test of initial_pages that ends the loop.
ExhaustedEarly(r) == 2 * pages[r] > Ceiling(r)  \* mutant: skips the ceiling
ExhaustedLate(r)  == pages[r] > Ceiling(r)      \* mutant: > for >=
Exhausted(r)      == pages[r] >= Ceiling(r)

\* Not an overflow, or nothing left to try: the error leaves the with block,
\* which frees the lock, and meets the outer handler.
GiveUp(r) ==
    /\ why[r] = "error" \/ Exhausted(r)
    /\ Goto(r, "finalise", "closing")
    /\ Finalise(r)
    /\ Unlock
    /\ UNCHANGED <<sizes, why>>

GrowUncapped(r) == 2 * pages[r]   \* mutant: without the min
Grow(r) ==
    IF 2 * pages[r] < Ceiling(r) THEN 2 * pages[r] ELSE Ceiling(r)

\* The next attempt, with twice the memory, under the same hold of the lock.
Retry(r) ==
    /\ why[r] = "overflow" /\ ~Exhausted(r)
    /\ Goto(r, "finalise", "store")
    /\ Finalise(r)
    /\ pages' = [pages EXCEPT ![r] = Grow(r)]
    /\ why' = [why EXCEPT ![r] = "none"]
    /\ UNCHANGED <<lock, cap, need>>

\* A BaseException, or an error of the Store constructor, passes the inner
\* handler; leaving the with block frees the lock if it was held.
Interrupt(r) ==
    /\ pc[r] \in {"want", "store", "register", "instantiate", "except", "built"}
    /\ pc' = [pc EXCEPT ![r] = "closing"]
    /\ why' = [why EXCEPT ![r] = "interrupt"]
    /\ lock' = IF lock = r THEN Nobody ELSE lock
    /\ seen' = [seen EXCEPT ![r] = {}]
    /\ UNCHANGED <<free, held, store, sizes>>

-----------------------------------------------------------------------------
(* OpaPolicyInstance.__init__ after the runtime exists                     *)

\* create_runtime() has returned and the try is entered.
EnterTry(r) ==
    /\ Goto(r, "built", "wiring")
    /\ UNCHANGED <<lock, natives, sizes, why>>

\* The try block succeeds.
Wire(r) ==
    /\ Goto(r, "wiring", "wired")
    /\ UNCHANGED <<lock, natives, sizes, why>>

WireLeaks(r) ==   \* mutant: the error leaves without closing the runtime
    /\ Goto(r, "wiring", "idle")
    /\ Forget(r, "none")
    /\ UNCHANGED <<lock, natives>>

\* ABI validation, metadata or the first load of data fails, or is
\* interrupted: the handler closes the runtime.
WireFails(r) ==
    /\ Goto(r, "wiring", "closing")
    /\ why' = [why EXCEPT ![r] = "error"]
    /\ UNCHANGED <<lock, natives, sizes>>

\* After the try: ensure_running(), where the policy has a timeout ...
Start(r) ==
    /\ Goto(r, "wired", "ready")
    /\ UNCHANGED <<lock, natives, sizes, why>>

\* ... which raises if the ticker's thread cannot be started.  The half-made
\* instance goes, and nobody is left to close its Store.
StartFails(r) ==
    /\ Goto(r, "wired", "idle")
    /\ Forget(r, "ticker")
    /\ UNCHANGED <<lock, natives>>

-----------------------------------------------------------------------------
(* WasmtimeRuntime.close, called by the owner or by the outer handler      *)

Close(r) ==
    /\ Goto(r, "ready", "closing")
    /\ why' = [why EXCEPT ![r] = "close"]
    /\ UNCHANGED <<lock, natives, sizes>>

CloseTakesLock(r) ==
    /\ Goto(r, "closing", "close")
    /\ Acquire(r)
    /\ UNCHANGED <<natives, sizes, why>>

CloseUnlocks(r) ==   \* mutant: the lock is free while the Store finalises
    /\ store[r] = "open"
    /\ Goto(r, "close", "closeFin")
    /\ seen' = [seen EXCEPT ![r] = free]
    /\ Unlock
    /\ UNCHANGED <<free, held, store, sizes, why>>

\* Store.close() begins to unregister the callbacks ...
CloseStore(r) ==
    /\ store[r] = "open"
    /\ Goto(r, "close", "closeFin")
    /\ seen' = [seen EXCEPT ![r] = free]
    /\ UNCHANGED <<lock, free, held, store, sizes, why>>

\* ... or does nothing: the loop has closed this Store, or the interrupt
\* came before there was one and the AttributeError is swallowed.
CloseNothing(r) ==
    /\ store[r] # "open"
    /\ Goto(r, "close", "idle")
    /\ Unlock
    /\ Forget(r, "none")
    /\ UNCHANGED natives

CloseFinalise(r) ==
    /\ Goto(r, "closeFin", "idle")
    /\ Finalise(r)
    /\ Unlock
    /\ Forget(r, "none")

\* A BaseException where nothing closes the Store: before the try of
\* OpaPolicyInstance.__init__, after it, or in close() itself.
InterruptUnguarded(r) ==
    /\ pc[r] \in {"built", "wired", "closing", "close"}
    /\ pc' = [pc EXCEPT ![r] = "idle"]
    /\ lock' = IF lock = r THEN Nobody ELSE lock
    /\ Forget(r, IF store[r] = "open" THEN "interrupt" ELSE "none")
    /\ UNCHANGED natives

-----------------------------------------------------------------------------
\* What runs on without the application's doing.
Step(r) ==
    \/ TakeLock(r) \/ OpenStore(r) \/ Register(r)
    \/ Instantiates(r) \/ InstantiateFails(r)
    \/ CloseAttempt(r) \/ GiveUp(r) \/ Retry(r)
    \/ EnterTry(r) \/ Wire(r) \/ WireFails(r) \/ Start(r) \/ StartFails(r)
    \/ CloseTakesLock(r) \/ CloseStore(r) \/ CloseNothing(r) \/ CloseFinalise(r)

\* The Stores of all the runtimes that the bound allows were left open.
Finished == (\A r \in Runtimes : pc[r] = "idle" /\ store[r] = "open") /\ UNCHANGED vars

Next ==
    \/ \E r \in Runtimes :
         \/ \E c \in Caps \cup {NoCap}, n \in Needs : Construct(r, c, n)
         \/ Step(r)
         \/ Interrupt(r) \/ InterruptUnguarded(r)
         \/ Close(r)
    \/ Finished

Spec == Init /\ [][Next]_vars

FairSpec == Spec /\ \A r \in Runtimes : WF_vars(Step(r))

-----------------------------------------------------------------------------
\* The state stays in its ranges; in particular a Memory is never asked for
\* with more initial pages than its maximum.
TypeOK ==
    /\ lock \in Runtimes \cup {Nobody}
    /\ free \subseteq Slots
    /\ pc \in [Runtimes -> Pcs]
    /\ store \in [Runtimes -> {"absent", "open", "closed"}]
    /\ held \in [Runtimes -> SUBSET Slots]
    /\ seen \in [Runtimes -> SUBSET Slots]
    /\ cap \in [Runtimes -> Caps \cup {NoCap}]
    /\ need \in [Runtimes -> Needs \cup {0}]
    /\ pages \in [Runtimes -> Nat]
    /\ \A r \in Runtimes : pages[r] \in DefaultPages..Ceiling(r)
    /\ why \in [Runtimes -> Reasons]

\* The process-wide callback registry (_NATIVE_LIFECYCLE_LOCK, runtime.py) is
\* never corrupted: no two Stores share an entry, no entry of an open Store is
\* on the free list, and none is lost, whichever attempts fail and whoever
\* builds or closes at the same time.
RegistrySound ==
    /\ \A r \in Runtimes : held[r] \cap free = {}
    /\ \A r, q \in Runtimes : r # q => held[r] \cap held[q] = {}
    /\ free \cup UNION {held[r] : r \in Runtimes} = Slots

\* When a constructor has raised or close() has returned, the Stores of all
\* attempts are closed and their callbacks unregistered, so that nothing is
\* left to the garbage collector, which does not take the lock.  There are two
\* exceptions, and after them the Store is open: the ticker's thread did not
\* start, for ensure_running() is called outside the try (instance.py), and an
\* interrupt that came where no handler closes the Store.
StoresAccounted ==
    \A r \in Runtimes :
        pc[r] = "idle" =>
            /\ store[r] = "open" <=> why[r] \in {"ticker", "interrupt"}
            /\ store[r] # "open" => held[r] = {}

\* The doubling of initial_pages: a runtime that is built has enough pages, no
\* more than its ceiling, and less than twice the need unless the default
\* suffices; one that is refused for its memory would not fit the ceiling.
RetryExact ==
    \A r \in Runtimes :
        /\ pc[r] \in WiringPcs \cup {"ready"} =>
             /\ need[r] <= pages[r] /\ pages[r] <= Ceiling(r)
             /\ pages[r] = DefaultPages \/ pages[r] < 2 * need[r]
        /\ pc[r] = "closing" /\ why[r] = "overflow" => need[r] > Ceiling(r)

\* The lock is free again and again: the retry loop ends for every ceiling,
\* and no path waits for the lock while it holds it.
LockReleased == []<>(lock = Nobody)
=============================================================================
