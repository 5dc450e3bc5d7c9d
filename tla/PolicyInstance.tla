--------------------------- MODULE PolicyInstance ---------------------------
(***************************************************************************)
(* One OpaPolicyInstance (opapywasm/instance.py) with its DataManager      *)
(* (data.py), Evaluator (evaluator.py) and epoch deadline (runtime.py),    *)
(* used by one borrower after another: refreshed when its version tag is   *)
(* behind, then evaluated.  Every guest call is a step and may fail; the   *)
(* ticker may expire the armed deadline, and a BaseException such as       *)
(* KeyboardInterrupt may arrive, between any two.                          *)
(*                                                                         *)
(* The guest heap is a bump allocator (external: the OPA module).  Of its  *)
(* contents the model keeps where the document ends and which document is  *)
(* readable at data_addr.                                                  *)
(***************************************************************************)
EXTENDS Naturals

CONSTANTS
    Sizes,       \* sizes of documents, inputs and evaluation scratch
    MaxHeap,     \* end of the guest memory
    Deadline,    \* deadline_ticks: the budget armed for an evaluation
    MaxVersion   \* bound: set_data() calls

ASSUME InstanceAssumption ==
    /\ Sizes \subseteq Nat \ {0}
    /\ MaxHeap \in Nat \ {0} /\ Deadline \in Nat \ {0}
    /\ MaxVersion \in Nat

InitialHeapPtr == 1
NoDeadline == Deadline + 1   \* _NO_DEADLINE_TICKS: never expires
NoDataAddr == 0              \* _NO_DATA_ADDR
Garbage == MaxVersion + 1    \* no document, or a part of one, is readable

VARIABLES
    version,      \* the policy's data version
    dataVersion,  \* _data_version: the tag of this instance
    poisoned,     \* _poisoned
    enteredWasm,  \* _entered_wasm
    deadline,     \* ticks to the store's epoch deadline
    heapPtr,      \* the guest's heap pointer
    dataAddr,     \* _data_addr
    dataHeapPtr,  \* _data_heap_ptr: the checkpoint
    doc,          \* the document (its version) readable at data_addr
    docEnd,       \* end of the memory it occupies
    inputAddr,    \* where the input of this evaluation was written
    evalHeap,     \* the heap_ptr argument of opa_eval
    snap,         \* the snapshot being loaded
    torn,         \* history: interrupted since it last completed a call
    pc            \* where the borrower is

dataVars == <<dataAddr, dataHeapPtr, doc, docEnd>>
evalVars == <<inputAddr, evalHeap>>
vars == <<version, dataVersion, poisoned, enteredWasm, deadline, heapPtr,
          dataVars, evalVars, snap, torn, pc>>

LoadPcs == {"loadReset", "parse", "checkpoint", "tag"}
GuestPcs == {"reset", "write", "ptrGet", "eval", "read", "restore"}

\* As __init__ leaves it: version 0 is no document.
Init ==
    /\ version = 0 /\ dataVersion = 0
    /\ poisoned = FALSE /\ enteredWasm = FALSE
    /\ deadline = NoDeadline
    /\ heapPtr = InitialHeapPtr
    /\ dataAddr = NoDataAddr /\ dataHeapPtr = InitialHeapPtr
    /\ doc = 0 /\ docEnd = InitialHeapPtr
    /\ inputAddr = 0 /\ evalHeap = 0
    /\ snap = 0 /\ torn = FALSE
    /\ pc = "idle"

Goto(from, to) == pc = from /\ pc' = to

\* A guest call goes through only before the store's deadline.
GuestCall == deadline > 0

\* Mutant: an allocation may end past the memory.
WritesUnchecked(a, n) ==
    doc' = IF doc # Garbage /\ a < docEnd THEN Garbage ELSE doc

\* Something of size n is written at address a; below the end of the document
\* it destroys the document.
Writes(a, n) ==
    /\ a + n <= MaxHeap
    /\ doc' = IF doc # Garbage /\ a < docEnd THEN Garbage ELSE doc

-----------------------------------------------------------------------------
(* The environment *)

\* set_data() in another thread.
SetData ==
    /\ version < MaxVersion
    /\ version' = version + 1
    /\ UNCHANGED <<dataVersion, poisoned, enteredWasm, deadline, heapPtr,
                   dataVars, evalVars, snap, pc, torn>>

\* The ticker advances the epoch; a far-future deadline is never reached.
Tick ==
    /\ deadline \in 1..Deadline
    /\ deadline' = deadline - 1
    /\ UNCHANGED <<version, dataVersion, poisoned, enteredWasm, heapPtr,
                   dataVars, evalVars, snap, pc, torn>>

-----------------------------------------------------------------------------
(* The borrower: _refresh_if_stale, then evaluate *)

\* Mutant: the tag is bumped before the document is loaded.
LendTagged ==
    /\ ~poisoned
    /\ snap' = version
    /\ dataVersion' = version
    /\ Goto("idle", IF dataVersion # version THEN "loadReset" ELSE "encode")
    /\ UNCHANGED <<version, poisoned, enteredWasm, deadline, heapPtr,
                   dataVars, evalVars, torn>>

\* A poisoned instance is not lent; any other is refreshed if its tag is behind.
Lend ==
    /\ ~poisoned
    /\ snap' = version
    /\ Goto("idle", IF dataVersion # version THEN "loadReset" ELSE "encode")
    /\ UNCHANGED <<version, dataVersion, poisoned, enteredWasm, deadline,
                   heapPtr, dataVars, evalVars, torn>>

\* load_data(): drop the old document; data_addr still points at it.
LoadReset ==
    /\ GuestCall
    /\ Goto("loadReset", "parse")
    /\ heapPtr' = InitialHeapPtr
    /\ UNCHANGED <<version, dataVersion, poisoned, enteredWasm, deadline,
                   dataVars, evalVars, snap, torn>>

\* load_data(): the snapshot is "no data".
LoadNone ==
    /\ Goto("parse", "tag")
    /\ dataAddr' = NoDataAddr /\ dataHeapPtr' = InitialHeapPtr
    /\ doc' = snap /\ docEnd' = InitialHeapPtr
    /\ UNCHANGED <<version, dataVersion, poisoned, enteredWasm, deadline,
                   heapPtr, evalVars, snap, torn>>

\* load_data(): write and parse the document at the heap pointer.
LoadParse(n) ==
    /\ GuestCall
    /\ heapPtr + n <= MaxHeap
    /\ Goto("parse", "checkpoint")
    /\ dataAddr' = heapPtr
    /\ doc' = snap /\ docEnd' = heapPtr + n
    /\ heapPtr' = heapPtr + n
    /\ UNCHANGED <<version, dataVersion, poisoned, enteredWasm, deadline,
                   dataHeapPtr, evalVars, snap, torn>>

\* load_data(): the per-evaluation checkpoint lies past the document.
LoadCheckpoint ==
    /\ GuestCall
    /\ Goto("checkpoint", "tag")
    /\ dataHeapPtr' = heapPtr
    /\ UNCHANGED <<version, dataVersion, poisoned, enteredWasm, deadline,
                   heapPtr, dataAddr, doc, docEnd, evalVars, snap, torn>>

\* reload_data(): the tag is bumped only now.
BumpTag ==
    /\ Goto("tag", "encode")
    /\ dataVersion' = snap
    /\ UNCHANGED <<version, poisoned, enteredWasm, deadline, heapPtr,
                   dataVars, evalVars, snap, torn>>

\* load_data() raises in one of its guest calls: no data if the parse failed,
\* unless the reset in its handler fails too; reload_data() poisons the instance.
LoadFails ==
    /\ \/ /\ pc \in {"loadReset", "parse", "checkpoint"}
          /\ UNCHANGED <<heapPtr, dataVars>>
       \/ /\ pc = "parse"
          /\ heapPtr' = InitialHeapPtr
          /\ dataAddr' = NoDataAddr /\ dataHeapPtr' = InitialHeapPtr
          /\ doc' = Garbage /\ docEnd' = InitialHeapPtr
    /\ poisoned' = TRUE
    /\ pc' = "idle"
    /\ UNCHANGED <<version, dataVersion, enteredWasm, deadline, evalVars,
                   snap, torn>>

-----------------------------------------------------------------------------
(* Evaluator.evaluate *)

\* Steps 1 and 2: the input serialises; enter the guest under a fresh deadline.
EncodeAndArm ==
    /\ Goto("encode", "reset")
    /\ enteredWasm' = TRUE
    /\ deadline' = Deadline
    /\ UNCHANGED <<version, dataVersion, poisoned, heapPtr, dataVars,
                   evalVars, snap, torn>>

\* Step 1: the input is refused; nothing of the guest was touched.
EncodeFails ==
    /\ Goto("encode", "preReset")
    /\ enteredWasm' = FALSE
    /\ UNCHANGED <<version, dataVersion, poisoned, deadline, heapPtr,
                   dataVars, evalVars, snap, torn>>

\* _reset_heap_if_safe() of an evaluation that never entered the guest.
PreReset ==
    /\ GuestCall
    /\ Goto("preReset", "idle")
    /\ heapPtr' = dataHeapPtr
    /\ UNCHANGED <<version, dataVersion, poisoned, enteredWasm, deadline,
                   dataVars, evalVars, snap, torn>>

\* That reset itself traps on a deadline left behind by an earlier call.
PreResetTraps ==
    /\ ~GuestCall
    /\ Goto("preReset", "idle")
    /\ UNCHANGED <<version, dataVersion, poisoned, enteredWasm, deadline,
                   heapPtr, dataVars, evalVars, snap, torn>>

\* Mutant: the heap is reset only at the end of an evaluation.
ResetSkipped ==
    /\ GuestCall
    /\ Goto("reset", "write")
    /\ UNCHANGED <<version, dataVersion, poisoned, enteredWasm, deadline,
                   heapPtr, dataVars, evalVars, snap, torn>>

\* Step 3: discard what an earlier evaluation may have left.
ResetHeap ==
    /\ GuestCall
    /\ Goto("reset", "write")
    /\ heapPtr' = dataHeapPtr
    /\ UNCHANGED <<version, dataVersion, poisoned, enteredWasm, deadline,
                   dataVars, evalVars, snap, torn>>

\* Step 3: allocate and write the input.
WriteInput(n) ==
    /\ GuestCall
    /\ Goto("write", "ptrGet")
    /\ Writes(heapPtr, n)
    /\ inputAddr' = heapPtr
    /\ heapPtr' = heapPtr + n
    /\ UNCHANGED <<version, dataVersion, poisoned, enteredWasm, deadline,
                   dataAddr, dataHeapPtr, docEnd, evalHeap, snap, torn>>

\* Mutant: the heap base is the one from before the input was written.
PtrBeforeInput ==
    /\ GuestCall
    /\ Goto("ptrGet", "eval")
    /\ evalHeap' = inputAddr
    /\ UNCHANGED <<version, dataVersion, poisoned, enteredWasm, deadline,
                   heapPtr, dataVars, inputAddr, snap, torn>>

\* Step 3: the heap base handed to opa_eval, read after the input.
GetHeapPtr ==
    /\ GuestCall
    /\ Goto("ptrGet", "eval")
    /\ evalHeap' = heapPtr
    /\ UNCHANGED <<version, dataVersion, poisoned, enteredWasm, deadline,
                   heapPtr, dataVars, inputAddr, snap, torn>>

\* Step 4: opa_eval allocates its scratch and result from heap_ptr on.
Eval(n) ==
    /\ GuestCall
    /\ Goto("eval", "read")
    /\ Writes(evalHeap, n)
    /\ heapPtr' = evalHeap + n
    /\ UNCHANGED <<version, dataVersion, poisoned, enteredWasm, deadline,
                   dataAddr, dataHeapPtr, docEnd, evalVars, snap, torn>>

\* Step 5: the result is read and parsed, on the host.
ReadResult ==
    /\ Goto("read", "restore")
    /\ UNCHANGED <<version, dataVersion, poisoned, enteredWasm, deadline,
                   heapPtr, dataVars, evalVars, snap, torn>>

\* Mutant: the deadline of a finished evaluation stays armed.
RestoreArmed ==
    /\ GuestCall
    /\ Goto("restore", "idle")
    /\ heapPtr' = dataHeapPtr
    /\ torn' = FALSE
    /\ UNCHANGED <<version, dataVersion, poisoned, enteredWasm, deadline,
                   dataVars, evalVars, snap>>

\* Step 6: back to the checkpoint, and disarm.
Restore ==
    /\ GuestCall
    /\ Goto("restore", "idle")
    /\ heapPtr' = dataHeapPtr
    /\ deadline' = NoDeadline
    /\ torn' = FALSE
    /\ UNCHANGED <<version, dataVersion, poisoned, enteredWasm, dataVars,
                   evalVars, snap>>

\* A guest call traps, the memory is exhausted, a builtin raises or the result
\* is refused: no reset, no disarming, and evaluate() poisons the instance.
EvalFails ==
    /\ pc \in GuestPcs
    /\ pc' = "idle"
    /\ poisoned' = enteredWasm
    /\ UNCHANGED <<version, dataVersion, enteredWasm, deadline, heapPtr,
                   dataVars, evalVars, snap, torn>>

\* A BaseException that is no Exception passes every handler of load_data(),
\* reload_data(), Evaluator.evaluate() and OpaPolicyInstance.evaluate().
\* Inside an allocating call the heap may have grown, and while a document is
\* parsed the old one may be gone.
Interrupted ==
    /\ pc \in LoadPcs \cup GuestPcs \cup {"encode", "preReset"}
    /\ pc' = "idle"
    /\ doc' \in IF pc = "parse" THEN {doc, Garbage} ELSE {doc}
    /\ heapPtr' \in IF pc \in {"parse", "write", "eval"} THEN heapPtr..MaxHeap
                   ELSE {heapPtr}
    /\ torn' = TRUE
    /\ UNCHANGED <<version, dataVersion, poisoned, enteredWasm, deadline,
                   dataAddr, dataHeapPtr, docEnd, evalVars, snap>>

\* A poisoned instance is never used again.
Retired == poisoned /\ pc = "idle" /\ UNCHANGED vars

Next ==
    \/ SetData \/ Tick \/ Lend
    \/ LoadReset \/ LoadNone \/ LoadCheckpoint \/ BumpTag \/ LoadFails
    \/ EncodeAndArm \/ EncodeFails \/ PreReset \/ PreResetTraps
    \/ ResetHeap \/ GetHeapPtr \/ ReadResult \/ Restore
    \/ \E n \in Sizes : LoadParse(n) \/ WriteInput(n) \/ Eval(n)
    \/ EvalFails \/ Interrupted \/ Retired

Spec == Init /\ [][Next]_vars

-----------------------------------------------------------------------------
(* Correctness *)

\* Ranges of the variables; the heap stays inside the guest memory.
TypeOK ==
    /\ version \in 0..MaxVersion /\ dataVersion \in 0..MaxVersion
    /\ snap \in 0..MaxVersion /\ doc \in 0..Garbage
    /\ poisoned \in BOOLEAN /\ enteredWasm \in BOOLEAN /\ torn \in BOOLEAN
    /\ deadline \in 0..NoDeadline
    /\ heapPtr \in InitialHeapPtr..MaxHeap
    /\ dataHeapPtr \in InitialHeapPtr..MaxHeap
    /\ docEnd \in InitialHeapPtr..MaxHeap
    /\ dataAddr \in 0..MaxHeap
    /\ inputAddr \in 0..MaxHeap /\ evalHeap \in 0..MaxHeap
    /\ pc \in {"idle", "encode", "preReset"} \cup LoadPcs \cup GuestPcs

\* From its first step to its last an evaluation reads the document of the
\* snapshot it was lent with: no allocation of this evaluation, of an earlier
\* or interrupted one, or of a half-done reload overwrites it.
DocumentSurvives == pc \in GuestPcs \cup {"encode"} => doc = snap

\* opa_eval gets a heap base past the input, and the input lies past the
\* document, so that its scratch can touch neither.
ScratchPastInput ==
    pc = "eval" =>
        docEnd <= inputAddr /\ inputAddr < evalHeap /\ evalHeap = heapPtr

\* Nothing accumulates: every evaluation starts right past the document, and
\* every document at the floor of the heap, whatever came before.
NoHeapLeak ==
    pc = "write" => /\ heapPtr = docEnd
                    /\ dataAddr \in {NoDataAddr, InitialHeapPtr}

\* An instance between two loans is poisoned or as good as new: no deadline
\* armed, the heap at its checkpoint, the document of its tag.  An interrupt
\* (torn) breaks this only until the next evaluation that completes.
CleanAtRest ==
    pc = "idle" /\ ~poisoned /\ ~torn =>
        deadline = NoDeadline /\ heapPtr = dataHeapPtr /\ doc = dataVersion
=============================================================================
