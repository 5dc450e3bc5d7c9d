------------------------ MODULE PolicyInstanceProofs ------------------------
(***************************************************************************)
(* What PolicyInstance promises for every memory size, document size,      *)
(* deadline and number of data versions.  The argument is about tags: a    *)
(* reload that is interrupted leaves any document in the guest, but its    *)
(* tag is then behind every version a later loan can see, so that nobody   *)
(* evaluates against it.                                                   *)
(***************************************************************************)
EXTENDS PolicyInstance, TLAPS

\* The steps of a loan once the document is up to date.
CallPcs == GuestPcs \cup {"encode", "preReset"}

\* The document the tag names is loaded: it starts at the floor of the heap, if
\* there is one, and the checkpoint lies at its end.
Loaded ==
    /\ doc = dataVersion /\ docEnd = dataHeapPtr
    /\ dataAddr \in {NoDataAddr, InitialHeapPtr}

\* Versions only grow, and the tag follows the snapshot: while a load is under
\* way it is behind, so that whatever an interrupt leaves is reloaded.
TagBehind ==
    /\ dataVersion <= version /\ snap <= version
    /\ pc \in LoadPcs => dataVersion < snap
    /\ pc \in CallPcs => dataVersion = snap

\* The document is whole during an evaluation, and at rest unless an interrupt
\* has left a tag that is behind.
DocumentWhole ==
    /\ pc \in CallPcs => Loaded
    /\ pc = "idle" /\ ~poisoned /\ (dataVersion = version \/ ~torn) => Loaded

\* Where the heap pointer stands in each step of load_data() and evaluate().
HeapAt ==
    /\ pc = "parse" => heapPtr = InitialHeapPtr
    /\ pc = "checkpoint" =>
         doc = snap /\ docEnd = heapPtr /\ dataAddr = InitialHeapPtr
    /\ pc = "tag" =>
         /\ doc = snap /\ docEnd = dataHeapPtr
         /\ dataAddr \in {NoDataAddr, InitialHeapPtr}
    /\ pc = "write" => heapPtr = docEnd
    /\ pc = "ptrGet" => docEnd <= inputAddr /\ inputAddr < heapPtr
    /\ pc = "eval" =>
         docEnd <= inputAddr /\ inputAddr < evalHeap /\ evalHeap = heapPtr

\* A deadline is armed, and the heap off its checkpoint, only inside the guest,
\* after a failure that poisons, or after an interrupt.
Disarmed ==
    /\ pc \in GuestPcs => enteredWasm
    /\ pc \notin GuestPcs /\ ~poisoned /\ ~torn => deadline = NoDeadline
    /\ pc = "idle" /\ ~poisoned /\ ~torn => heapPtr = dataHeapPtr

Inv == TypeOK /\ TagBehind /\ DocumentWhole /\ HeapAt /\ Disarmed

\* The initial state satisfies the invariant: no document, an empty heap.
LEMMA InitInv == Init => Inv
  <1> SUFFICES ASSUME Init PROVE Inv
    OBVIOUS
  <1> USE InstanceAssumption DEF Init, CallPcs, GuestPcs, LoadPcs,
          InitialHeapPtr, NoDeadline, NoDataAddr, Garbage
  <1>1. TypeOK
    <2>1. poisoned \in BOOLEAN /\ enteredWasm \in BOOLEAN /\ torn \in BOOLEAN
      OBVIOUS
    <2> QED
      BY <2>1 DEF TypeOK
  <1>2. TagBehind /\ DocumentWhole /\ HeapAt
    BY DEF TagBehind, DocumentWhole, Loaded, HeapAt
  <1>3. Disarmed
    BY DEF Disarmed
  <1> QED
    BY <1>1, <1>2, <1>3 DEF Inv

\* A size is a positive number.
LEMMA SizeNat == ASSUME NEW n \in Sizes PROVE n \in Nat /\ n > 0
  BY InstanceAssumption

\* Every step keeps the ranges: no allocation ends past the memory.
LEMMA StepTypeOK ==
    ASSUME TypeOK, Next
    PROVE  TypeOK'
  <1> USE InstanceAssumption DEF TypeOK, dataVars, evalVars, InitialHeapPtr,
          NoDeadline, NoDataAddr, Garbage, LoadPcs, GuestPcs
  <1>1. CASE SetData
    BY <1>1 DEF SetData
  <1>2. CASE Tick
    BY <1>2 DEF Tick
  <1>3. CASE Lend
    BY <1>3 DEF Lend, Goto
  <1>4. CASE LoadReset
    BY <1>4 DEF LoadReset, Goto, GuestCall
  <1>5. CASE LoadNone
    BY <1>5 DEF LoadNone, Goto
  <1>6. CASE LoadCheckpoint
    BY <1>6 DEF LoadCheckpoint, Goto, GuestCall
  <1>7. CASE BumpTag
    BY <1>7 DEF BumpTag, Goto
  <1>8. CASE LoadFails
    BY <1>8 DEF LoadFails
  <1>9. CASE EncodeAndArm
    BY <1>9 DEF EncodeAndArm, Goto
  <1>10. CASE EncodeFails
    BY <1>10 DEF EncodeFails, Goto
  <1>11. CASE PreReset
    BY <1>11 DEF PreReset, Goto, GuestCall
  <1>12. CASE PreResetTraps
    BY <1>12 DEF PreResetTraps, Goto, GuestCall
  <1>13. CASE ResetHeap
    BY <1>13 DEF ResetHeap, Goto, GuestCall
  <1>14. CASE GetHeapPtr
    BY <1>14 DEF GetHeapPtr, Goto, GuestCall
  <1>15. CASE ReadResult
    BY <1>15 DEF ReadResult, Goto
  <1>16. CASE Restore
    <2>1. torn' \in BOOLEAN /\ poisoned' \in BOOLEAN /\ enteredWasm' \in BOOLEAN
      BY <1>16 DEF Restore
    <2>2. deadline' \in 0..NoDeadline /\ heapPtr' \in InitialHeapPtr..MaxHeap
      BY <1>16 DEF Restore
    <2> QED
      BY <1>16, <2>1, <2>2 DEF Restore, Goto
  <1>17. CASE EvalFails
    BY <1>17 DEF EvalFails
  <1>18. CASE Interrupted
    BY <1>18 DEF Interrupted
  <1>19. CASE Retired
    BY <1>19 DEF Retired, vars
  <1>20. ASSUME NEW n \in Sizes, LoadParse(n)
        PROVE  TypeOK'
    BY <1>20, SizeNat DEF LoadParse, Goto, GuestCall
  <1>21. ASSUME NEW n \in Sizes, WriteInput(n)
        PROVE  TypeOK'
    BY <1>21, SizeNat DEF WriteInput, Goto, GuestCall, Writes
  <1>22. ASSUME NEW n \in Sizes, Eval(n)
        PROVE  TypeOK'
    BY <1>22, SizeNat DEF Eval, Goto, GuestCall, Writes
  <1> QED
        BY <1>1, <1>2, <1>3, <1>4, <1>5, <1>6, <1>7, <1>8, <1>9, <1>10,
       <1>11, <1>12, <1>13, <1>14, <1>15, <1>16, <1>17, <1>18, <1>19,
       <1>20, <1>21, <1>22 DEF Next

\* The tag is bumped to a snapshot that is never ahead of the policy's version.
LEMMA StepTagBehind ==
    ASSUME TypeOK, TagBehind, Next
    PROVE  TagBehind'
  <1> USE InstanceAssumption DEF TypeOK, TagBehind, CallPcs, dataVars, evalVars, InitialHeapPtr,
          NoDeadline, NoDataAddr, Garbage, LoadPcs, GuestPcs
  <1>1. CASE SetData
    BY <1>1 DEF SetData
  <1>2. CASE Tick
    BY <1>2 DEF Tick
  <1>3. CASE Lend
    BY <1>3 DEF Lend, Goto
  <1>4. CASE LoadReset
    BY <1>4 DEF LoadReset, Goto, GuestCall
  <1>5. CASE LoadNone
    BY <1>5 DEF LoadNone, Goto
  <1>6. CASE LoadCheckpoint
    BY <1>6 DEF LoadCheckpoint, Goto, GuestCall
  <1>7. CASE BumpTag
    BY <1>7 DEF BumpTag, Goto
  <1>8. CASE LoadFails
    BY <1>8 DEF LoadFails
  <1>9. CASE EncodeAndArm
    BY <1>9 DEF EncodeAndArm, Goto
  <1>10. CASE EncodeFails
    BY <1>10 DEF EncodeFails, Goto
  <1>11. CASE PreReset
    BY <1>11 DEF PreReset, Goto, GuestCall
  <1>12. CASE PreResetTraps
    BY <1>12 DEF PreResetTraps, Goto, GuestCall
  <1>13. CASE ResetHeap
    BY <1>13 DEF ResetHeap, Goto, GuestCall
  <1>14. CASE GetHeapPtr
    BY <1>14 DEF GetHeapPtr, Goto, GuestCall
  <1>15. CASE ReadResult
    BY <1>15 DEF ReadResult, Goto
  <1>16. CASE Restore
    BY <1>16 DEF Restore, Goto, GuestCall
  <1>17. CASE EvalFails
    BY <1>17 DEF EvalFails
  <1>18. CASE Interrupted
    BY <1>18 DEF Interrupted
  <1>19. CASE Retired
    BY <1>19 DEF Retired, vars
  <1>20. ASSUME NEW n \in Sizes, LoadParse(n)
        PROVE  TagBehind'
    BY <1>20, SizeNat DEF LoadParse, Goto, GuestCall
  <1>21. ASSUME NEW n \in Sizes, WriteInput(n)
        PROVE  TagBehind'
    BY <1>21, SizeNat DEF WriteInput, Goto, GuestCall, Writes
  <1>22. ASSUME NEW n \in Sizes, Eval(n)
        PROVE  TagBehind'
    BY <1>22, SizeNat DEF Eval, Goto, GuestCall, Writes
  <1> QED
        BY <1>1, <1>2, <1>3, <1>4, <1>5, <1>6, <1>7, <1>8, <1>9, <1>10,
       <1>11, <1>12, <1>13, <1>14, <1>15, <1>16, <1>17, <1>18, <1>19,
       <1>20, <1>21, <1>22 DEF Next

\* No step of an evaluation touches the document, and only a finished reload or
\* one that its tag gives away ends at rest.
LEMMA StepDocumentWhole ==
    ASSUME Inv, Next
    PROVE  DocumentWhole'
  <1> USE InstanceAssumption DEF Inv, TypeOK, TagBehind, DocumentWhole, Loaded,
          HeapAt, CallPcs, dataVars, evalVars, InitialHeapPtr,
          NoDeadline, NoDataAddr, Garbage, LoadPcs, GuestPcs
  <1>1. CASE SetData
    BY <1>1 DEF SetData
  <1>2. CASE Tick
    BY <1>2 DEF Tick
  <1>3. CASE Lend
    BY <1>3 DEF Lend, Goto
  <1>4. CASE LoadReset
    BY <1>4 DEF LoadReset, Goto, GuestCall
  <1>5. CASE LoadNone
    BY <1>5 DEF LoadNone, Goto
  <1>6. CASE LoadCheckpoint
    BY <1>6 DEF LoadCheckpoint, Goto, GuestCall
  <1>7. CASE BumpTag
    BY <1>7 DEF BumpTag, Goto
  <1>8. CASE LoadFails
    BY <1>8 DEF LoadFails
  <1>9. CASE EncodeAndArm
    BY <1>9 DEF EncodeAndArm, Goto
  <1>10. CASE EncodeFails
    BY <1>10 DEF EncodeFails, Goto
  <1>11. CASE PreReset
    BY <1>11 DEF PreReset, Goto, GuestCall
  <1>12. CASE PreResetTraps
    BY <1>12 DEF PreResetTraps, Goto, GuestCall
  <1>13. CASE ResetHeap
    BY <1>13 DEF ResetHeap, Goto, GuestCall
  <1>14. CASE GetHeapPtr
    BY <1>14 DEF GetHeapPtr, Goto, GuestCall
  <1>15. CASE ReadResult
    BY <1>15 DEF ReadResult, Goto
  <1>16. CASE Restore
    BY <1>16 DEF Restore, Goto, GuestCall
  <1>17. CASE EvalFails
    BY <1>17 DEF EvalFails
  <1>18. CASE Interrupted
    BY <1>18 DEF Interrupted
  <1>19. CASE Retired
    BY <1>19 DEF Retired, vars
  <1>20. ASSUME NEW n \in Sizes, LoadParse(n)
        PROVE  DocumentWhole'
    BY <1>20, SizeNat DEF LoadParse, Goto, GuestCall
  <1>21. ASSUME NEW n \in Sizes, WriteInput(n)
        PROVE  DocumentWhole'
    BY <1>21, SizeNat DEF WriteInput, Goto, GuestCall, Writes
  <1>22. ASSUME NEW n \in Sizes, Eval(n)
        PROVE  DocumentWhole'
    BY <1>22, SizeNat DEF Eval, Goto, GuestCall, Writes
  <1> QED
        BY <1>1, <1>2, <1>3, <1>4, <1>5, <1>6, <1>7, <1>8, <1>9, <1>10,
       <1>11, <1>12, <1>13, <1>14, <1>15, <1>16, <1>17, <1>18, <1>19,
       <1>20, <1>21, <1>22 DEF Next

\* Each step finds the heap pointer where the one before it left it.
LEMMA StepHeapAt ==
    ASSUME Inv, Next
    PROVE  HeapAt'
  <1> USE InstanceAssumption DEF Inv, TypeOK, DocumentWhole, Loaded, HeapAt,
          CallPcs, dataVars, evalVars, InitialHeapPtr,
          NoDeadline, NoDataAddr, Garbage, LoadPcs, GuestPcs
  <1>1. CASE SetData
    BY <1>1 DEF SetData
  <1>2. CASE Tick
    BY <1>2 DEF Tick
  <1>3. CASE Lend
    BY <1>3 DEF Lend, Goto
  <1>4. CASE LoadReset
    BY <1>4 DEF LoadReset, Goto, GuestCall
  <1>5. CASE LoadNone
    BY <1>5 DEF LoadNone, Goto
  <1>6. CASE LoadCheckpoint
    BY <1>6 DEF LoadCheckpoint, Goto, GuestCall
  <1>7. CASE BumpTag
    BY <1>7 DEF BumpTag, Goto
  <1>8. CASE LoadFails
    BY <1>8 DEF LoadFails
  <1>9. CASE EncodeAndArm
    BY <1>9 DEF EncodeAndArm, Goto
  <1>10. CASE EncodeFails
    BY <1>10 DEF EncodeFails, Goto
  <1>11. CASE PreReset
    BY <1>11 DEF PreReset, Goto, GuestCall
  <1>12. CASE PreResetTraps
    BY <1>12 DEF PreResetTraps, Goto, GuestCall
  <1>13. CASE ResetHeap
    BY <1>13 DEF ResetHeap, Goto, GuestCall
  <1>14. CASE GetHeapPtr
    BY <1>14 DEF GetHeapPtr, Goto, GuestCall
  <1>15. CASE ReadResult
    BY <1>15 DEF ReadResult, Goto
  <1>16. CASE Restore
    BY <1>16 DEF Restore, Goto, GuestCall
  <1>17. CASE EvalFails
    BY <1>17 DEF EvalFails
  <1>18. CASE Interrupted
    BY <1>18 DEF Interrupted
  <1>19. CASE Retired
    BY <1>19 DEF Retired, vars
  <1>20. ASSUME NEW n \in Sizes, LoadParse(n)
        PROVE  HeapAt'
    BY <1>20, SizeNat DEF LoadParse, Goto, GuestCall
  <1>21. ASSUME NEW n \in Sizes, WriteInput(n)
        PROVE  HeapAt'
    BY <1>21, SizeNat DEF WriteInput, Goto, GuestCall, Writes
  <1>22. ASSUME NEW n \in Sizes, Eval(n)
        PROVE  HeapAt'
    BY <1>22, SizeNat DEF Eval, Goto, GuestCall, Writes
  <1> QED
        BY <1>1, <1>2, <1>3, <1>4, <1>5, <1>6, <1>7, <1>8, <1>9, <1>10,
       <1>11, <1>12, <1>13, <1>14, <1>15, <1>16, <1>17, <1>18, <1>19,
       <1>20, <1>21, <1>22 DEF Next

\* A call that returns has disarmed the deadline and reset the heap.
LEMMA StepDisarmed ==
    ASSUME Inv, Next
    PROVE  Disarmed'
  <1> USE InstanceAssumption DEF Inv, TypeOK, HeapAt, Disarmed, dataVars, evalVars, InitialHeapPtr,
          NoDeadline, NoDataAddr, Garbage, LoadPcs, GuestPcs
  <1>1. CASE SetData
    BY <1>1 DEF SetData
  <1>2. CASE Tick
    BY <1>2 DEF Tick
  <1>3. CASE Lend
    BY <1>3 DEF Lend, Goto
  <1>4. CASE LoadReset
    BY <1>4 DEF LoadReset, Goto, GuestCall
  <1>5. CASE LoadNone
    BY <1>5 DEF LoadNone, Goto
  <1>6. CASE LoadCheckpoint
    BY <1>6 DEF LoadCheckpoint, Goto, GuestCall
  <1>7. CASE BumpTag
    BY <1>7 DEF BumpTag, Goto
  <1>8. CASE LoadFails
    BY <1>8 DEF LoadFails
  <1>9. CASE EncodeAndArm
    BY <1>9 DEF EncodeAndArm, Goto
  <1>10. CASE EncodeFails
    BY <1>10 DEF EncodeFails, Goto
  <1>11. CASE PreReset
    BY <1>11 DEF PreReset, Goto, GuestCall
  <1>12. CASE PreResetTraps
    BY <1>12 DEF PreResetTraps, Goto, GuestCall
  <1>13. CASE ResetHeap
    BY <1>13 DEF ResetHeap, Goto, GuestCall
  <1>14. CASE GetHeapPtr
    BY <1>14 DEF GetHeapPtr, Goto, GuestCall
  <1>15. CASE ReadResult
    BY <1>15 DEF ReadResult, Goto
  <1>16. CASE Restore
    BY <1>16 DEF Restore, Goto, GuestCall
  <1>17. CASE EvalFails
    BY <1>17 DEF EvalFails
  <1>18. CASE Interrupted
    BY <1>18 DEF Interrupted
  <1>19. CASE Retired
    BY <1>19 DEF Retired, vars
  <1>20. ASSUME NEW n \in Sizes, LoadParse(n)
        PROVE  Disarmed'
    BY <1>20, SizeNat DEF LoadParse, Goto, GuestCall
  <1>21. ASSUME NEW n \in Sizes, WriteInput(n)
        PROVE  Disarmed'
    BY <1>21, SizeNat DEF WriteInput, Goto, GuestCall, Writes
  <1>22. ASSUME NEW n \in Sizes, Eval(n)
        PROVE  Disarmed'
    BY <1>22, SizeNat DEF Eval, Goto, GuestCall, Writes
  <1> QED
        BY <1>1, <1>2, <1>3, <1>4, <1>5, <1>6, <1>7, <1>8, <1>9, <1>10,
       <1>11, <1>12, <1>13, <1>14, <1>15, <1>16, <1>17, <1>18, <1>19,
       <1>20, <1>21, <1>22 DEF Next

\* A step that changes nothing keeps the invariant.
LEMMA StutterInv == ASSUME Inv, UNCHANGED vars PROVE Inv'
  BY DEF Inv, TypeOK, TagBehind, DocumentWhole, Loaded, HeapAt, Disarmed, vars,
         dataVars, evalVars

\* The invariant is inductive.
LEMMA Invariance == Spec => []Inv
  <1>1. Inv /\ [Next]_vars => Inv'
    <2>1. ASSUME Inv, Next PROVE Inv'
      BY <2>1, StepTypeOK, StepTagBehind, StepDocumentWhole, StepHeapAt,
         StepDisarmed DEF Inv
    <2> QED
      BY <2>1, StutterInv
  <1> QED
    BY <1>1, InitInv, PTL DEF Spec

\* Ranges of the variables: the guest heap, the checkpoint and the addresses
\* handed to the guest lie inside its memory.
THEOREM InstanceTypeOK == Spec => []TypeOK
  BY Invariance, PTL DEF Inv

\* An evaluation reads, from encode() to its last guest call, the document of
\* the snapshot it was lent with (OpaPolicyInstance.reload_data, evaluate).
THEOREM DocumentPreserved == Spec => []DocumentSurvives
  <1>1. Inv => DocumentSurvives
    BY DEF Inv, DocumentSurvives, DocumentWhole, TagBehind, Loaded, CallPcs
  <1> QED
    BY <1>1, Invariance, PTL

\* opa_eval scratches past the input, and the input lies past the document.
THEOREM ScratchIsPastInput == Spec => []ScratchPastInput
  <1>1. Inv => ScratchPastInput
    BY DEF Inv, ScratchPastInput, HeapAt
  <1> QED
    BY <1>1, Invariance, PTL

\* Evaluations and reloads do not pile up in the guest heap, however many are
\* interrupted.
THEOREM HeapDoesNotLeak == Spec => []NoHeapLeak
  <1>1. Inv => NoHeapLeak
    BY DEF Inv, NoHeapLeak, HeapAt, DocumentWhole, Loaded, CallPcs, GuestPcs
  <1> QED
    BY <1>1, Invariance, PTL

\* Between two loans an instance is poisoned, torn by an interrupt, or as good
\* as new: disarmed, at its checkpoint, with the document of its tag.
THEOREM InstanceCleanAtRest == Spec => []CleanAtRest
  <1>1. Inv => CleanAtRest
    BY DEF Inv, CleanAtRest, DocumentWhole, Disarmed, Loaded, GuestPcs
  <1> QED
    BY <1>1, Invariance, PTL
=============================================================================
