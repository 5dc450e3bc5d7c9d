--------------------------- MODULE RuntimeProofs ---------------------------
(***************************************************************************)
(* What Runtime promises for every number of runtimes, registry entries,   *)
(* memory caps and module sizes.                                           *)
(***************************************************************************)
EXTENDS Runtime, TLAPS

\* The lock is held by the runtime whose constructor or close() is in a with
\* block, so that at most one is.
LockHolder == \A r \in Runtimes : lock = r <=> pc[r] \in LockedPcs

\* Between reading and writing the free list nobody else has written it.
ReadIsCurrent ==
    \A r \in Runtimes :
        pc[r] \in {"register", "finalise", "closeFin"} => seen[r] = free

\* Only an open Store has callbacks.  A Store is open between its creation and
\* the end of its close(), and for good where nobody closes it.
OpenStores ==
    \A r \in Runtimes :
        /\ store[r] # "open" => held[r] = {}
        /\ pc[r] = "idle" =>
             (store[r] = "open" <=> why[r] \in {"ticker", "interrupt"})
        /\ pc[r] \in {"want", "store"} => store[r] # "open"
        /\ pc[r] \in {"instantiate"} \cup WiringPcs => store[r] = "open"
        /\ pc[r] = "register" => store[r] = "open" /\ held[r] = {}

\* The retry loop: the last size tried was too small by less than half.
Doubling ==
    \A r \in Runtimes :
        /\ pages[r] = DefaultPages \/ pages[r] < 2 * need[r]
        /\ pc[r] \in {"except", "finalise"} /\ why[r] = "overflow" =>
             need[r] > pages[r]
        /\ pc[r] \in {"want", "store", "register", "instantiate"} =>
             why[r] = "none"
        /\ pc[r] \in {"except", "finalise"} => why[r] \in {"overflow", "error"}

Inv ==
    /\ TypeOK /\ LockHolder /\ ReadIsCurrent /\ OpenStores
    /\ RegistrySound /\ Doubling /\ RetryExact

\* The initial state satisfies the invariant: no runtime, all entries free.
LEMMA InitInv == Init => Inv
  <1> SUFFICES ASSUME Init PROVE Inv
    OBVIOUS
  <1> USE RuntimeAssumption DEF Init, DefaultPages, LockedPcs, LoopPcs,
          WiringPcs, Pcs
  <1>1. TypeOK
    BY SMT DEF TypeOK, Ceiling, Reasons
  <1>2. LockHolder /\ ReadIsCurrent /\ OpenStores
    BY DEF LockHolder, ReadIsCurrent, OpenStores
  <1>3. RegistrySound
    BY DEF RegistrySound
  <1>4. Doubling /\ RetryExact
    BY DEF Doubling, RetryExact
  <1> QED
    BY <1>1, <1>2, <1>3, <1>4 DEF Inv

\* A ceiling is a number of pages; no step but Construct moves it.
LEMMA CeilingNat ==
    ASSUME TypeOK, NEW r \in Runtimes
    PROVE  Ceiling(r) \in Nat /\ pages[r] \in Nat /\ need[r] \in Nat
  <1>1. cap[r] \in Caps \cup {NoCap} /\ need[r] \in Needs \cup {0}
    BY DEF TypeOK
  <1>2. Ceiling(r) \in Nat
    BY <1>1, RuntimeAssumption DEF Ceiling
  <1>3. pages[r] \in Nat
    BY DEF TypeOK
  <1>4. need[r] \in Nat
    <2>1. CASE need[r] = 0
      BY <2>1
    <2>2. CASE need[r] \in Needs
      BY <2>2, RuntimeAssumption
    <2> QED
      BY <1>1, <2>1, <2>2
  <1> QED
    BY <1>2, <1>3, <1>4

\* A step of runtime r: what Next offers it.
RuntimeStep(r) ==
    \/ \E c \in Caps \cup {NoCap}, n \in Needs : Construct(r, c, n)
    \/ Step(r) \/ Interrupt(r) \/ InterruptUnguarded(r) \/ Close(r)

\* Every step keeps the ranges; a doubled size stays within the ceiling.
LEMMA StepTypeOK ==
    ASSUME TypeOK,
           NEW r \in Runtimes, RuntimeStep(r)
    PROVE  TypeOK'
  <1> USE RuntimeAssumption DEF TypeOK, Ceiling, Reasons, LockedPcs, LoopPcs,
          WiringPcs, Pcs, DefaultPages, natives, sizes
  <1>0. \A q \in Runtimes :
           Ceiling(q) \in Nat /\ pages[q] \in Nat /\ need[q] \in Nat
    BY CeilingNat
  <1>1. ASSUME NEW c \in Caps \cup {NoCap}, NEW n \in Needs,
               Construct(r, c, n)
        PROVE  TypeOK'
    BY <1>0, <1>1 DEF Construct, Goto
  <1>2. CASE TakeLock(r)
    BY <1>0, <1>2 DEF TakeLock, Goto, Acquire
  <1>3. CASE OpenStore(r)
    BY <1>0, <1>3 DEF OpenStore, Goto
  <1>4. CASE Register(r)
    BY <1>0, <1>4 DEF Register, Goto
  <1>5. CASE Instantiates(r)
    BY <1>0, <1>5 DEF Instantiates, Goto, Unlock
  <1>6. CASE InstantiateFails(r)
    BY <1>0, <1>6 DEF InstantiateFails, Goto
  <1>7. CASE CloseAttempt(r)
    BY <1>0, <1>7 DEF CloseAttempt, Goto
  <1>8. CASE GiveUp(r)
    BY <1>0, <1>8 DEF GiveUp, Goto, Unlock, Finalise, Exhausted
  <1>9. CASE Retry(r)
    BY <1>0, <1>9 DEF Retry, Goto, Finalise, Exhausted, Grow
  <1>10. CASE Interrupt(r)
    BY <1>0, <1>10 DEF Interrupt
  <1>11. CASE Wire(r)
    BY <1>0, <1>11 DEF Wire, Goto
  <1>12. CASE WireFails(r)
    BY <1>0, <1>12 DEF WireFails, Goto
  <1>13. CASE Close(r)
    BY <1>0, <1>13 DEF Close, Goto
  <1>14. CASE CloseTakesLock(r)
    BY <1>0, <1>14 DEF CloseTakesLock, Goto, Acquire
  <1>15. CASE CloseStore(r)
    BY <1>0, <1>15 DEF CloseStore, Goto
  <1>16. CASE CloseNothing(r)
    BY <1>0, <1>16 DEF CloseNothing, Goto, Unlock, Forget
  <1>17. CASE CloseFinalise(r)
    BY <1>0, <1>17 DEF CloseFinalise, Goto, Unlock, Finalise, Forget
  <1>18. CASE EnterTry(r)
    BY <1>0, <1>18 DEF EnterTry, Goto
  <1>19. CASE Start(r)
    BY <1>0, <1>19 DEF Start, Goto
  <1>20. CASE StartFails(r)
    BY <1>0, <1>20 DEF StartFails, Goto, Forget
  <1>21. CASE InterruptUnguarded(r)
    BY <1>0, <1>21 DEF InterruptUnguarded, Forget
  <1> QED
    BY <1>1, <1>2, <1>3, <1>4, <1>5, <1>6, <1>7, <1>8, <1>9, <1>10, <1>11,
          <1>12, <1>13, <1>14, <1>15, <1>16, <1>17, <1>18, <1>19, <1>20,
          <1>21 DEF RuntimeStep, Step

\* Every step into or out of a with block takes or frees the lock.
LEMMA StepLockHolder ==
    ASSUME TypeOK, LockHolder,
           NEW r \in Runtimes, RuntimeStep(r)
    PROVE  LockHolder'
  <1> USE RuntimeAssumption DEF TypeOK, LockHolder, LockedPcs, LoopPcs,
          natives, sizes
  <1>1. ASSUME NEW c \in Caps \cup {NoCap}, NEW n \in Needs,
               Construct(r, c, n)
        PROVE  LockHolder'
    BY <1>1 DEF Construct, Goto
  <1>2. CASE TakeLock(r)
    BY <1>2 DEF TakeLock, Goto, Acquire
  <1>3. CASE OpenStore(r)
    BY <1>3 DEF OpenStore, Goto
  <1>4. CASE Register(r)
    BY <1>4 DEF Register, Goto
  <1>5. CASE Instantiates(r)
    BY <1>5 DEF Instantiates, Goto, Unlock
  <1>6. CASE InstantiateFails(r)
    BY <1>6 DEF InstantiateFails, Goto
  <1>7. CASE CloseAttempt(r)
    BY <1>7 DEF CloseAttempt, Goto
  <1>8. CASE GiveUp(r)
    BY <1>8 DEF GiveUp, Goto, Unlock, Finalise, Exhausted
  <1>9. CASE Retry(r)
    BY <1>9 DEF Retry, Goto, Finalise, Exhausted, Grow
  <1>10. CASE Interrupt(r)
    BY <1>10 DEF Interrupt
  <1>11. CASE Wire(r)
    BY <1>11 DEF Wire, Goto
  <1>12. CASE WireFails(r)
    BY <1>12 DEF WireFails, Goto
  <1>13. CASE Close(r)
    BY <1>13 DEF Close, Goto
  <1>14. CASE CloseTakesLock(r)
    BY <1>14 DEF CloseTakesLock, Goto, Acquire
  <1>15. CASE CloseStore(r)
    BY <1>15 DEF CloseStore, Goto
  <1>16. CASE CloseNothing(r)
    BY <1>16 DEF CloseNothing, Goto, Unlock, Forget
  <1>17. CASE CloseFinalise(r)
    BY <1>17 DEF CloseFinalise, Goto, Unlock, Finalise, Forget
  <1>18. CASE EnterTry(r)
    BY <1>18 DEF EnterTry, Goto
  <1>19. CASE Start(r)
    BY <1>19 DEF Start, Goto
  <1>20. CASE StartFails(r)
    BY <1>20 DEF StartFails, Goto, Forget
  <1>21. CASE InterruptUnguarded(r)
    BY <1>21 DEF InterruptUnguarded, Forget
  <1> QED
    BY <1>1, <1>2, <1>3, <1>4, <1>5, <1>6, <1>7, <1>8, <1>9, <1>10, <1>11,
          <1>12, <1>13, <1>14, <1>15, <1>16, <1>17, <1>18, <1>19, <1>20,
          <1>21 DEF RuntimeStep, Step

\* Only the lock's holder writes the free list, so what it has read is current.
LEMMA StepReadIsCurrent ==
    ASSUME TypeOK, LockHolder, ReadIsCurrent,
           NEW r \in Runtimes, RuntimeStep(r)
    PROVE  ReadIsCurrent'
  <1> USE RuntimeAssumption DEF TypeOK, LockHolder, ReadIsCurrent, LockedPcs,
          LoopPcs, natives, sizes
  <1>1. ASSUME NEW c \in Caps \cup {NoCap}, NEW n \in Needs,
               Construct(r, c, n)
        PROVE  ReadIsCurrent'
    BY <1>1 DEF Construct, Goto
  <1>2. CASE TakeLock(r)
    BY <1>2 DEF TakeLock, Goto, Acquire
  <1>3. CASE OpenStore(r)
    BY <1>3 DEF OpenStore, Goto
  <1>4. CASE Register(r)
    BY <1>4 DEF Register, Goto
  <1>5. CASE Instantiates(r)
    BY <1>5 DEF Instantiates, Goto, Unlock
  <1>6. CASE InstantiateFails(r)
    BY <1>6 DEF InstantiateFails, Goto
  <1>7. CASE CloseAttempt(r)
    BY <1>7 DEF CloseAttempt, Goto
  <1>8. CASE GiveUp(r)
    BY <1>8 DEF GiveUp, Goto, Unlock, Finalise, Exhausted
  <1>9. CASE Retry(r)
    BY <1>9 DEF Retry, Goto, Finalise, Exhausted, Grow
  <1>10. CASE Interrupt(r)
    BY <1>10 DEF Interrupt
  <1>11. CASE Wire(r)
    BY <1>11 DEF Wire, Goto
  <1>12. CASE WireFails(r)
    BY <1>12 DEF WireFails, Goto
  <1>13. CASE Close(r)
    BY <1>13 DEF Close, Goto
  <1>14. CASE CloseTakesLock(r)
    BY <1>14 DEF CloseTakesLock, Goto, Acquire
  <1>15. CASE CloseStore(r)
    BY <1>15 DEF CloseStore, Goto
  <1>16. CASE CloseNothing(r)
    BY <1>16 DEF CloseNothing, Goto, Unlock, Forget
  <1>17. CASE CloseFinalise(r)
    BY <1>17 DEF CloseFinalise, Goto, Unlock, Finalise, Forget
  <1>18. CASE EnterTry(r)
    BY <1>18 DEF EnterTry, Goto
  <1>19. CASE Start(r)
    BY <1>19 DEF Start, Goto
  <1>20. CASE StartFails(r)
    BY <1>20 DEF StartFails, Goto, Forget
  <1>21. CASE InterruptUnguarded(r)
    BY <1>21 DEF InterruptUnguarded, Forget
  <1> QED
    BY <1>1, <1>2, <1>3, <1>4, <1>5, <1>6, <1>7, <1>8, <1>9, <1>10, <1>11,
          <1>12, <1>13, <1>14, <1>15, <1>16, <1>17, <1>18, <1>19, <1>20,
          <1>21 DEF RuntimeStep, Step

\* A Store is opened after the lock is taken and closed before it is given up for good.
LEMMA StepOpenStores ==
    ASSUME TypeOK, OpenStores,
           NEW r \in Runtimes, RuntimeStep(r)
    PROVE  OpenStores'
  <1> USE RuntimeAssumption DEF TypeOK, OpenStores, WiringPcs, natives, sizes
  <1>1. ASSUME NEW c \in Caps \cup {NoCap}, NEW n \in Needs,
               Construct(r, c, n)
        PROVE  OpenStores'
    BY <1>1 DEF Construct, Goto
  <1>2. CASE TakeLock(r)
    BY <1>2 DEF TakeLock, Goto, Acquire
  <1>3. CASE OpenStore(r)
    BY <1>3 DEF OpenStore, Goto
  <1>4. CASE Register(r)
    BY <1>4 DEF Register, Goto
  <1>5. CASE Instantiates(r)
    BY <1>5 DEF Instantiates, Goto, Unlock
  <1>6. CASE InstantiateFails(r)
    BY <1>6 DEF InstantiateFails, Goto
  <1>7. CASE CloseAttempt(r)
    BY <1>7 DEF CloseAttempt, Goto
  <1>8. CASE GiveUp(r)
    BY <1>8 DEF GiveUp, Goto, Unlock, Finalise, Exhausted
  <1>9. CASE Retry(r)
    BY <1>9 DEF Retry, Goto, Finalise, Exhausted, Grow
  <1>10. CASE Interrupt(r)
    BY <1>10 DEF Interrupt
  <1>11. CASE Wire(r)
    BY <1>11 DEF Wire, Goto
  <1>12. CASE WireFails(r)
    BY <1>12 DEF WireFails, Goto
  <1>13. CASE Close(r)
    BY <1>13 DEF Close, Goto
  <1>14. CASE CloseTakesLock(r)
    BY <1>14 DEF CloseTakesLock, Goto, Acquire
  <1>15. CASE CloseStore(r)
    BY <1>15 DEF CloseStore, Goto
  <1>16. CASE CloseNothing(r)
    BY <1>16 DEF CloseNothing, Goto, Unlock, Forget
  <1>17. CASE CloseFinalise(r)
    BY <1>17 DEF CloseFinalise, Goto, Unlock, Finalise, Forget
  <1>18. CASE EnterTry(r)
    BY <1>18 DEF EnterTry, Goto
  <1>19. CASE Start(r)
    BY <1>19 DEF Start, Goto
  <1>20. CASE StartFails(r)
    BY <1>20 DEF StartFails, Goto, Forget
  <1>21. CASE InterruptUnguarded(r)
    BY <1>21 DEF InterruptUnguarded, Forget
  <1> QED
    BY <1>1, <1>2, <1>3, <1>4, <1>5, <1>6, <1>7, <1>8, <1>9, <1>10, <1>11,
          <1>12, <1>13, <1>14, <1>15, <1>16, <1>17, <1>18, <1>19, <1>20,
          <1>21 DEF RuntimeStep, Step

\* A current read makes the two halves of an update act as one.
LEMMA StepRegistrySound ==
    ASSUME TypeOK, LockHolder, ReadIsCurrent, OpenStores, RegistrySound,
           NEW r \in Runtimes, RuntimeStep(r)
    PROVE  RegistrySound'
  <1> USE RuntimeAssumption DEF TypeOK, RegistrySound, ReadIsCurrent,
          OpenStores, WiringPcs, natives, sizes
  <1>1. ASSUME NEW c \in Caps \cup {NoCap}, NEW n \in Needs,
               Construct(r, c, n)
        PROVE  RegistrySound'
    BY <1>1 DEF Construct, Goto
  <1>2. CASE TakeLock(r)
    BY <1>2 DEF TakeLock, Goto, Acquire
  <1>3. CASE OpenStore(r)
    BY <1>3 DEF OpenStore, Goto
  <1>4. CASE Register(r)
    BY <1>4 DEF Register, Goto
  <1>5. CASE Instantiates(r)
    BY <1>5 DEF Instantiates, Goto, Unlock
  <1>6. CASE InstantiateFails(r)
    BY <1>6 DEF InstantiateFails, Goto
  <1>7. CASE CloseAttempt(r)
    BY <1>7 DEF CloseAttempt, Goto
  <1>8. CASE GiveUp(r)
    BY <1>8 DEF GiveUp, Goto, Unlock, Finalise, Exhausted
  <1>9. CASE Retry(r)
    BY <1>9 DEF Retry, Goto, Finalise, Exhausted, Grow
  <1>10. CASE Interrupt(r)
    BY <1>10 DEF Interrupt
  <1>11. CASE Wire(r)
    BY <1>11 DEF Wire, Goto
  <1>12. CASE WireFails(r)
    BY <1>12 DEF WireFails, Goto
  <1>13. CASE Close(r)
    BY <1>13 DEF Close, Goto
  <1>14. CASE CloseTakesLock(r)
    BY <1>14 DEF CloseTakesLock, Goto, Acquire
  <1>15. CASE CloseStore(r)
    BY <1>15 DEF CloseStore, Goto
  <1>16. CASE CloseNothing(r)
    BY <1>16 DEF CloseNothing, Goto, Unlock, Forget
  <1>17. CASE CloseFinalise(r)
    BY <1>17 DEF CloseFinalise, Goto, Unlock, Finalise, Forget
  <1>18. CASE EnterTry(r)
    BY <1>18 DEF EnterTry, Goto
  <1>19. CASE Start(r)
    BY <1>19 DEF Start, Goto
  <1>20. CASE StartFails(r)
    BY <1>20 DEF StartFails, Goto, Forget
  <1>21. CASE InterruptUnguarded(r)
    BY <1>21 DEF InterruptUnguarded, Forget
  <1> QED
    BY <1>1, <1>2, <1>3, <1>4, <1>5, <1>6, <1>7, <1>8, <1>9, <1>10, <1>11,
          <1>12, <1>13, <1>14, <1>15, <1>16, <1>17, <1>18, <1>19, <1>20,
          <1>21 DEF RuntimeStep, Step

\* A size is doubled only after it has proved too small.
LEMMA StepDoubling ==
    ASSUME TypeOK, Doubling,
           NEW r \in Runtimes, RuntimeStep(r)
    PROVE  Doubling'
  <1> USE RuntimeAssumption DEF TypeOK, Doubling, Ceiling, DefaultPages,
          natives, sizes
  <1>0. \A q \in Runtimes :
           Ceiling(q) \in Nat /\ pages[q] \in Nat /\ need[q] \in Nat
    BY CeilingNat
  <1>1. ASSUME NEW c \in Caps \cup {NoCap}, NEW n \in Needs,
               Construct(r, c, n)
        PROVE  Doubling'
    BY <1>0, <1>1 DEF Construct, Goto
  <1>2. CASE TakeLock(r)
    BY <1>0, <1>2 DEF TakeLock, Goto, Acquire
  <1>3. CASE OpenStore(r)
    BY <1>0, <1>3 DEF OpenStore, Goto
  <1>4. CASE Register(r)
    BY <1>0, <1>4 DEF Register, Goto
  <1>5. CASE Instantiates(r)
    BY <1>0, <1>5 DEF Instantiates, Goto, Unlock
  <1>6. CASE InstantiateFails(r)
    BY <1>0, <1>6 DEF InstantiateFails, Goto
  <1>7. CASE CloseAttempt(r)
    BY <1>0, <1>7 DEF CloseAttempt, Goto
  <1>8. CASE GiveUp(r)
    BY <1>0, <1>8 DEF GiveUp, Goto, Unlock, Finalise, Exhausted
  <1>9. CASE Retry(r)
    BY <1>0, <1>9 DEF Retry, Goto, Finalise, Exhausted, Grow
  <1>10. CASE Interrupt(r)
    BY <1>0, <1>10 DEF Interrupt
  <1>11. CASE Wire(r)
    BY <1>0, <1>11 DEF Wire, Goto
  <1>12. CASE WireFails(r)
    BY <1>0, <1>12 DEF WireFails, Goto
  <1>13. CASE Close(r)
    BY <1>0, <1>13 DEF Close, Goto
  <1>14. CASE CloseTakesLock(r)
    BY <1>0, <1>14 DEF CloseTakesLock, Goto, Acquire
  <1>15. CASE CloseStore(r)
    BY <1>0, <1>15 DEF CloseStore, Goto
  <1>16. CASE CloseNothing(r)
    BY <1>0, <1>16 DEF CloseNothing, Goto, Unlock, Forget
  <1>17. CASE CloseFinalise(r)
    BY <1>0, <1>17 DEF CloseFinalise, Goto, Unlock, Finalise, Forget
  <1>18. CASE EnterTry(r)
    BY <1>0, <1>18 DEF EnterTry, Goto
  <1>19. CASE Start(r)
    BY <1>0, <1>19 DEF Start, Goto
  <1>20. CASE StartFails(r)
    BY <1>0, <1>20 DEF StartFails, Goto, Forget
  <1>21. CASE InterruptUnguarded(r)
    BY <1>0, <1>21 DEF InterruptUnguarded, Forget
  <1> QED
    BY <1>1, <1>2, <1>3, <1>4, <1>5, <1>6, <1>7, <1>8, <1>9, <1>10, <1>11,
          <1>12, <1>13, <1>14, <1>15, <1>16, <1>17, <1>18, <1>19, <1>20,
          <1>21 DEF RuntimeStep, Step

\* The loop ends with a size that fits or at the ceiling itself.
LEMMA StepRetryExact ==
    ASSUME TypeOK, Doubling, RetryExact,
           NEW r \in Runtimes, RuntimeStep(r)
    PROVE  RetryExact'
  <1> USE RuntimeAssumption DEF TypeOK, Doubling, RetryExact, WiringPcs, Ceiling,
          DefaultPages, natives, sizes
  <1>0. \A q \in Runtimes :
           Ceiling(q) \in Nat /\ pages[q] \in Nat /\ need[q] \in Nat
    BY CeilingNat
  <1>1. ASSUME NEW c \in Caps \cup {NoCap}, NEW n \in Needs,
               Construct(r, c, n)
        PROVE  RetryExact'
    BY <1>0, <1>1 DEF Construct, Goto
  <1>2. CASE TakeLock(r)
    BY <1>0, <1>2 DEF TakeLock, Goto, Acquire
  <1>3. CASE OpenStore(r)
    BY <1>0, <1>3 DEF OpenStore, Goto
  <1>4. CASE Register(r)
    BY <1>0, <1>4 DEF Register, Goto
  <1>5. CASE Instantiates(r)
    BY <1>0, <1>5 DEF Instantiates, Goto, Unlock
  <1>6. CASE InstantiateFails(r)
    BY <1>0, <1>6 DEF InstantiateFails, Goto
  <1>7. CASE CloseAttempt(r)
    BY <1>0, <1>7 DEF CloseAttempt, Goto
  <1>8. CASE GiveUp(r)
    BY <1>0, <1>8 DEF GiveUp, Goto, Unlock, Finalise, Exhausted
  <1>9. CASE Retry(r)
    BY <1>0, <1>9 DEF Retry, Goto, Finalise, Exhausted, Grow
  <1>10. CASE Interrupt(r)
    BY <1>0, <1>10 DEF Interrupt
  <1>11. CASE Wire(r)
    BY <1>0, <1>11 DEF Wire, Goto
  <1>12. CASE WireFails(r)
    BY <1>0, <1>12 DEF WireFails, Goto
  <1>13. CASE Close(r)
    BY <1>0, <1>13 DEF Close, Goto
  <1>14. CASE CloseTakesLock(r)
    BY <1>0, <1>14 DEF CloseTakesLock, Goto, Acquire
  <1>15. CASE CloseStore(r)
    BY <1>0, <1>15 DEF CloseStore, Goto
  <1>16. CASE CloseNothing(r)
    BY <1>0, <1>16 DEF CloseNothing, Goto, Unlock, Forget
  <1>17. CASE CloseFinalise(r)
    BY <1>0, <1>17 DEF CloseFinalise, Goto, Unlock, Finalise, Forget
  <1>18. CASE EnterTry(r)
    BY <1>0, <1>18 DEF EnterTry, Goto
  <1>19. CASE Start(r)
    BY <1>0, <1>19 DEF Start, Goto
  <1>20. CASE StartFails(r)
    BY <1>0, <1>20 DEF StartFails, Goto, Forget
  <1>21. CASE InterruptUnguarded(r)
    BY <1>0, <1>21 DEF InterruptUnguarded, Forget
  <1> QED
    BY <1>1, <1>2, <1>3, <1>4, <1>5, <1>6, <1>7, <1>8, <1>9, <1>10, <1>11,
          <1>12, <1>13, <1>14, <1>15, <1>16, <1>17, <1>18, <1>19, <1>20,
          <1>21 DEF RuntimeStep, Step

\* The invariant is inductive.
LEMMA NextInv == Inv /\ [Next]_vars => Inv'
  <1> SUFFICES ASSUME Inv, [Next]_vars PROVE Inv'
    OBVIOUS
  <1>1. ASSUME NEW r \in Runtimes, RuntimeStep(r) PROVE Inv'
    BY <1>1, StepTypeOK, StepLockHolder, StepReadIsCurrent, StepOpenStores,
       StepRegistrySound, StepDoubling, StepRetryExact DEF Inv
  <1>2. CASE UNCHANGED vars
    BY <1>2 DEF Inv, TypeOK, LockHolder, ReadIsCurrent, OpenStores,
       RegistrySound, Doubling, RetryExact, Ceiling, vars, natives, sizes
  <1> QED
    BY <1>1, <1>2 DEF Next, RuntimeStep, Finished

\* The invariant holds in every reachable state.
LEMMA Invariance == Spec => []Inv
  BY InitInv, NextInv, PTL DEF Spec

\* The state of the runtimes keeps its ranges; no Memory is asked for with
\* more initial pages than max_memory_pages.
THEOREM TypeCorrect == Spec => []TypeOK
  <1>1. Inv => TypeOK
    BY DEF Inv
  <1> QED
    BY <1>1, Invariance, PTL

\* The process-wide callback registry of wasmtime is never corrupted by
\* constructions and closes that overlap, for any number of runtimes.
THEOREM RegistryNeverCorrupted == Spec => []RegistrySound
  <1>1. Inv => RegistrySound
    BY DEF Inv
  <1> QED
    BY <1>1, Invariance, PTL

\* A constructor that raised and a close() that returned leave no Store open,
\* but for a ticker that does not start and an interrupt where no handler
\* closes the Store, which do leave it open.
THEOREM StoresAreAccounted == Spec => []StoresAccounted
  <1>1. Inv => StoresAccounted
    BY DEF Inv, OpenStores, StoresAccounted
  <1> QED
    BY <1>1, Invariance, PTL

\* The memory-doubling retry finds a size that fits whenever the ceiling
\* does, and stays under the ceiling and under twice the need.
THEOREM RetryFindsSize == Spec => []RetryExact
  <1>1. Inv => RetryExact
    BY DEF Inv
  <1> QED
    BY <1>1, Invariance, PTL
=============================================================================
