--------------------------- MODULE BuiltinsProofs ---------------------------
(***************************************************************************)
(* What Builtins promises of the registry for every number of threads,     *)
(* names, slots and nested calls: no registration is lost, and no          *)
(* evaluation runs a builtin older than the one it must use.               *)
(***************************************************************************)
EXTENDS Builtins, SequenceTheorems, TLAPS

\* The steps at which a call is about a builtin, and the writes of the registry.
NamedPcs == {"register", "add", "unregister", "publish", "remove", "snapshot",
             "lookup", "call"}
WritePcs == {"publish", "remove"}

Frames ==
    [at : NamedPcs \cup {"wait", "guest", "failed"}, name : Names \cup {Nobody},
     fn : Nat, got : [Names -> Nat], since : [Names -> Nat], done : Nat]

\* Ranges of the variables that the argument is about.
Types ==
    /\ table \in [Names -> Nat] /\ last \in [Names -> Nat]
    /\ regs \in Nat
    /\ stack \in [Threads -> Seq(Frames)]

\* No registration has a number that was not given yet.
Numbered == \A n \in Names : table[n] <= regs

\* A call f in progress, seen from a registry tab whose last registration is k:
\* what it has read is not newer than what is registered, and what it looks up
\* or runs is not older than what it must use.
Sound(f, tab, k) ==
    /\ f.at \in NamedPcs => f.name \in Names
    /\ \A n \in Names :
         /\ f.since[n] <= k + 1 /\ f.got[n] <= k
         /\ tab[n] # 0 => f.since[n] <= tab[n] /\ f.got[n] <= tab[n]
         /\ f.at = "lookup" /\ f.got[n] # 0 => f.since[n] <= f.got[n]
    /\ f.at = "call" =>
         /\ f.since[f.name] <= f.fn /\ f.fn <= k
         /\ tab[f.name] # 0 => f.fn <= tab[f.name]

FramesSound ==
    \A t \in Threads : \A i \in 1..Len(stack[t]) : Sound(stack[t][i], table, regs)

\* A call that made another one is in its builtin.
CallersInBuiltin ==
    \A t \in Threads : \A i \in 1..Len(stack[t]) :
        i < Len(stack[t]) => stack[t][i].at = "call"

Writing(t) == Len(stack[t]) > 0 /\ stack[t][Len(stack[t])].at \in WritePcs

\* The registry lock is held from the copy of the dict to its publication, and
\* the copy is still the published dict.
LockCoversCopy ==
    \A t \in Threads :
        /\ lock = t <=> Writing(t)
        /\ Writing(t) => stack[t][Len(stack[t])].got = table

Inv ==
    /\ Types /\ Numbered /\ FramesSound /\ CallersInBuiltin /\ LockCoversCopy
    /\ RegistrationsKept

-----------------------------------------------------------------------------
(* The stack operators *)

\* The first m elements of a sequence.
LEMMA PrefixSeq ==
    ASSUME NEW S, NEW s \in Seq(S), NEW m \in Nat, m <= Len(s)
    PROVE  /\ SubSeq(s, 1, m) \in Seq(S)
           /\ Len(SubSeq(s, 1, m)) = m
           /\ \A i \in 1..m : SubSeq(s, 1, m)[i] = s[i]
  OBVIOUS

\* What Push does to the stacks.
LEMMA PushStack ==
    ASSUME stack \in [Threads -> Seq(Frames)],
           NEW t \in Threads, NEW f \in Frames, Push(t, f)
    PROVE  /\ stack' \in [Threads -> Seq(Frames)]
           /\ \A u \in Threads : u # t => stack'[u] = stack[u]
           /\ Len(stack'[t]) = Len(stack[t]) + 1
           /\ \A i \in 1..Len(stack[t]) : stack'[t][i] = stack[t][i]
           /\ stack'[t][Len(stack[t]) + 1] = f
  <1>1. stack[t] \in Seq(Frames)
    OBVIOUS
  <1>2. stack' = [stack EXCEPT ![t] = Append(stack[t], f)]
    BY DEF Push
  <1> QED
    BY <1>1, <1>2, AppendProperties

\* What Becomes does to the stacks.
LEMMA BecomesStack ==
    ASSUME stack \in [Threads -> Seq(Frames)],
           NEW t \in Threads, Len(stack[t]) > 0,
           NEW f \in Frames, Becomes(t, f)
    PROVE  /\ stack' \in [Threads -> Seq(Frames)]
           /\ \A u \in Threads : u # t => stack'[u] = stack[u]
           /\ Len(stack'[t]) = Len(stack[t])
           /\ \A i \in 1..Len(stack[t]) :
                stack'[t][i] = IF i = Len(stack[t]) THEN f ELSE stack[t][i]
  <1>1. stack[t] \in Seq(Frames) /\ Len(stack[t]) \in 1..Len(stack[t])
    BY LenProperties
  <1>2. stack' = [stack EXCEPT ![t] = [stack[t] EXCEPT ![Len(stack[t])] = f]]
    BY DEF Becomes, Depth
  <1> QED
    BY <1>1, <1>2, ExceptSeq

\* What Pop does to the stacks.
LEMMA PopStack ==
    ASSUME stack \in [Threads -> Seq(Frames)],
           NEW t \in Threads, Len(stack[t]) > 0, Pop(t)
    PROVE  /\ stack' \in [Threads -> Seq(Frames)]
           /\ \A u \in Threads : u # t => stack'[u] = stack[u]
           /\ Len(stack'[t]) = Len(stack[t]) - 1
           /\ \A i \in 1..(Len(stack[t]) - 1) : stack'[t][i] = stack[t][i]
  <1> DEFINE m == Len(stack[t]) - 1
  <1>1. stack[t] \in Seq(Frames) /\ m \in Nat /\ m <= Len(stack[t])
    BY LenProperties
  <1>2. stack' = [stack EXCEPT ![t] = SubSeq(stack[t], 1, m)]
    BY DEF Pop, Depth
  <1>3. /\ SubSeq(stack[t], 1, m) \in Seq(Frames)
        /\ Len(SubSeq(stack[t], 1, m)) = m
        /\ \A i \in 1..m : SubSeq(stack[t], 1, m)[i] = stack[t][i]
    BY <1>1, PrefixSeq
  <1> QED
    BY <1>2, <1>3

\* The part of the invariant that is about the calls in progress.
CallsInv == Types /\ FramesSound /\ CallersInBuiltin /\ LockCoversCopy

\* A call that application code or a builtin makes, and that writes nothing yet.
LEMMA PushKeeps ==
    ASSUME CallsInv,
           NEW t \in Threads, NEW f \in Frames, Push(t, f),
           Enters(t),
           Sound(f, table, regs), f.at \notin WritePcs,
           UNCHANGED <<table, lock, regs, last>>
    PROVE  CallsInv'
  <1>0. stack \in [Threads -> Seq(Frames)]
    BY DEF CallsInv, Types
  <1>1. /\ stack' \in [Threads -> Seq(Frames)]
        /\ \A u \in Threads : u # t => stack'[u] = stack[u]
        /\ Len(stack'[t]) = Len(stack[t]) + 1
        /\ \A i \in 1..Len(stack[t]) : stack'[t][i] = stack[t][i]
        /\ stack'[t][Len(stack[t]) + 1] = f
    BY <1>0, PushStack
  <1>2. /\ Len(stack[t]) \in Nat
        /\ Len(stack[t]) = 0 \/ stack[t][Len(stack[t])].at = "call"
    BY <1>0, LenProperties DEF Enters, At, Top, Depth
  <1>3. Types'
    BY <1>1 DEF CallsInv, Types
  <1>4. FramesSound'
    <2> SUFFICES ASSUME NEW u \in Threads, NEW i \in 1..Len(stack'[u])
                 PROVE  Sound(stack'[u][i], table, regs)
      BY DEF FramesSound, Sound
    <2>1. CASE u # t
      BY <1>1, <2>1 DEF CallsInv, FramesSound
    <2>2. CASE u = t /\ i \in 1..Len(stack[t])
      BY <1>1, <2>2 DEF CallsInv, FramesSound
    <2>3. CASE u = t /\ i = Len(stack[t]) + 1
      BY <1>1, <2>3
    <2> QED
      BY <1>1, <1>2, <2>1, <2>2, <2>3
  <1>5. CallersInBuiltin'
    <2> SUFFICES ASSUME NEW u \in Threads, NEW i \in 1..Len(stack'[u]),
                        i < Len(stack'[u])
                 PROVE  stack'[u][i].at = "call"
      BY DEF CallersInBuiltin
    <2>1. CASE u # t
      BY <1>1, <2>1 DEF CallsInv, CallersInBuiltin
    <2>2. CASE u = t
      BY <1>1, <1>2, <2>2 DEF CallsInv, CallersInBuiltin
    <2> QED
      BY <2>1, <2>2
  <1>6. LockCoversCopy'
    <2>1. ~Writing(t) /\ ~Writing(t)'
      BY <1>1, <1>2 DEF Writing, WritePcs
    <2> QED
      BY <1>1, <2>1 DEF CallsInv, LockCoversCopy, Writing
  <1> QED
    BY <1>3, <1>4, <1>5, <1>6 DEF CallsInv

\* A call that goes on, without or with the registry's lock.
LEMMA BecomesKeeps ==
    ASSUME CallsInv,
           NEW t \in Threads, Len(stack[t]) > 0,
           NEW f \in Frames, Becomes(t, f),
           Sound(f, table, regs),
           ~Writing(t),
           IF f.at \in WritePcs
           THEN lock = Nobody /\ lock' = t /\ f.got = table
           ELSE lock' = lock,
           UNCHANGED <<table, regs, last>>
    PROVE  CallsInv'
  <1>0. stack \in [Threads -> Seq(Frames)] /\ Len(stack[t]) \in Nat
    BY LenProperties DEF CallsInv, Types
  <1>1. /\ stack' \in [Threads -> Seq(Frames)]
        /\ \A u \in Threads : u # t => stack'[u] = stack[u]
        /\ Len(stack'[t]) = Len(stack[t])
        /\ \A i \in 1..Len(stack[t]) :
             stack'[t][i] = IF i = Len(stack[t]) THEN f ELSE stack[t][i]
    BY <1>0, BecomesStack
  <1>2. Types'
    BY <1>1 DEF CallsInv, Types
  <1>3. FramesSound'
    <2> SUFFICES ASSUME NEW u \in Threads, NEW i \in 1..Len(stack'[u])
                 PROVE  Sound(stack'[u][i], table, regs)
      BY DEF FramesSound, Sound
    <2>1. CASE u # t
      BY <1>1, <2>1 DEF CallsInv, FramesSound
    <2>2. CASE u = t
      BY <1>1, <2>2 DEF CallsInv, FramesSound
    <2> QED
      BY <2>1, <2>2
  <1>4. CallersInBuiltin'
    <2> SUFFICES ASSUME NEW u \in Threads, NEW i \in 1..Len(stack'[u]),
                        i < Len(stack'[u])
                 PROVE  stack'[u][i].at = "call"
      BY DEF CallersInBuiltin
    <2>1. CASE u # t
      BY <1>1, <2>1 DEF CallsInv, CallersInBuiltin
    <2>2. CASE u = t
      BY <1>1, <2>2 DEF CallsInv, CallersInBuiltin
    <2> QED
      BY <2>1, <2>2
  <1>5. LockCoversCopy'
    <2>1. stack'[t][Len(stack'[t])] = f /\ Len(stack'[t]) > 0
      BY <1>0, <1>1
    <2>2. \A u \in Threads : u # t => (Writing(u)' <=> Writing(u))
      BY <1>1 DEF Writing
    <2>3. CASE f.at \in WritePcs
      <3>1. \A u \in Threads : ~Writing(u)
        BY <2>3, BuiltinsAssumption DEF CallsInv, LockCoversCopy
      <3>2. lock' = t /\ Writing(t)' /\ f.got = table
        BY <2>1, <2>3 DEF Writing
      <3> QED
        BY <2>1, <2>2, <3>1, <3>2 DEF LockCoversCopy
    <2>4. CASE f.at \notin WritePcs
      <3>1. ~Writing(t)' /\ lock' = lock
        BY <2>1, <2>4 DEF Writing
      <3> QED
        BY <1>1, <2>2, <3>1 DEF CallsInv, LockCoversCopy
    <2> QED
      BY <2>3, <2>4
  <1> QED
    BY <1>2, <1>3, <1>4, <1>5 DEF CallsInv

\* A call that returns leaves its caller, if any, in a builtin.
LEMMA PopKeeps ==
    ASSUME CallsInv,
           NEW t \in Threads, Len(stack[t]) > 0, Pop(t),
           \A g \in Frames : Sound(g, table, regs) => Sound(g, table', regs')
    PROVE  /\ stack' \in [Threads -> Seq(Frames)]
           /\ FramesSound' /\ CallersInBuiltin'
           /\ ~Writing(t)'
           /\ \A u \in Threads : u # t => stack'[u] = stack[u]
  <1>0. stack \in [Threads -> Seq(Frames)] /\ Len(stack[t]) \in Nat
    BY LenProperties DEF CallsInv, Types
  <1>1. /\ stack' \in [Threads -> Seq(Frames)]
        /\ \A u \in Threads : u # t => stack'[u] = stack[u]
        /\ Len(stack'[t]) = Len(stack[t]) - 1
        /\ \A i \in 1..(Len(stack[t]) - 1) : stack'[t][i] = stack[t][i]
    BY <1>0, PopStack
  <1>2. FramesSound'
    <2> SUFFICES ASSUME NEW u \in Threads, NEW i \in 1..Len(stack'[u])
                 PROVE  Sound(stack'[u][i], table', regs')
      BY DEF FramesSound, Sound
    <2>1. i \in 1..Len(stack[u]) /\ stack'[u][i] = stack[u][i]
      <3>1. CASE u # t
        BY <1>1, <3>1
      <3>2. CASE u = t
        BY <1>0, <1>1, <3>2
      <3> QED
        BY <3>1, <3>2
    <2>2. stack[u][i] \in Frames
      BY <1>0, <2>1, ElementOfSeq
    <2> QED
      BY <2>1, <2>2 DEF CallsInv, FramesSound
  <1>3. CallersInBuiltin'
    <2> SUFFICES ASSUME NEW u \in Threads, NEW i \in 1..Len(stack'[u]),
                        i < Len(stack'[u])
                 PROVE  stack'[u][i].at = "call"
      BY DEF CallersInBuiltin
    <2>1. i \in 1..Len(stack[u]) /\ stack'[u][i] = stack[u][i] /\ i < Len(stack[u])
      <3>1. CASE u # t
        BY <1>1, <3>1
      <3>2. CASE u = t
        BY <1>0, <1>1, <3>2
      <3> QED
        BY <3>1, <3>2
    <2> QED
      BY <2>1 DEF CallsInv, CallersInBuiltin
  <1>4. ~Writing(t)'
    <2> SUFFICES ASSUME Len(stack'[t]) > 0
                 PROVE  stack'[t][Len(stack'[t])].at = "call"
      BY DEF Writing, WritePcs
    <2> QED
      BY <1>0, <1>1 DEF CallsInv, CallersInBuiltin
  <1> QED
    BY <1>1, <1>2, <1>3, <1>4

\* A call that returns without having written the registry.
LEMMA PopReads ==
    ASSUME CallsInv,
           NEW t \in Threads, Len(stack[t]) > 0, Pop(t), ~Writing(t),
           UNCHANGED <<table, lock, regs, last>>
    PROVE  CallsInv'
  <1>1. /\ stack' \in [Threads -> Seq(Frames)]
        /\ FramesSound' /\ CallersInBuiltin'
        /\ ~Writing(t)'
        /\ \A u \in Threads : u # t => stack'[u] = stack[u]
    BY PopKeeps
  <1>2. Types'
    BY <1>1 DEF CallsInv, Types
  <1>3. LockCoversCopy'
    BY <1>1 DEF CallsInv, LockCoversCopy, Writing
  <1> QED
    BY <1>1, <1>2, <1>3 DEF CallsInv

-----------------------------------------------------------------------------
(* The actions *)

\* The innermost call of a thread that has one.
LEMMA TopFrame ==
    ASSUME CallsInv, NEW t \in Threads, Depth(t) > 0
    PROVE  /\ Len(stack[t]) > 0 /\ Top(t) \in Frames
           /\ Sound(Top(t), table, regs)
           /\ Top(t) = stack[t][Len(stack[t])]
  <1>1. stack[t] \in Seq(Frames) /\ Len(stack[t]) \in Nat /\ Len(stack[t]) > 0
    BY LenProperties DEF CallsInv, Types, Depth
  <1> QED
    BY <1>1, ElementOfSeq DEF CallsInv, FramesSound, Top, Depth

\* Entering a call.
LEMMA EnterKeeps ==
    ASSUME Inv, NEW t \in Threads,
           \/ Evaluate(t)
           \/ \E n \in Names : Register(t, n) \/ Add(t, n) \/ Unregister(t, n)
    PROVE  CallsInv' /\ UNCHANGED <<table, regs, last>>
  <1>0. CallsInv /\ Numbered
    BY DEF Inv, CallsInv
  <1>1. CASE Evaluate(t)
    <2> DEFINE f == [at |-> "wait", name |-> Nobody, fn |-> 0, got |-> Nothing,
                     since |-> Floor, done |-> 0]
    <2>1. Enters(t) /\ Push(t, f) /\ UNCHANGED <<table, lock, regs, last>>
      BY <1>1 DEF Evaluate
    <2>2. Nothing \in [Names -> Nat] /\ Floor \in [Names -> Nat]
      BY <1>0 DEF Nothing, Floor, CallsInv, Types
    <2>3. f \in Frames
      BY <2>2 DEF Frames
    <2>4. Sound(f, table, regs)
      BY <1>0, <2>2 DEF Sound, NamedPcs, Nothing, Floor, Numbered, CallsInv, Types
    <2>5. f.at \notin WritePcs
      BY DEF WritePcs
    <2> HIDE DEF f
    <2> QED
      BY <1>0, <2>1, <2>3, <2>4, <2>5, PushKeeps
  <1>2. ASSUME NEW n \in Names, NEW at \in {"register", "add", "unregister"},
               Registers(t, n, at)
        PROVE  CallsInv' /\ UNCHANGED <<table, regs, last>>
    <2> DEFINE f == [at |-> at, name |-> n, fn |-> 0, got |-> Nothing,
                     since |-> Nothing, done |-> 0]
    <2>1. Enters(t) /\ Push(t, f) /\ UNCHANGED <<table, lock, regs, last>>
      BY <1>2 DEF Registers
    <2>2. Nothing \in [Names -> Nat]
      BY DEF Nothing
    <2>3. f \in Frames
      BY <2>2 DEF Frames, NamedPcs
    <2>4. Sound(f, table, regs)
      BY <1>0, <2>2 DEF Sound, NamedPcs, Nothing, CallsInv, Types
    <2>5. f.at \notin WritePcs
      BY DEF WritePcs
    <2> HIDE DEF f
    <2> QED
      BY <1>0, <2>1, <2>3, <2>4, <2>5, PushKeeps
  <1> QED
    BY <1>1, <1>2 DEF Register, Add, Unregister

\* register() and unregister() make their copy under the lock.
LEMMA CopyKeeps ==
    ASSUME Inv, NEW t \in Threads, Copy(t)
    PROVE  CallsInv' /\ UNCHANGED <<table, regs, last>>
  <1>0. CallsInv /\ Numbered
    BY DEF Inv, CallsInv
  <1>1. /\ Depth(t) > 0 /\ Top(t).at \in {"register", "add", "unregister"}
        /\ lock = Nobody /\ lock' = t /\ UNCHANGED <<table, regs, last>>
    BY DEF Copy, At
  <1>2. /\ Len(stack[t]) > 0 /\ Top(t) \in Frames
        /\ Sound(Top(t), table, regs)
        /\ Top(t) = stack[t][Len(stack[t])]
    BY <1>0, <1>1, TopFrame
  <1> DEFINE f == [Top(t) EXCEPT !.got = table,
                   !.at = IF @ = "unregister" THEN "remove" ELSE "publish"]
  <1>3. Becomes(t, f)
    BY DEF Copy
  <1>4. table \in [Names -> Nat] /\ regs \in Nat
    BY <1>0 DEF CallsInv, Types
  <1>5. f \in Frames /\ f.at \in WritePcs /\ f.got = table
    BY <1>2, <1>4 DEF Frames, NamedPcs, WritePcs
  <1>6. Sound(f, table, regs)
    BY <1>0, <1>1, <1>2, <1>4 DEF Sound, NamedPcs, Numbered, Frames
  <1>7. ~Writing(t)
    BY <1>1, <1>2 DEF Writing, WritePcs
  <1> HIDE DEF f
  <1> QED
    BY <1>0, <1>1, <1>2, <1>3, <1>5, <1>6, <1>7, BecomesKeeps

\* A call that goes on and reads at most the published dict.
LEMMA ReadKeeps ==
    ASSUME Inv, NEW t \in Threads,
           \/ TakeSlot(t) \/ \E n \in Names : Dispatch(t, n)
           \/ Snapshot(t) \/ Lookup(t) \/ LookupFails(t)
           \/ CallableReturns(t) \/ CallableFails(t)
    PROVE  CallsInv' /\ UNCHANGED <<table, regs, last>>
  <1>0. CallsInv /\ Numbered
    BY DEF Inv, CallsInv
  <1>1. table \in [Names -> Nat] /\ regs \in Nat /\ Nothing \in [Names -> Nat]
    BY <1>0 DEF CallsInv, Types, Nothing
  <1>2. /\ Depth(t) > 0
        /\ Top(t).at \in {"wait", "guest", "snapshot", "lookup", "call"}
        /\ UNCHANGED <<table, lock, regs, last>>
    BY DEF TakeSlot, Dispatch, Snapshot, Lookup, LookupFails, CallableReturns,
           CallableFails, At
  <1>3. /\ Len(stack[t]) > 0 /\ Top(t) \in Frames
        /\ Sound(Top(t), table, regs)
        /\ Top(t) = stack[t][Len(stack[t])]
    BY <1>0, <1>2, TopFrame
  <1>4. ~Writing(t)
    BY <1>2, <1>3 DEF Writing, WritePcs
  <1>5. ASSUME NEW f \in Frames, Becomes(t, f), Sound(f, table, regs),
               f.at \notin WritePcs
        PROVE  CallsInv' /\ UNCHANGED <<table, regs, last>>
    BY <1>0, <1>2, <1>3, <1>4, <1>5, BecomesKeeps
  <1> USE DEF NamedPcs, WritePcs
  <1>6. CASE TakeSlot(t)
    <2> DEFINE f == [Top(t) EXCEPT !.at = "guest"]
    <2>1. f \in Frames /\ Becomes(t, f) /\ f.at \notin WritePcs
      BY <1>3, <1>6 DEF TakeSlot, Frames
    <2>2. Sound(f, table, regs)
      BY <1>1, <1>3 DEF Sound, Frames
    <2> HIDE DEF f
    <2> QED
      BY <1>5, <2>1, <2>2
  <1>7. ASSUME NEW n \in Names, Dispatch(t, n)
        PROVE  CallsInv' /\ UNCHANGED <<table, regs, last>>
    <2> DEFINE f == [Top(t) EXCEPT !.at = "snapshot", !.name = n, !.done = @ + 1]
    <2>0. Becomes(t, f)
      BY <1>7 DEF Dispatch
    <2>1. f \in Frames /\ f.at \notin WritePcs
      <3>1. Top(t).done + 1 \in Nat
        BY <1>3 DEF Frames
      <3> QED
        BY <1>3, <3>1 DEF Frames
    <2>2. Sound(f, table, regs)
      BY <1>1, <1>3 DEF Sound, Frames
    <2> HIDE DEF f
    <2> QED
      BY <1>5, <2>0, <2>1, <2>2
  <1>8. CASE Snapshot(t)
    <2> DEFINE f == [Top(t) EXCEPT !.at = "lookup", !.got = table]
    <2>0. Top(t).at = "snapshot"
      BY <1>8 DEF Snapshot, At
    <2>1. f \in Frames /\ Becomes(t, f) /\ f.at \notin WritePcs
      BY <1>1, <1>3, <1>8 DEF Snapshot, Frames
    <2>2. Sound(f, table, regs)
      BY <1>0, <1>1, <1>3, <2>0 DEF Sound, Frames, Numbered
    <2> HIDE DEF f
    <2> QED
      BY <1>5, <2>1, <2>2
  <1>9. CASE Lookup(t)
    <2> DEFINE f == [Top(t) EXCEPT !.at = "call", !.got = Nothing,
                     !.fn = Top(t).got[Top(t).name]]
    <2>0. Top(t).at = "lookup" /\ Top(t).got[Top(t).name] # 0
      BY <1>9 DEF Lookup, At
    <2>1. f \in Frames /\ Becomes(t, f) /\ f.at \notin WritePcs
      BY <1>1, <1>3, <1>9, <2>0 DEF Lookup, Frames, Sound
    <2>2. Sound(f, table, regs)
      BY <1>1, <1>3, <2>0 DEF Sound, Frames, Nothing
    <2> HIDE DEF f
    <2> QED
      BY <1>5, <2>1, <2>2
  <1>10. CASE LookupFails(t)
    <2> DEFINE f == [Top(t) EXCEPT !.at = "failed", !.got = Nothing]
    <2>1. f \in Frames /\ Becomes(t, f) /\ f.at \notin WritePcs
      BY <1>1, <1>3, <1>10 DEF LookupFails, Frames
    <2>2. Sound(f, table, regs)
      BY <1>1, <1>3 DEF Sound, Frames, Nothing
    <2> HIDE DEF f
    <2> QED
      BY <1>5, <2>1, <2>2
  <1>11. CASE CallableReturns(t)
    <2> DEFINE f == [Top(t) EXCEPT !.at = "guest", !.fn = 0,
                     !.since[Top(t).name] = Top(t).fn]
    <2>0. Top(t).at = "call" /\ Top(t).name \in Names
      BY <1>3, <1>11 DEF CallableReturns, At, Sound
    <2>1. f \in Frames /\ Becomes(t, f) /\ f.at \notin WritePcs
      BY <1>1, <1>3, <1>11, <2>0 DEF CallableReturns, Frames
    <2>2. Sound(f, table, regs)
      BY <1>1, <1>3, <2>0, SMTT(20) DEF Sound, Frames
    <2> HIDE DEF f
    <2> QED
      BY <1>5, <2>1, <2>2
  <1>12. CASE CallableFails(t)
    <2> DEFINE f == [Top(t) EXCEPT !.at = "failed", !.fn = 0]
    <2>1. f \in Frames /\ Becomes(t, f) /\ f.at \notin WritePcs
      BY <1>1, <1>3, <1>12 DEF CallableFails, Frames
    <2>2. Sound(f, table, regs)
      BY <1>1, <1>3 DEF Sound, Frames
    <2> HIDE DEF f
    <2> QED
      BY <1>5, <2>1, <2>2
  <1> QED
    BY <1>6, <1>7, <1>8, <1>9, <1>10, <1>11, <1>12

\* A call that returns without having written the registry.
LEMMA ReturnKeeps ==
    ASSUME Inv, NEW t \in Threads, Refuse(t) \/ BorrowTimesOut(t) \/ EvalEnds(t)
    PROVE  CallsInv' /\ UNCHANGED <<table, regs, last>>
  <1>0. CallsInv
    BY DEF Inv, CallsInv
  <1>1. /\ Depth(t) > 0 /\ Pop(t)
        /\ Top(t).at \in {"add", "unregister", "wait", "guest", "failed"}
        /\ UNCHANGED <<table, lock, regs, last>>
    BY DEF Refuse, BorrowTimesOut, EvalEnds, At
  <1>2. Len(stack[t]) > 0 /\ ~Writing(t)
    BY <1>0, <1>1, TopFrame DEF Writing, WritePcs
  <1> QED
    BY <1>0, <1>1, <1>2, PopReads

\* The changed copy replaces the dict it was made of, and no other.
LEMMA PublishKeeps ==
    ASSUME Inv, NEW t \in Threads, Publish(t)
    PROVE  Inv'
  <1>0. CallsInv /\ Numbered /\ table = last
    BY DEF Inv, CallsInv, RegistrationsKept
  <1>1. /\ Depth(t) > 0 /\ Top(t).at \in WritePcs /\ Pop(t) /\ lock' = Nobody
        /\ regs' = IF Top(t).at = "publish" THEN regs + 1 ELSE regs
    BY DEF Publish, At, WritePcs
  <1>2. /\ Len(stack[t]) > 0 /\ Top(t) \in Frames
        /\ Sound(Top(t), table, regs)
        /\ Top(t) = stack[t][Len(stack[t])]
    BY <1>0, <1>1, TopFrame
  <1>3. Writing(t) /\ lock = t /\ Top(t).got = table
    BY <1>0, <1>1, <1>2 DEF Writing, CallsInv, LockCoversCopy
  <1>4. table \in [Names -> Nat] /\ regs \in Nat /\ Top(t).name \in Names
    BY <1>0, <1>1, <1>2 DEF CallsInv, Types, Sound, NamedPcs, WritePcs
  <1> DEFINE n == Top(t).name
             k == IF Top(t).at = "publish" THEN regs + 1 ELSE 0
  <1>5. /\ table' = [table EXCEPT ![n] = k] /\ last' = [last EXCEPT ![n] = k]
        /\ n \in Names /\ k \in Nat /\ k <= regs'
        /\ regs' \in Nat /\ regs <= regs'
        /\ k # 0 => k = regs + 1 /\ k = regs'
    BY <1>1, <1>3, <1>4 DEF Publish
  <1> HIDE DEF n, k
  <1>6. \A g \in Frames : Sound(g, table, regs) => Sound(g, table', regs')
    <2> SUFFICES ASSUME NEW g \in Frames, Sound(g, table, regs)
                 PROVE  Sound(g, table', regs')
      OBVIOUS
    <2>1. /\ g.since \in [Names -> Nat] /\ g.got \in [Names -> Nat]
          /\ g.fn \in Nat
      BY DEF Frames
    <2>2. ASSUME NEW m \in Names
          PROVE  /\ g.since[m] <= regs' + 1 /\ g.got[m] <= regs'
                 /\ table'[m] # 0 =>
                      g.since[m] <= table'[m] /\ g.got[m] <= table'[m]
                 /\ g.at = "lookup" /\ g.got[m] # 0 => g.since[m] <= g.got[m]
      BY <1>4, <1>5, <2>1 DEF Sound
    <2>3. g.at = "call" =>
            /\ g.since[g.name] <= g.fn /\ g.fn <= regs'
            /\ table'[g.name] # 0 => g.fn <= table'[g.name]
      BY <1>4, <1>5, <2>1 DEF Sound, NamedPcs
    <2> QED
      BY <2>2, <2>3 DEF Sound
  <1>7. /\ stack' \in [Threads -> Seq(Frames)]
        /\ FramesSound' /\ CallersInBuiltin'
        /\ ~Writing(t)'
        /\ \A u \in Threads : u # t => stack'[u] = stack[u]
    BY <1>0, <1>1, <1>2, <1>6, PopKeeps
  <1>8. Types' /\ Numbered' /\ RegistrationsKept'
    BY <1>0, <1>4, <1>5, <1>7 DEF CallsInv, Types, Numbered, RegistrationsKept
  <1>9. LockCoversCopy'
    <2>1. \A u \in Threads : ~Writing(u)'
      BY <1>0, <1>3, <1>7 DEF CallsInv, LockCoversCopy, Writing
    <2> QED
      BY <1>1, <2>1, BuiltinsAssumption DEF LockCoversCopy
  <1> QED
    BY <1>7, <1>8, <1>9 DEF Inv

-----------------------------------------------------------------------------
(* The theorems *)

\* The initial state satisfies the invariant: the defaults, and no call.
LEMMA InitInv == Init => Inv
  <1> SUFFICES ASSUME Init PROVE Inv
    OBVIOUS
  <1>1. stack = [t \in Threads |-> <<>>] /\ lock = Nobody
    BY DEF Init
  <1>2. \A t \in Threads : stack[t] = <<>> /\ Len(stack[t]) = 0 /\ lock # t
    BY <1>1, EmptySeq, BuiltinsAssumption
  <1>3. Types
    BY <1>1, EmptySeq DEF Init, Types
  <1>4. Numbered /\ RegistrationsKept
    BY DEF Init, Numbered, RegistrationsKept
  <1>5. FramesSound /\ CallersInBuiltin
    BY <1>2 DEF FramesSound, CallersInBuiltin
  <1>6. LockCoversCopy
    <2>1. ASSUME NEW t \in Threads PROVE ~Writing(t)
      <3>1. ~(Len(stack[t]) > 0)
        BY <1>2
      <3> QED
        BY <3>1 DEF Writing
    <2> QED
      BY <1>2, <2>1 DEF LockCoversCopy
  <1> QED
    BY <1>3, <1>4, <1>5, <1>6 DEF Inv

\* The invariant is inductive.
LEMMA Invariance == Spec => []Inv
  <1>1. ASSUME Inv, CallsInv', UNCHANGED <<table, regs, last>>
        PROVE  Inv'
    BY <1>1 DEF Inv, CallsInv, Numbered, RegistrationsKept
  <1>2. Inv /\ [Next]_vars => Inv'
    <2> SUFFICES ASSUME Inv, [Next]_vars PROVE Inv'
      OBVIOUS
    <2>1. CASE UNCHANGED vars
      BY <2>1 DEF Inv, Types, Numbered, FramesSound, CallersInBuiltin,
             LockCoversCopy, RegistrationsKept, Writing, vars
    <2>2. ASSUME NEW t \in Threads,
                 \/ Evaluate(t)
                 \/ \E n \in Names : Register(t, n) \/ Add(t, n) \/ Unregister(t, n)
          PROVE  Inv'
      BY <1>1, <2>2, EnterKeeps
    <2>3. ASSUME NEW t \in Threads, Step(t) PROVE Inv'
      <3>1. CASE Copy(t)
        BY <1>1, <3>1, CopyKeeps
      <3>2. CASE Publish(t)
        BY <3>2, PublishKeeps
      <3>3. CASE Refuse(t) \/ BorrowTimesOut(t) \/ EvalEnds(t)
        BY <1>1, <3>3, ReturnKeeps
      <3>4. CASE \/ TakeSlot(t) \/ \E n \in Names : Dispatch(t, n)
                 \/ Snapshot(t) \/ Lookup(t) \/ LookupFails(t)
                 \/ CallableReturns(t) \/ CallableFails(t)
        BY <1>1, <3>4, ReadKeeps
      <3> QED
        BY <2>3, <3>1, <3>2, <3>3, <3>4 DEF Step
    <2>4. CASE Finished
      BY <2>1, <2>4 DEF Finished
    <2> QED
      BY <2>1, <2>2, <2>3, <2>4 DEF Next
  <1> QED
    BY <1>2, InitInv, PTL DEF Spec

\* No register() or unregister() is lost, however those of several threads and
\* of running builtins interleave (BuiltinRegistry._lock).
THEOREM NoRegistrationLost == Spec => []RegistrationsKept
  BY Invariance, PTL DEF Inv

\* A builtin that an evaluation calls is not older than the one registered when
\* the evaluation began, nor than the one it called before by that name
\* (OpaPolicyInstance._dispatch_builtin).
THEOREM DispatchIsFresh == Spec => []FreshDispatch
  <1>1. Inv => FreshDispatch
    <2> SUFFICES ASSUME Inv, NEW t \in Threads, NEW i \in 1..Depth(t),
                        stack[t][i].at = "call"
                 PROVE  stack[t][i].fn >= stack[t][i].since[stack[t][i].name]
      BY DEF FreshDispatch
    <2>1. stack[t][i] \in Frames /\ Sound(stack[t][i], table, regs)
      BY ElementOfSeq DEF Inv, Types, FramesSound, Depth
    <2> QED
      BY <2>1 DEF Sound, Frames, NamedPcs
  <1> QED
    BY <1>1, Invariance, PTL
=============================================================================
