------------------------- MODULE BuiltinCallsProofs -------------------------
(***************************************************************************)
(* What Codec and BuiltinCalls promise for every width of an address,      *)
(* every memory, every size limit and every format: the two loops,         *)
(* read_cstring() over its chunks and _sprintf() over its pieces, compute  *)
(* what their definitions say, and the checks on pointers and ranges       *)
(* refuse exactly what they should.                                        *)
(***************************************************************************)
EXTENDS BuiltinCalls, FiniteSetTheorems, SequenceTheorems, WellFoundedInduction,
        TLAPS

WriteOps == {"input", "data", "builtin"}
ReadOps  == {"dump", "result"}
FoundPcs == {"size", "tooLarge", "notJson", "done"}

\* Ranges of the variables.
Types ==
    /\ mem \in Seq({0, 1})
    /\ size \in Nat /\ raw \in Nat /\ addr \in Int

\* Which operation is at which step; nothing is left from before it began.
Steps ==
    /\ op = "none" => at = "start" /\ out = 0 /\ pieces = <<>> /\ used = 0
    /\ at \in {"malloc", "write", "parse"} => op \in WriteOps
    /\ at = "parse" => op # "input"
    /\ at \in {"read", "scan", "size", "unterminated", "tooLarge", "notJson"} =>
         op \in ReadOps
    /\ at \in {"format", "returned"} => op = "builtin"
    /\ at = "stored" => op = "data" /\ Serialises(kind, size)

\* A pointer that passed its check is the address the guest meant.
Pointers ==
    /\ at = "write" => addr > 0 /\ addr = raw
    /\ at = "read" => out = 0 /\ (addr >= 0 => addr = raw) /\ (raw = 0 => addr = 0)

NoNulBefore(p) == \A i \in addr..(p - 1) : mem[i + 1] # 0

\* The loop of read_cstring(): what was collected is what lies between addr and
\* pos, and there is no NUL in it.
Scanning ==
    at = "scan" =>
        /\ 0 <= addr /\ raw = addr /\ pos \in Int
        /\ addr <= pos /\ pos <= MemLen /\ addr < MemLen
        /\ out = pos - addr /\ out <= ScanBytes
        /\ NoNulBefore(pos)

\* Its result: the first NUL lies out bytes after addr.
Found ==
    op \in ReadOps /\ at \in FoundPcs =>
        /\ 0 <= addr /\ raw = addr /\ out \in Nat
        /\ addr + out < MemLen /\ mem[addr + out + 1] = 0
        /\ NoNulBefore(addr + out)
        /\ out < ScanBytes
        /\ at = "tooLarge" => out > ResultBytes
        /\ at \in {"notJson", "done"} => out <= ResultBytes
        /\ at = "done" => out > 0

NotFound ==
    op \in ReadOps /\ at = "unterminated" => \A n \in Lengths : n >= ScanBytes

\* The i-th piece of a format, if a verb, has an operand that it converts ...
Fits(fmt, args, i) ==
    fmt[i] \in Verbs =>
        /\ VerbsIn(fmt, i) <= Len(args)
        /\ Converts(fmt[i], args[VerbsIn(fmt, i)])

\* ... and this is what it becomes.
Chunk(fmt, args, i) ==
    IF fmt[i] \in Verbs THEN <<fmt[i], args[VerbsIn(fmt, i)]>> ELSE <<fmt[i]>>

\* The loop of _sprintf(): a prefix of the format is converted, with one operand
\* for every verb in it.
FormatLoop ==
    at = "format" =>
        /\ call.fmt \in Seq(Pieces) /\ call.args \in Seq(Operands)
        /\ pieces \in Seq(Seq(Pieces \cup Operands))
        /\ Len(pieces) <= Len(call.fmt)
        /\ used = VerbsIn(call.fmt, Len(pieces))
        /\ \A i \in 1..Len(pieces) :
             /\ Fits(call.fmt, call.args, i)
             /\ pieces[i] = Chunk(call.fmt, call.args, i)

Inv ==
    /\ Types /\ Steps /\ Pointers /\ Scanning /\ Found /\ NotFound
    /\ FormatLoop /\ WritesExact /\ StoredLoads /\ SprintfExact

-----------------------------------------------------------------------------
(* Numbers *)

\* A power of two is the number of subsets of a set.
LEMMA PowerOfTwo == ASSUME NEW n \in Nat PROVE 2 ^ n \in Nat /\ 2 ^ n > 0
  <1>1. IsFiniteSet(1..n) /\ Cardinality(1..n) = n
    BY FS_Interval
  <1>2. /\ IsFiniteSet(SUBSET (1..n))
        /\ Cardinality(SUBSET (1..n)) = 2 ^ Cardinality(1..n)
    BY <1>1, FS_SUBSET
  <1>3. Cardinality(SUBSET (1..n)) \in Nat
    BY <1>2, FS_CardinalityType
  <1>4. Cardinality(SUBSET (1..n)) # 0
    <2>1. {} \in SUBSET (1..n)
      OBVIOUS
    <2> QED
      BY <1>2, <2>1, FS_EmptySet, Zenon
  <1> QED
    BY <1>1, <1>2, <1>3, <1>4

\* What Python makes of an address: the upper half of them looks negative.
LEMMA SignedAddress ==
    ASSUME NEW p \in Addresses
    PROVE  /\ p \in Nat /\ Signed(p) \in Int
           /\ Signed(p) >= 0 => Signed(p) = p
           /\ p = 0 => Signed(p) = 0
           /\ Signed(p) <= 0 => p = 0 \/ p >= 2 ^ (Width - 1)
  <1>1. Width \in Nat /\ Width - 1 \in Nat
    BY CodecAssumption
  <1>2. /\ 2 ^ Width \in Nat /\ 2 ^ Width > 0
        /\ 2 ^ (Width - 1) \in Nat /\ 2 ^ (Width - 1) > 0
    BY <1>1, PowerOfTwo
  <1> DEFINE all == 2 ^ Width
             half == 2 ^ (Width - 1)
  <1>3. p \in 0..(all - 1) /\ Signed(p) = IF p < half THEN p ELSE p - all
    BY DEF Addresses, Signed
  <1>4. all \in Nat /\ all > 0 /\ half \in Nat /\ half > 0
    BY <1>2
  <1> HIDE DEF all, half
  <1>5. /\ p \in Nat /\ Signed(p) \in Int
        /\ Signed(p) >= 0 => Signed(p) = p
        /\ p = 0 => Signed(p) = 0
        /\ Signed(p) <= 0 => p = 0 \/ p >= half
    BY <1>3, <1>4
  <1> QED
    BY <1>5 DEF half

\* A set of natural numbers has a least element.
LEMMA LeastOf ==
    ASSUME NEW S, S \subseteq Nat, S # {}
    PROVE  MinOf(S) \in S /\ \A y \in S : MinOf(S) <= y
  <1>1. PICK x \in S : \A y \in S : ~(<<y, x>> \in OpToRel(<, Nat))
    BY NatLessThanWellFounded, WFMin
  <1>2. \A y \in S : ~(y < x)
    BY <1>1 DEF OpToRel
  <1>3. \A y \in S : x <= y
    BY <1>2
  <1> QED
    BY <1>3 DEF MinOf

\* There is only one.
LEMMA LeastIs ==
    ASSUME NEW S, S \subseteq Nat, NEW m \in S, \A y \in S : m <= y
    PROVE  MinOf(S) = m
  <1>1. MinOf(S) \in S /\ \A y \in S : MinOf(S) <= y
    BY LeastOf
  <1>2. m \in Nat /\ MinOf(S) \in Nat /\ m <= MinOf(S) /\ MinOf(S) <= m
    BY <1>1
  <1> QED
    BY <1>2

\* The end of a chunk is the nearest of its three bounds.
LEMMA EndOfChunk ==
    ASSUME MemLen \in Nat, pos \in Int, out \in Int
    PROVE  /\ End \in Int
           /\ End <= pos + ChunkBytes
           /\ End <= pos + (ScanBytes - out)
           /\ End <= MemLen
           /\ End \in {pos + ChunkBytes, pos + (ScanBytes - out), MemLen}
  <1> DEFINE a == pos + ChunkBytes
             b == pos + (ScanBytes - out)
             c == MemLen
  <1>1. a \in Int /\ b \in Int /\ c \in Int /\ End = MinOf({a, b, c})
    BY CodecAssumption DEF End
  <1> HIDE DEF a, b, c
  <1>2. \E x \in {a, b, c} : \A y \in {a, b, c} : x <= y
    BY <1>1
  <1>3. End \in {a, b, c} /\ \A y \in {a, b, c} : End <= y
    BY <1>1, <1>2 DEF MinOf
  <1> QED
    BY <1>1, <1>3 DEF a, b, c

\* A piece that is no verb adds none, and a verb adds one.
LEMMA VerbsInStep ==
    ASSUME NEW fmt, NEW n \in Nat
    PROVE  /\ VerbsIn(fmt, 0) = 0
           /\ VerbsIn(fmt, n) \in Nat
           /\ VerbsIn(fmt, n + 1) =
                IF fmt[n + 1] \in Verbs THEN VerbsIn(fmt, n) + 1 ELSE VerbsIn(fmt, n)
  <1> DEFINE S == {i \in 1..n : fmt[i] \in Verbs}
             T == {i \in 1..(n + 1) : fmt[i] \in Verbs}
  <1>1. VerbsIn(fmt, 0) = 0
    <2>1. {i \in 1..0 : fmt[i] \in Verbs} = {}
      OBVIOUS
    <2> QED
      BY <2>1, FS_EmptySet DEF VerbsIn
  <1>2. IsFiniteSet(S) /\ Cardinality(S) \in Nat
    <2>1. IsFiniteSet(1..n)
      BY FS_Interval
    <2>2. S \in SUBSET (1..n)
      OBVIOUS
    <2>3. IsFiniteSet(S)
      BY <2>1, <2>2, FS_Subset
    <2> QED
      BY <2>3, FS_CardinalityType
  <1>3. n + 1 \notin S
    OBVIOUS
  <1>4. CASE fmt[n + 1] \in Verbs
    <2>1. T = S \cup {n + 1}
      BY <1>4
    <2>2. Cardinality(T) = Cardinality(S) + 1
      BY <1>2, <1>3, <2>1, FS_AddElement
    <2> QED
      BY <1>1, <1>2, <1>4, <2>2 DEF VerbsIn
  <1>5. CASE fmt[n + 1] \notin Verbs
    <2>1. T = S
      BY <1>5
    <2> QED
      BY <1>1, <1>2, <1>5, <2>1 DEF VerbsIn
  <1> QED
    BY <1>4, <1>5

\* A memory, before and after a write.
LEMMA MemoryTypes ==
    /\ \A m \in Memories : m \in Seq({0, 1})
    /\ Types /\ WriteBytes => mem' \in Seq({0, 1}) /\ Len(mem') = Len(mem)
  <1>1. ASSUME NEW m \in Memories PROVE m \in Seq({0, 1})
    <2>1. PICK n \in MemorySizes : m \in [1..n -> {0, 1}]
      BY DEF Memories
    <2>2. n \in Nat
      BY CodecAssumption
    <2> QED
      BY <2>1, <2>2
  <1>2. ASSUME Types, WriteBytes
        PROVE  mem' \in Seq({0, 1}) /\ Len(mem') = Len(mem)
    <2>1. mem \in Seq({0, 1}) /\ Len(mem) \in Nat
      BY <1>2, LenProperties DEF Types
    <2>2. CASE UNCHANGED mem
      BY <2>1, <2>2
    <2>3. CASE mem' = [i \in 1..MemLen |->
                         IF i \in (addr + 1)..(addr + size) THEN 1 ELSE mem[i]]
      <3>1. \A i \in 1..Len(mem) : mem[i] \in {0, 1}
        BY <2>1, ElementOfSeq
      <3>2. mem' \in [1..Len(mem) -> {0, 1}]
        BY <2>3, <3>1 DEF MemLen
      <3> QED
        BY <2>1, <3>2
    <2> QED
      BY <1>2, <2>2, <2>3 DEF WriteBytes
  <1> QED
    BY <1>1, <1>2

-----------------------------------------------------------------------------
(* The checks on pointers, ranges and documents *)

\* The first part of the invariant.
Checks == Types /\ Steps /\ Pointers /\ WritesExact /\ StoredLoads

\* Every step of the codec keeps the ranges.
LEMMA OperationTypes ==
    ASSUME Types, Operation
    PROVE  Types'
  <1>0. \A p \in Addresses : p \in Nat /\ Signed(p) \in Int
    BY SignedAddress
  <1> USE CodecAssumption, MemoryTypes DEF Types, docVars, scanVars
  <1>1. ASSUME NEW k \in Kinds, NEW n \in DocSizes, SetData(k, n)
        PROVE  Types'
    BY <1>1, <1>0 DEF SetData
  <1>2. ASSUME NEW k \in Kinds, NEW n \in DocSizes, NEW v \in BOOLEAN, EncodeInput(k, n, v)
        PROVE  Types'
    BY <1>2, <1>0 DEF EncodeInput
  <1>3. ASSUME NEW p \in Addresses, Malloc(p)
        PROVE  Types'
    BY <1>3, <1>0 DEF Malloc, Pointer
  <1>4. ASSUME NEW p \in Addresses, Parse(p)
        PROVE  Types'
    BY <1>4, <1>0 DEF Parse, Pointer
  <1>5. ASSUME NEW p \in Addresses, Dump(p)
        PROVE  Types'
    BY <1>5, <1>0 DEF Dump, Pointer
  <1>6. ASSUME NEW p \in Addresses, EvalResult(p)
        PROVE  Types'
    BY <1>6, <1>0 DEF EvalResult
  <1>7. CASE LoadData
    BY <1>7, <1>0 DEF LoadData
  <1>8. CASE WriteBytes
    BY <1>8, <1>0 DEF WriteBytes
  <1>9. CASE ReadStarts
    BY <1>9, <1>0 DEF ReadStarts
  <1>10. CASE ScanChunk
    BY <1>10, <1>0 DEF ScanChunk
  <1>11. CASE ScanFinds
    BY <1>11, <1>0 DEF ScanFinds, Goto
  <1>12. CASE ScanGivesUp
    BY <1>12, <1>0 DEF ScanGivesUp, Goto
  <1>13. CASE CheckSize
    BY <1>13, <1>0 DEF CheckSize
  <1> QED
    BY <1>1, <1>2, <1>3, <1>4, <1>5, <1>6, <1>7, <1>8, <1>9, <1>10, <1>11,
       <1>12, <1>13 DEF Operation

\* Every step of the codec finds and leaves its operation where it belongs.
LEMMA OperationSteps ==
    ASSUME Types, Steps, Operation, UNCHANGED builtinVars
    PROVE  Steps'
  <1> USE CodecAssumption DEF Types, Steps, WriteOps, ReadOps, docVars, scanVars,
          builtinVars
  <1>1. ASSUME NEW k \in Kinds, NEW n \in DocSizes, SetData(k, n)
        PROVE  Steps'
    BY <1>1 DEF SetData, Refusal, Serialises
  <1>2. ASSUME NEW k \in Kinds, NEW n \in DocSizes, NEW v \in BOOLEAN, EncodeInput(k, n, v)
        PROVE  Steps'
    BY <1>2 DEF EncodeInput, Refusal
  <1>3. ASSUME NEW p \in Addresses, Malloc(p)
        PROVE  Steps'
    BY <1>3 DEF Malloc, Pointer
  <1>4. ASSUME NEW p \in Addresses, Parse(p)
        PROVE  Steps'
    BY <1>4 DEF Parse, Pointer
  <1>5. ASSUME NEW p \in Addresses, Dump(p)
        PROVE  Steps'
    BY <1>5 DEF Dump, Pointer
  <1>6. ASSUME NEW p \in Addresses, EvalResult(p)
        PROVE  Steps'
    BY <1>6 DEF EvalResult
  <1>7. CASE LoadData
    BY <1>7 DEF LoadData
  <1>8. CASE WriteBytes
    BY <1>8 DEF WriteBytes
  <1>9. CASE ReadStarts
    BY <1>9 DEF ReadStarts
  <1>10. CASE ScanChunk
    BY <1>10 DEF ScanChunk
  <1>11. CASE ScanFinds
    BY <1>11 DEF ScanFinds, Goto
  <1>12. CASE ScanGivesUp
    BY <1>12 DEF ScanGivesUp, Goto
  <1>13. CASE CheckSize
    BY <1>13 DEF CheckSize
  <1> QED
    BY <1>1, <1>2, <1>3, <1>4, <1>5, <1>6, <1>7, <1>8, <1>9, <1>10, <1>11,
       <1>12, <1>13 DEF Operation

\* A checked pointer is the one the guest meant, and an unchecked one is unless
\* it looks negative.
LEMMA OperationPointers ==
    ASSUME Types, Steps, Pointers, Operation
    PROVE  Pointers'
  <1>0. \A p \in Addresses :
          /\ p \in Nat /\ Signed(p) \in Int
          /\ Signed(p) >= 0 => Signed(p) = p
          /\ p = 0 => Signed(p) = 0
    BY SignedAddress
  <1> USE DEF Types, Steps, Pointers, docVars, scanVars
  <1>1. ASSUME NEW k \in Kinds, NEW n \in DocSizes, SetData(k, n)
        PROVE  Pointers'
    BY <1>1, <1>0 DEF SetData, Refusal
  <1>2. ASSUME NEW k \in Kinds, NEW n \in DocSizes, NEW v \in BOOLEAN, EncodeInput(k, n, v)
        PROVE  Pointers'
    BY <1>2, <1>0 DEF EncodeInput, Refusal
  <1>3. ASSUME NEW p \in Addresses, Malloc(p)
        PROVE  Pointers'
    BY <1>3, <1>0 DEF Malloc, Pointer
  <1>4. ASSUME NEW p \in Addresses, Parse(p)
        PROVE  Pointers'
    BY <1>4, <1>0 DEF Parse, Pointer
  <1>5. ASSUME NEW p \in Addresses, Dump(p)
        PROVE  Pointers'
    BY <1>5, <1>0 DEF Dump, Pointer
  <1>6. ASSUME NEW p \in Addresses, EvalResult(p)
        PROVE  Pointers'
    BY <1>6, <1>0 DEF EvalResult
  <1>7. CASE LoadData
    BY <1>7, <1>0 DEF LoadData
  <1>8. CASE WriteBytes
    BY <1>8, <1>0 DEF WriteBytes
  <1>9. CASE ReadStarts
    BY <1>9, <1>0 DEF ReadStarts
  <1>10. CASE ScanChunk
    BY <1>10, <1>0 DEF ScanChunk
  <1>11. CASE ScanFinds
    BY <1>11, <1>0 DEF ScanFinds, Goto
  <1>12. CASE ScanGivesUp
    BY <1>12, <1>0 DEF ScanGivesUp, Goto
  <1>13. CASE CheckSize
    BY <1>13, <1>0 DEF CheckSize
  <1> QED
    BY <1>1, <1>2, <1>3, <1>4, <1>5, <1>6, <1>7, <1>8, <1>9, <1>10, <1>11,
       <1>12, <1>13 DEF Operation

\* A write is refused for its pointer or its range, and for nothing else.
LEMMA OperationWrites ==
    ASSUME Types, Steps, Pointers, WritesExact, Operation
    PROVE  WritesExact'
  <1>0. \A p \in Addresses :
          /\ p \in Nat /\ Signed(p) \in Int
          /\ Signed(p) <= 0 => p = 0 \/ p >= 2 ^ (Width - 1)
    BY SignedAddress
  <1>len. MemLen \in Nat
    BY LenProperties DEF Types, MemLen
  <1> USE DEF Types, Steps, Pointers, WritesExact, WriteOps, ReadOps, docVars, scanVars
  <1>1. ASSUME NEW k \in Kinds, NEW n \in DocSizes, SetData(k, n)
        PROVE  WritesExact'
    BY <1>1, <1>0 DEF SetData, Refusal
  <1>2. ASSUME NEW k \in Kinds, NEW n \in DocSizes, NEW v \in BOOLEAN, EncodeInput(k, n, v)
        PROVE  WritesExact'
    BY <1>2, <1>0 DEF EncodeInput, Refusal
  <1>3. ASSUME NEW p \in Addresses, Malloc(p)
        PROVE  WritesExact'
    BY <1>3, <1>0 DEF Malloc, Pointer
  <1>4. ASSUME NEW p \in Addresses, Parse(p)
        PROVE  WritesExact'
    BY <1>4, <1>0 DEF Parse, Pointer
  <1>5. ASSUME NEW p \in Addresses, Dump(p)
        PROVE  WritesExact'
    BY <1>5, <1>0 DEF Dump, Pointer
  <1>6. ASSUME NEW p \in Addresses, EvalResult(p)
        PROVE  WritesExact'
    BY <1>6, <1>0 DEF EvalResult
  <1>7. CASE LoadData
    BY <1>7, <1>0 DEF LoadData
  <1>8. CASE WriteBytes
    <2>1. addr = raw /\ addr > 0 /\ MemLen' = MemLen /\ op \in WriteOps
      BY <1>8, MemoryTypes DEF WriteBytes, MemLen
    <2>2. CASE InRange(addr, size)
      BY <1>8, <1>len, <2>1, <2>2 DEF WriteBytes, InRange
    <2>3. CASE ~InRange(addr, size)
      BY <1>8, <1>len, <2>1, <2>3 DEF WriteBytes, InRange
    <2> QED
      BY <2>2, <2>3
  <1>9. CASE ReadStarts
    BY <1>9, <1>0 DEF ReadStarts
  <1>10. CASE ScanChunk
    BY <1>10, <1>0 DEF ScanChunk
  <1>11. CASE ScanFinds
    BY <1>11, <1>0 DEF ScanFinds, Goto
  <1>12. CASE ScanGivesUp
    BY <1>12, <1>0 DEF ScanGivesUp, Goto
  <1>13. CASE CheckSize
    BY <1>13, <1>0 DEF CheckSize
  <1> QED
    BY <1>1, <1>2, <1>3, <1>4, <1>5, <1>6, <1>7, <1>8, <1>9, <1>10, <1>11,
       <1>12, <1>13 DEF Operation

\* The checks of load_data() accept what those of set_data() accepted.
LEMMA OperationLoads ==
    ASSUME Types, Steps, StoredLoads, Operation
    PROVE  StoredLoads'
  <1> USE DEF Steps, StoredLoads, WriteOps, ReadOps, docVars, scanVars
  <1>1. ASSUME NEW k \in Kinds, NEW n \in DocSizes, SetData(k, n)
        PROVE  StoredLoads'
    BY <1>1 DEF SetData, Refusal, Serialises, Coerces, Loads, IsJson
  <1>2. ASSUME NEW k \in Kinds, NEW n \in DocSizes, NEW v \in BOOLEAN, EncodeInput(k, n, v)
        PROVE  StoredLoads'
    BY <1>2 DEF EncodeInput
  <1>3. ASSUME NEW p \in Addresses, Malloc(p)
        PROVE  StoredLoads'
    BY <1>3 DEF Malloc, Pointer
  <1>4. ASSUME NEW p \in Addresses, Parse(p)
        PROVE  StoredLoads'
    <2>1. p = 0 => Signed(p) = 0
      BY SignedAddress
    <2> QED
      BY <1>4, <2>1 DEF Parse, Pointer
  <1>5. ASSUME NEW p \in Addresses, Dump(p)
        PROVE  StoredLoads'
    BY <1>5 DEF Dump, Pointer
  <1>6. ASSUME NEW p \in Addresses, EvalResult(p)
        PROVE  StoredLoads'
    BY <1>6 DEF EvalResult
  <1>7. CASE LoadData
    BY <1>7 DEF LoadData, Serialises, Coerces, Loads
  <1>8. CASE WriteBytes
    BY <1>8 DEF WriteBytes
  <1>9. CASE ReadStarts
    BY <1>9 DEF ReadStarts
  <1>10. CASE ScanChunk
    BY <1>10 DEF ScanChunk
  <1>11. CASE ScanFinds
    BY <1>11 DEF ScanFinds, Goto
  <1>12. CASE ScanGivesUp
    BY <1>12 DEF ScanGivesUp, Goto
  <1>13. CASE CheckSize
    BY <1>13 DEF CheckSize
  <1> QED
    BY <1>1, <1>2, <1>3, <1>4, <1>5, <1>6, <1>7, <1>8, <1>9, <1>10, <1>11,
       <1>12, <1>13 DEF Operation

\* The builtins touch neither pointers nor documents, but hand their result on.
LEMMA BuiltinChecks ==
    ASSUME Checks,
           \/ \E c \in Calls : Invoke(c)
           \/ Copy \/ Convert \/ ConvertFails \/ FormatEnds
           \/ \E n \in DocSizes : EncodeResult(n)
    PROVE  Checks'
  <1> USE CodecAssumption DEF Checks, Types, Steps, Pointers, WritesExact,
          StoredLoads, WriteOps, ReadOps, docVars, scanVars, MemLen
  <1>1. ASSUME NEW c \in Calls, Invoke(c)
        PROVE  Checks'
    BY <1>1 DEF Invoke
  <1>2. CASE Copy
    BY <1>2 DEF Copy, Formatting, vars
  <1>3. CASE Convert
    BY <1>3 DEF Convert, Formatting, vars
  <1>4. CASE ConvertFails
    BY <1>4 DEF ConvertFails, builtinVars
  <1>5. CASE FormatEnds
    BY <1>5 DEF FormatEnds, Goto, builtinVars
  <1>6. ASSUME NEW n \in DocSizes, EncodeResult(n)
        PROVE  Checks'
    BY <1>6 DEF EncodeResult
  <1> QED
    BY <1>1, <1>2, <1>3, <1>4, <1>5, <1>6

-----------------------------------------------------------------------------
(* read_cstring() *)

\* The second part of the invariant.
Scan == Scanning /\ Found /\ NotFound

\* A step to which the loop is nothing.
LEMMA NoScan ==
    ASSUME at' \notin FoundPcs \cup {"scan", "unterminated"} \/ op' \notin ReadOps,
           at' # "scan"
    PROVE  Scan'
  BY DEF Scan, Scanning, Found, NotFound, FoundPcs

\* The loop starts at addr with nothing collected.
LEMMA ScanStarts ==
    ASSUME Types, Steps, Pointers, ReadStarts
    PROVE  Scan'
  <1>1. MemLen \in Nat /\ addr \in Int
    BY LenProperties DEF Types, MemLen
  <1>2. out = 0 /\ (addr >= 0 => addr = raw) /\ at = "read"
    BY DEF ReadStarts, Pointers
  <1>3. CASE addr < 0 \/ addr >= MemLen
    <2>1. at' = "badRange"
      BY <1>3 DEF ReadStarts
    <2> QED
      BY <2>1, NoScan DEF FoundPcs
  <1>4. CASE ~(addr < 0 \/ addr >= MemLen)
    <2>1. /\ at' = "scan" /\ pos' = addr /\ out' = 0 /\ addr' = addr /\ raw' = raw
          /\ mem' = mem
      BY <1>2, <1>4 DEF ReadStarts
    <2>2. Scanning'
      BY <1>1, <1>2, <1>4, <2>1, CodecAssumption DEF Scanning, MemLen, NoNulBefore
    <2> QED
      BY <2>1, <2>2 DEF Scan, Found, NotFound, FoundPcs
  <1> QED
    BY <1>3, <1>4

\* A chunk without a NUL extends what was collected.
LEMMA ScanGoesOn ==
    ASSUME Types, Scan, ScanChunk
    PROVE  Scan'
  <1>1. MemLen \in Nat /\ addr \in Int
    BY LenProperties DEF Types, MemLen
  <1>2. /\ at = "scan" /\ 0 <= addr /\ raw = addr /\ pos \in Int
        /\ addr <= pos /\ pos <= MemLen /\ addr < MemLen
        /\ out = pos - addr /\ out <= ScanBytes
        /\ NoNulBefore(pos)
    BY DEF ScanChunk, Scan, Scanning
  <1>3. /\ End \in Int /\ End <= MemLen /\ End <= pos + (ScanBytes - out)
    BY <1>1, <1>2, EndOfChunk
  <1>4. /\ End > pos /\ Nuls = {} /\ out' = out + (End - pos) /\ pos' = End
        /\ at' = at /\ mem' = mem /\ raw' = raw /\ addr' = addr /\ op' = op
    BY DEF ScanChunk
  <1>5. \A i \in addr..(End - 1) : mem[i + 1] # 0
    <2> SUFFICES ASSUME NEW i \in addr..(End - 1) PROVE mem[i + 1] # 0
      OBVIOUS
    <2>1. CASE i < pos
      BY <1>1, <1>2, <1>3, <2>1 DEF NoNulBefore
    <2>2. CASE i >= pos
      <3>1. i \in pos..(End - 1)
        BY <1>1, <1>2, <1>3, <2>2
      <3> QED
        BY <1>4, <3>1 DEF Nuls
    <2> QED
      BY <1>1, <1>2, <1>3, <2>1, <2>2
  <1>6. Scanning'
    <2>1. NoNulBefore(pos)'
      BY <1>4, <1>5 DEF NoNulBefore
    <2>2. MemLen' = MemLen
      BY <1>4 DEF MemLen
    <2>3. out' = pos' - addr' /\ out' <= ScanBytes /\ addr' <= pos' /\ pos' <= MemLen
      BY <1>1, <1>2, <1>3, <1>4, CodecAssumption
    <2> QED
      BY <1>2, <1>3, <1>4, <2>1, <2>2, <2>3 DEF Scanning
  <1> QED
    BY <1>2, <1>4, <1>6 DEF Scan, Found, NotFound, FoundPcs

\* The first NUL of a chunk is the first of all.
LEMMA ScanEnds ==
    ASSUME Types, Scan, ScanFinds
    PROVE  Scan'
  <1>1. MemLen \in Nat /\ addr \in Int
    BY LenProperties DEF Types, MemLen
  <1>2. /\ 0 <= addr /\ raw = addr /\ pos \in Int
        /\ addr <= pos /\ pos <= MemLen /\ addr < MemLen
        /\ out = pos - addr /\ out <= ScanBytes
        /\ NoNulBefore(pos)
    BY DEF ScanFinds, Goto, Scan, Scanning
  <1>3. /\ End \in Int /\ End <= MemLen /\ End <= pos + (ScanBytes - out)
    BY <1>1, <1>2, EndOfChunk
  <1> DEFINE j == MinOf(Nuls)
  <1>4. /\ Nuls # {} /\ out' = out + (j - pos)
        /\ at' = "size" /\ mem' = mem /\ raw' = raw /\ addr' = addr /\ op' = op
    BY DEF ScanFinds, Goto
  <1>5. Nuls \subseteq Nat
    BY <1>1, <1>2, <1>3 DEF Nuls
  <1>6. j \in Nuls /\ \A y \in Nuls : j <= y
    BY <1>4, <1>5, LeastOf
  <1>7. j \in Int /\ pos <= j /\ j < End /\ mem[j + 1] = 0
    BY <1>2, <1>3, <1>6 DEF Nuls
  <1> HIDE DEF j
  <1>8. addr + out' = j /\ out' \in Nat /\ out' < ScanBytes /\ j < MemLen
    BY <1>1, <1>2, <1>3, <1>4, <1>7, CodecAssumption
  <1>9. \A i \in addr..(j - 1) : mem[i + 1] # 0
    <2> SUFFICES ASSUME NEW i \in addr..(j - 1) PROVE mem[i + 1] # 0
      OBVIOUS
    <2>1. CASE i < pos
      BY <1>1, <1>2, <1>7, <2>1 DEF NoNulBefore
    <2>2. CASE i >= pos
      <3>1. i \in pos..(End - 1) /\ ~(j <= i)
        BY <1>1, <1>2, <1>3, <1>7, <2>2
      <3> QED
        BY <1>6, <3>1 DEF Nuls
    <2> QED
      BY <1>1, <1>2, <1>7, <2>1, <2>2
  <1>10. Found'
    <2>1. addr' + out' = j /\ MemLen' = MemLen
      BY <1>4, <1>8 DEF MemLen
    <2>2. NoNulBefore(addr + out)'
      BY <1>4, <1>9, <2>1 DEF NoNulBefore
    <2> QED
      BY <1>2, <1>4, <1>7, <1>8, <2>1, <2>2 DEF Found
  <1> QED
    BY <1>4, <1>10 DEF Scan, Scanning, NotFound

\* The loop gives up at the end of the budget or of the memory.
LEMMA ScanExhausted ==
    ASSUME Types, Scan, ScanGivesUp
    PROVE  Scan'
  <1>1. MemLen \in Nat /\ addr \in Int
    BY LenProperties DEF Types, MemLen
  <1>2. /\ 0 <= addr /\ raw = addr /\ pos \in Int
        /\ addr <= pos /\ pos <= MemLen /\ addr < MemLen
        /\ out = pos - addr /\ out <= ScanBytes
        /\ NoNulBefore(pos)
    BY DEF ScanGivesUp, Goto, Scan, Scanning
  <1>3. End \in {pos + ChunkBytes, pos + (ScanBytes - out), MemLen} /\ End \in Int
    BY <1>1, <1>2, EndOfChunk
  <1>4. /\ at' = "unterminated" /\ (out >= ScanBytes \/ End <= pos)
        /\ mem' = mem /\ addr' = addr
    BY DEF ScanGivesUp, Goto, scanVars
  <1>5. out >= ScanBytes \/ pos >= MemLen
    BY <1>1, <1>2, <1>3, <1>4, CodecAssumption
  <1>6. \A n \in Lengths : n >= ScanBytes
    <2> SUFFICES ASSUME NEW n \in 0..(MemLen - 1), addr + n < MemLen,
                        mem[addr + n + 1] = 0
                 PROVE  n >= ScanBytes
      BY DEF Lengths
    <2>1. ~(addr + n < pos)
      BY <1>1, <1>2 DEF NoNulBefore
    <2> QED
      BY <1>1, <1>2, <1>5, <2>1, CodecAssumption
  <1>7. Lengths' = Lengths
    BY <1>4 DEF Lengths, MemLen
  <1> QED
    BY <1>4, <1>6, <1>7 DEF Scan, Scanning, Found, NotFound, FoundPcs

\* The guard on the size keeps what the loop found.
LEMMA ScanChecked ==
    ASSUME Types, Steps, Scan, CheckSize
    PROVE  Scan'
  <1>1. /\ at = "size" /\ at' \in {"tooLarge", "notJson", "done"}
        /\ at' = "tooLarge" => out > ResultBytes
        /\ at' \in {"notJson", "done"} => out <= ResultBytes
        /\ at' = "done" => out \in 1..ResultBytes
        /\ mem' = mem /\ op' = op /\ raw' = raw /\ addr' = addr /\ out' = out
    BY CodecAssumption DEF CheckSize, scanVars
  <1>2. Found
    BY DEF Scan
  <1>3. Found'
    <2>1. op \in ReadOps /\ at \in FoundPcs
      BY <1>1 DEF Steps, FoundPcs
    <2>2. MemLen' = MemLen /\ (NoNulBefore(addr + out)' <=> NoNulBefore(addr + out))
      BY <1>1 DEF MemLen, NoNulBefore
    <2> QED
      BY <1>1, <1>2, <2>1, <2>2, CodecAssumption DEF Found
  <1> QED
    BY <1>1, <1>3 DEF Scan, Scanning, NotFound

\* Every step of the codec keeps the loop's invariant and its result.
LEMMA OperationScan ==
    ASSUME Types, Steps, Pointers, Scan, Operation
    PROVE  Scan'
  <1>1. ASSUME NEW k \in Kinds, NEW n \in DocSizes, SetData(k, n)
        PROVE  Scan'
    BY <1>1, NoScan DEF SetData, Refusal, FoundPcs, Steps, ReadOps
  <1>2. ASSUME NEW k \in Kinds, NEW n \in DocSizes, NEW v \in BOOLEAN, EncodeInput(k, n, v)
        PROVE  Scan'
    BY <1>2, NoScan DEF EncodeInput, Refusal, FoundPcs, Steps, ReadOps
  <1>3. ASSUME NEW p \in Addresses, Malloc(p)
        PROVE  Scan'
    BY <1>3, NoScan DEF Malloc, Pointer, FoundPcs, Steps, ReadOps, WriteOps
  <1>4. ASSUME NEW p \in Addresses, Parse(p)
        PROVE  Scan'
    BY <1>4, NoScan DEF Parse, Pointer, FoundPcs, Steps, ReadOps, WriteOps
  <1>5. ASSUME NEW p \in Addresses, Dump(p)
        PROVE  Scan'
    BY <1>5, NoScan DEF Dump, Pointer, FoundPcs
  <1>6. ASSUME NEW p \in Addresses, EvalResult(p)
        PROVE  Scan'
    BY <1>6, NoScan DEF EvalResult, FoundPcs
  <1>7. CASE LoadData
    BY <1>7, NoScan DEF LoadData, FoundPcs, Steps, ReadOps
  <1>8. CASE WriteBytes
    BY <1>8, NoScan DEF WriteBytes, FoundPcs, Steps, ReadOps, WriteOps
  <1>9. CASE ReadStarts
    BY <1>9, ScanStarts
  <1>10. CASE ScanChunk
    BY <1>10, ScanGoesOn
  <1>11. CASE ScanFinds
    BY <1>11, ScanEnds
  <1>12. CASE ScanGivesUp
    BY <1>12, ScanExhausted
  <1>13. CASE CheckSize
    BY <1>13, ScanChecked
  <1> QED
    BY <1>1, <1>2, <1>3, <1>4, <1>5, <1>6, <1>7, <1>8, <1>9, <1>10, <1>11,
       <1>12, <1>13 DEF Operation

\* No step of a builtin is a step of the loop.
LEMMA BuiltinScan ==
    ASSUME \/ \E c \in Calls : Invoke(c)
           \/ Copy \/ Convert \/ ConvertFails \/ FormatEnds
           \/ \E n \in DocSizes : EncodeResult(n)
    PROVE  Scan'
  <1>1. ASSUME NEW c \in Calls, Invoke(c)
        PROVE  Scan'
    BY <1>1, NoScan DEF Invoke, FoundPcs, ReadOps
  <1>2. CASE Copy
    BY <1>2, NoScan DEF Copy, Formatting, vars, FoundPcs, ReadOps
  <1>3. CASE Convert
    BY <1>3, NoScan DEF Convert, Formatting, vars, FoundPcs, ReadOps
  <1>4. CASE ConvertFails
    BY <1>4, NoScan DEF ConvertFails, builtinVars, FoundPcs, ReadOps
  <1>5. CASE FormatEnds
    BY <1>5, NoScan DEF FormatEnds, Goto, builtinVars, FoundPcs, ReadOps
  <1>6. ASSUME NEW n \in DocSizes, EncodeResult(n)
        PROVE  Scan'
    BY <1>6, NoScan DEF EncodeResult, FoundPcs, ReadOps
  <1> QED
    BY <1>1, <1>2, <1>3, <1>4, <1>5, <1>6

-----------------------------------------------------------------------------
(* _sprintf() *)

\* The third part of the invariant.
Formats == FormatLoop /\ SprintfExact

\* The codec is never at a step of a builtin.
LEMMA OperationFormats ==
    ASSUME Operation
    PROVE  Formats'
  <1>1. at' \notin {"format", "returned", "builtinError"}
    <2>1. ASSUME NEW k \in Kinds, NEW n \in DocSizes, SetData(k, n)
          PROVE  at' \notin {"format", "returned", "builtinError"}
      BY <2>1 DEF SetData, Refusal
    <2>2. ASSUME NEW k \in Kinds, NEW n \in DocSizes, NEW v \in BOOLEAN, EncodeInput(k, n, v)
          PROVE  at' \notin {"format", "returned", "builtinError"}
      BY <2>2 DEF EncodeInput, Refusal
    <2>3. ASSUME NEW p \in Addresses, Malloc(p)
          PROVE  at' \notin {"format", "returned", "builtinError"}
      BY <2>3 DEF Malloc, Pointer
    <2>4. ASSUME NEW p \in Addresses, Parse(p)
          PROVE  at' \notin {"format", "returned", "builtinError"}
      BY <2>4 DEF Parse, Pointer
    <2>5. ASSUME NEW p \in Addresses, Dump(p)
          PROVE  at' \notin {"format", "returned", "builtinError"}
      BY <2>5 DEF Dump, Pointer
    <2>6. ASSUME NEW p \in Addresses, EvalResult(p)
          PROVE  at' \notin {"format", "returned", "builtinError"}
      BY <2>6 DEF EvalResult
    <2>7. CASE LoadData
      BY <2>7 DEF LoadData
    <2>8. CASE WriteBytes
      BY <2>8 DEF WriteBytes
    <2>9. CASE ReadStarts
      BY <2>9 DEF ReadStarts
    <2>10. CASE ScanChunk
      BY <2>10 DEF ScanChunk
    <2>11. CASE ScanFinds
      BY <2>11 DEF ScanFinds, Goto
    <2>12. CASE ScanGivesUp
      BY <2>12 DEF ScanGivesUp, Goto
    <2>13. CASE CheckSize
      BY <2>13 DEF CheckSize
    <2> QED
      BY <2>1, <2>2, <2>3, <2>4, <2>5, <2>6, <2>7, <2>8, <2>9, <2>10,
         <2>11, <2>12, <2>13 DEF Operation
  <1> QED
    BY <1>1 DEF Formats, FormatLoop, SprintfExact

\* A call begins with its whole format ahead.
LEMMA InvokeFormats ==
    ASSUME Steps, NEW c \in Calls, Invoke(c)
    PROVE  Formats'
  <1>1. /\ op = "none" /\ pieces = <<>> /\ used = 0 /\ call' = c
        /\ pieces' = <<>> /\ used' = 0
    BY DEF Invoke, Steps
  <1>2. CASE c.fn = "sprintf"
    <2>1. /\ c.fmt \in SeqsUpTo(Pieces, MaxPieces) \cup {Other}
          /\ c.args \in SeqsUpTo(Operands, MaxOperands) \cup {Other}
      BY <1>2 DEF Calls
    <2>2. CASE c.fmt = Other \/ c.args = Other
      <3>1. at' = "builtinError"
        BY <1>2, <2>2 DEF Invoke
      <3> QED
        BY <1>1, <2>2, <3>1 DEF Formats, FormatLoop, SprintfExact
    <2>3. CASE ~(c.fmt = Other \/ c.args = Other)
      <3>1. at' = "format"
        BY <1>2, <2>3 DEF Invoke
      <3>2. c.fmt \in Seq(Pieces) /\ c.args \in Seq(Operands)
        BY <2>1, <2>3, BuiltinCallsAssumption DEF SeqsUpTo
      <3>3. VerbsIn(c.fmt, 0) = 0
        BY VerbsInStep
      <3>4. Len(c.fmt) \in Nat /\ Len(<<>>) = 0
        BY <3>2, LenProperties, EmptySeq
      <3>5. FormatLoop'
        BY <1>1, <3>2, <3>3, <3>4, EmptySeq DEF FormatLoop
      <3> QED
        BY <3>1, <3>5 DEF Formats, SprintfExact
    <2> QED
      BY <2>2, <2>3
  <1>3. CASE c.fn # "sprintf"
    <2>1. at' # "format"
      BY <1>3 DEF Invoke
    <2> QED
      BY <1>1, <1>3, <2>1 DEF Formats, FormatLoop, SprintfExact
  <1> QED
    BY <1>2, <1>3

\* Facts that every step of the loop starts from.
LEMMA AtPiece ==
    ASSUME FormatLoop, at = "format", Len(pieces) < Len(call.fmt)
    PROVE  /\ call.fmt \in Seq(Pieces) /\ call.args \in Seq(Operands)
           /\ Len(pieces) \in Nat /\ Len(call.fmt) \in Nat /\ Len(call.args) \in Nat
           /\ Len(pieces) + 1 \in DOMAIN call.fmt
           /\ Piece \in Pieces /\ used \in Nat
           /\ VerbsIn(call.fmt, Len(pieces) + 1) =
                IF Piece \in Verbs THEN used + 1 ELSE used
  <1>1. /\ call.fmt \in Seq(Pieces) /\ call.args \in Seq(Operands)
        /\ pieces \in Seq(Seq(Pieces \cup Operands))
        /\ used = VerbsIn(call.fmt, Len(pieces))
    BY DEF FormatLoop
  <1>2. /\ Len(pieces) \in Nat /\ Len(call.fmt) \in Nat /\ Len(call.args) \in Nat
        /\ DOMAIN call.fmt = 1..Len(call.fmt)
    BY <1>1, LenProperties
  <1>3. Len(pieces) + 1 \in 1..Len(call.fmt)
    BY <1>2
  <1>4. Piece \in Pieces
    BY <1>1, <1>3, ElementOfSeq DEF Piece
  <1>5. /\ used \in Nat
        /\ VerbsIn(call.fmt, Len(pieces) + 1) =
             IF Piece \in Verbs THEN used + 1 ELSE used
    BY <1>1, <1>2, VerbsInStep DEF Piece
  <1> QED
    BY <1>1, <1>2, <1>3, <1>4, <1>5

\* One more piece, as it should be, keeps the loop's invariant.
LEMMA PieceAdded ==
    ASSUME FormatLoop, at = "format", Len(pieces) < Len(call.fmt),
           NEW x \in Seq(Pieces \cup Operands), pieces' = Append(pieces, x),
           UNCHANGED <<at, call>>,
           used' = VerbsIn(call.fmt, Len(pieces) + 1),
           Fits(call.fmt, call.args, Len(pieces) + 1),
           x = Chunk(call.fmt, call.args, Len(pieces) + 1)
    PROVE  FormatLoop'
  <1>1. /\ call.fmt \in Seq(Pieces) /\ call.args \in Seq(Operands)
        /\ pieces \in Seq(Seq(Pieces \cup Operands))
        /\ \A i \in 1..Len(pieces) :
             /\ Fits(call.fmt, call.args, i)
             /\ pieces[i] = Chunk(call.fmt, call.args, i)
    BY DEF FormatLoop
  <1>2. Len(pieces) \in Nat /\ Len(call.fmt) \in Nat
    BY <1>1, LenProperties
  <1>3. /\ pieces' \in Seq(Seq(Pieces \cup Operands))
        /\ Len(pieces') = Len(pieces) + 1
        /\ \A i \in 1..Len(pieces) : pieces'[i] = pieces[i]
        /\ pieces'[Len(pieces) + 1] = x
    BY <1>1, AppendProperties
  <1>4. ASSUME NEW i \in 1..Len(pieces')
        PROVE  /\ Fits(call.fmt, call.args, i)
               /\ pieces'[i] = Chunk(call.fmt, call.args, i)
    <2>1. CASE i \in 1..Len(pieces)
      BY <1>1, <1>3, <2>1
    <2>2. CASE i = Len(pieces) + 1
      BY <1>3, <2>2
    <2> QED
      BY <1>2, <1>3, <2>1, <2>2
  <1>5. call' = call /\ at' = at /\ Len(pieces') <= Len(call.fmt)
        /\ used' = VerbsIn(call.fmt, Len(pieces'))
    BY <1>2, <1>3
  <1> QED
    BY <1>1, <1>3, <1>4, <1>5 DEF FormatLoop, Fits, Chunk

\* Text and %% are copied and use no operand.
LEMMA CopyFormats ==
    ASSUME Formats, Copy
    PROVE  Formats'
  <1>1. /\ FormatLoop /\ at = "format" /\ Len(pieces) < Len(call.fmt)
        /\ Piece \notin Verbs /\ pieces' = Append(pieces, <<Piece>>)
        /\ used' = used /\ UNCHANGED <<at, call>>
    BY DEF Formats, Copy, Formatting, vars
  <1>2. Piece \in Pieces /\ VerbsIn(call.fmt, Len(pieces) + 1) = used
    BY <1>1, AtPiece
  <1>3. <<Piece>> \in Seq(Pieces \cup Operands)
    BY <1>2
  <1>4. /\ Fits(call.fmt, call.args, Len(pieces) + 1)
        /\ <<Piece>> = Chunk(call.fmt, call.args, Len(pieces) + 1)
    BY <1>1 DEF Fits, Chunk, Piece
  <1>5. FormatLoop'
    BY <1>1, <1>2, <1>3, <1>4, PieceAdded
  <1> QED
    BY <1>1, <1>5 DEF Formats, SprintfExact

\* A verb takes the operand with its own number among the verbs.
LEMMA ConvertFormats ==
    ASSUME Formats, Convert
    PROVE  Formats'
  <1> DEFINE operand == call.args[used + 1]
  <1>1. /\ FormatLoop /\ at = "format" /\ Len(pieces) < Len(call.fmt)
        /\ Piece \in Verbs /\ NextConverts
        /\ pieces' = Append(pieces, <<Piece, operand>>)
        /\ used' = used + 1 /\ UNCHANGED <<at, call>>
    BY DEF Formats, Convert, Formatting, vars
  <1>2. /\ Piece \in Pieces /\ VerbsIn(call.fmt, Len(pieces) + 1) = used + 1
        /\ call.args \in Seq(Operands) /\ used \in Nat /\ Len(call.args) \in Nat
    BY <1>1, AtPiece
  <1>3. used + 1 \in 1..Len(call.args) /\ Converts(Piece, operand)
    BY <1>1, <1>2 DEF NextConverts
  <1>4. operand \in Operands
    BY <1>2, <1>3, ElementOfSeq
  <1>5. <<Piece, operand>> \in Seq(Pieces \cup Operands)
    BY <1>2, <1>4
  <1>6. /\ Fits(call.fmt, call.args, Len(pieces) + 1)
        /\ <<Piece, operand>> = Chunk(call.fmt, call.args, Len(pieces) + 1)
    BY <1>1, <1>2, <1>3 DEF Fits, Chunk, Piece
  <1> HIDE DEF operand
  <1>7. FormatLoop'
    BY <1>1, <1>2, <1>5, <1>6, PieceAdded
  <1> QED
    BY <1>1, <1>7 DEF Formats, SprintfExact

\* A call that fails in the loop has a verb that has to fail.
LEMMA ConvertFailsFormats ==
    ASSUME Formats, ConvertFails
    PROVE  Formats'
  <1>1. /\ FormatLoop /\ at = "format" /\ Len(pieces) < Len(call.fmt)
        /\ Piece \in Verbs /\ ~NextConverts
        /\ at' = "builtinError" /\ UNCHANGED <<call, pieces, used>>
    BY DEF Formats, ConvertFails, builtinVars
  <1>2. /\ Len(pieces) + 1 \in DOMAIN call.fmt
        /\ VerbsIn(call.fmt, Len(pieces) + 1) = used + 1
        /\ used \in Nat /\ Len(call.args) \in Nat
    BY <1>1, AtPiece
  <1>3. ~Fits(call.fmt, call.args, Len(pieces) + 1)
    BY <1>1, <1>2 DEF Fits, NextConverts, Piece
  <1>4. SprintfExact'
    BY <1>1, <1>2, <1>3 DEF SprintfExact, Fits
  <1> QED
    BY <1>1, <1>4 DEF Formats, FormatLoop

\* A call that comes to the end of its format has converted every verb.
LEMMA FormatEndsFormats ==
    ASSUME Formats, FormatEnds
    PROVE  Formats'
  <1>1. /\ FormatLoop /\ at = "format" /\ Len(pieces) = Len(call.fmt)
        /\ at' = "returned" /\ UNCHANGED <<call, pieces, used>>
    BY DEF Formats, FormatEnds, Goto, builtinVars
  <1>2. /\ call.fmt \in Seq(Pieces) /\ pieces \in Seq(Seq(Pieces \cup Operands))
        /\ \A i \in 1..Len(pieces) :
             /\ Fits(call.fmt, call.args, i)
             /\ pieces[i] = Chunk(call.fmt, call.args, i)
    BY <1>1 DEF FormatLoop
  <1>3. DOMAIN call.fmt = 1..Len(pieces) /\ pieces \in [1..Len(pieces) -> Seq(Pieces \cup Operands)]
    BY <1>1, <1>2, LenProperties
  <1>4. pieces = [i \in DOMAIN call.fmt |-> Chunk(call.fmt, call.args, i)]
    BY <1>2, <1>3
  <1>5. SprintfExact'
    BY <1>1, <1>2, <1>3, <1>4 DEF SprintfExact, Fits, Chunk
  <1> QED
    BY <1>1, <1>5 DEF Formats, FormatLoop

\* The result goes to the codec and the call is over.
LEMMA EncodeFormats ==
    ASSUME NEW n \in DocSizes, EncodeResult(n)
    PROVE  Formats'
  BY DEF EncodeResult, Formats, FormatLoop, SprintfExact

-----------------------------------------------------------------------------
(* The theorems *)

\* The initial state satisfies the invariant: nothing has begun.
LEMMA InitInv == InitAll => Inv
  <1> SUFFICES ASSUME InitAll PROVE Inv
    OBVIOUS
  <1>1. at = "start" /\ op = "none"
    BY DEF InitAll, Init
  <1>2. Types /\ Steps
    BY EmptySeq DEF InitAll, Init, Types, Steps
  <1>3. Pointers /\ Scanning /\ Found /\ NotFound /\ FormatLoop
    BY <1>1 DEF Pointers, Scanning, Found, NotFound, FormatLoop, ReadOps
  <1>4. WritesExact /\ StoredLoads /\ SprintfExact
    BY <1>1 DEF WritesExact, StoredLoads, SprintfExact
  <1> QED
    BY <1>2, <1>3, <1>4 DEF Inv

\* The invariant is inductive.
LEMMA Invariance == SpecAll => []Inv
  <1>1. Inv <=> Checks /\ Scan /\ Formats
    BY DEF Inv, Checks, Scan, Formats
  <1>2. ASSUME Checks', Scan', Formats' PROVE Inv'
    BY <1>2 DEF Inv, Checks, Scan, Formats
  <1>3. Inv /\ [NextAll]_allVars => Inv'
    <2> SUFFICES ASSUME Inv, [NextAll]_allVars PROVE Inv'
      OBVIOUS
    <2>1. CASE UNCHANGED allVars
      BY <2>1 DEF Inv, Types, Steps, Pointers, Scanning, Found, NotFound, FormatLoop,
             NoNulBefore, WritesExact, StoredLoads, SprintfExact, Lengths, MemLen,
             allVars, vars, builtinVars, docVars, scanVars
    <2>2. CASE Operation /\ UNCHANGED builtinVars
      <3>1. Types /\ Steps /\ Pointers /\ WritesExact /\ StoredLoads /\ Scan
        BY <1>1 DEF Checks
      <3>2. Types' /\ Steps' /\ Pointers' /\ WritesExact' /\ StoredLoads'
        BY <2>2, <3>1, OperationTypes, OperationSteps, OperationPointers,
           OperationWrites, OperationLoads
      <3>3. Scan' /\ Formats'
        BY <2>2, <3>1, OperationScan, OperationFormats
      <3> QED
        BY <1>2, <3>2, <3>3 DEF Checks
    <2>3. CASE \/ \E c \in Calls : Invoke(c)
               \/ Copy \/ Convert \/ ConvertFails \/ FormatEnds
               \/ \E n \in DocSizes : EncodeResult(n)
      <3>1. Checks' /\ Scan'
        BY <1>1, <2>3, BuiltinChecks, BuiltinScan
      <3>2. Steps /\ Formats
        BY <1>1 DEF Checks
      <3>3. Formats'
        BY <2>3, <3>2, InvokeFormats, CopyFormats, ConvertFormats,
           ConvertFailsFormats, FormatEndsFormats, EncodeFormats
      <3> QED
        BY <1>2, <3>1, <3>3
    <2>4. CASE FinishedAll
      BY <2>1, <2>4 DEF FinishedAll, Finished, allVars
    <2> QED
      BY <2>1, <2>2, <2>3, <2>4 DEF NextAll
  <1> QED
    BY <1>3, InitInv, PTL DEF SpecAll

\* read_cstring() against its definition, for every memory, chunk size and
\* budget: it stops at the first NUL, wherever the borders of the chunks fall,
\* gives up only where there is none within the budget, and the string is
\* parsed if it is within the size limit and refused if it is not.
THEOREM ScanIsExact == SpecAll => []ScanExact
  <1>1. Inv => ScanExact
    <2> SUFFICES ASSUME Inv, op \in ReadOps PROVE ScanExact
      BY DEF ScanExact, ReadOps
    <2>1. Types /\ Found /\ NotFound
      BY DEF Inv
    <2>2. MemLen \in Nat /\ addr \in Int
      BY <2>1, LenProperties DEF Types, MemLen
    <2>3. ASSUME at \in FoundPcs
          PROVE  /\ Lengths # {} /\ out = MinOf(Lengths) /\ out < ScanBytes
                 /\ at = "tooLarge" => out > ResultBytes
                 /\ at \in {"notJson", "done"} => out <= ResultBytes
                 /\ raw = 0 /\ mem[1] = 0 => at # "done"
      <3>1. /\ 0 <= addr /\ raw = addr /\ out \in Nat
            /\ addr + out < MemLen /\ mem[addr + out + 1] = 0
            /\ NoNulBefore(addr + out) /\ out < ScanBytes
            /\ at = "tooLarge" => out > ResultBytes
            /\ at \in {"notJson", "done"} => out <= ResultBytes
            /\ at = "done" => out > 0
        BY <2>1, <2>3 DEF Found
      <3>2. out \in Lengths /\ Lengths \subseteq Nat
        BY <2>2, <3>1 DEF Lengths
      <3>3. ASSUME NEW n \in Lengths PROVE out <= n
        BY <2>2, <3>1, <3>3 DEF Lengths, NoNulBefore
      <3>4. out = MinOf(Lengths)
        BY <3>2, <3>3, LeastIs
      <3>5. ASSUME raw = 0, mem[1] = 0 PROVE out = 0
        BY <2>2, <3>1, <3>5 DEF NoNulBefore
      <3> QED
        BY <3>1, <3>2, <3>4, <3>5
    <2> QED
      BY <2>1, <2>3 DEF ScanExact, FoundPcs, NotFound
  <1> QED
    BY <1>1, Invariance, PTL

\* A write is made where the guest meant it, inside its memory, and refused for
\* nothing but NULL, a pointer that looks negative, or a range past the end.
THEOREM WritesAreExact == SpecAll => []WritesExact
  BY Invariance, PTL DEF Inv

\* What set_data() has accepted, the codec accepts in every instance, and it is
\* JSON but for the literals NaN and Infinity, with which it never loads.
THEOREM StoredDocumentsLoad == SpecAll => []StoredLoads
  BY Invariance, PTL DEF Inv

\* _sprintf() against its definition, for every format and all operands: the
\* k-th verb gets the k-th operand, and it fails exactly when it has to.
THEOREM SprintfIsExact == SpecAll => []SprintfExact
  BY Invariance, PTL DEF Inv
=============================================================================
