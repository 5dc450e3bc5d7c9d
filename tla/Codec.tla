------------------------------- MODULE Codec -------------------------------
(***************************************************************************)
(* MemoryCodec (memory.py): JSON documents into and out of guest memory,   *)
(* with the checks on sizes, pointers and ranges and the bounded scan for  *)
(* a terminating NUL; and OpaWasmPolicy._serialise_data (policy.py), which *)
(* vets a document once, before every instance loads it.                   *)
(*                                                                         *)
(* A behaviour is one operation: an input is encoded and written, a data   *)
(* document is stored and loaded, an OPA value is dumped and read, or the  *)
(* result of opa_eval is read.  The first guest call finds a memory with   *)
(* any contents.  The guest may return any address, an unsigned number of  *)
(* Width bits that reaches Python as a signed one.                         *)
(***************************************************************************)
EXTENDS Integers, Sequences, FiniteSets

CONSTANTS
    Width,          \* bits of an address (i32 in the code)
    MemorySizes,    \* bound: sizes of the guest memory
    DocSizes,       \* bound: sizes of encoded documents
    ChunkBytes,     \* _CSTRING_CHUNK
    ScanBytes,      \* max_cstring_scan_bytes
    ResultBytes,    \* max_result_bytes
    InputBytes,     \* max_input_bytes
    DataBytes       \* max_data_bytes

ASSUME CodecAssumption ==
    /\ Width \in Nat \ {0} /\ ChunkBytes \in Nat \ {0}
    /\ ScanBytes \in Nat \ {0} /\ ResultBytes \in Nat \ {0}
    /\ InputBytes \in Nat /\ DataBytes \in Nat
    /\ MemorySizes \subseteq Nat /\ DocSizes \subseteq Nat

VARIABLES
    mem,     \* the guest memory once it is used; address a is mem[a + 1], NUL is 0
    op,      \* "none", "input", "data", "dump", "result" or "builtin"
    at,      \* the step it is at, "done", or the check that refused it
    kind,    \* what is encoded, see Kinds
    size,    \* its size in bytes
    raw,     \* the address as the guest means it
    addr,    \* the address as Python sees it
    pos,     \* read_cstring: next address to read
    out      \* read_cstring: bytes collected

docVars  == <<kind, size>>
scanVars == <<pos, out>>
vars == <<mem, op, at, docVars, raw, addr, scanVars>>

\* A Python object that json.dumps accepts, one that it does not (NaN too,
\* for allow_nan=False), and str or bytes: a JSON document, one that is JSON
\* but for a NaN or Infinity literal, one that json.loads rejects, and a str
\* with a lone surrogate, which has no UTF-8 encoding.
Kinds == {"object", "badObject", "text", "nanText", "badText", "surrogate"}

\* What RFC 8259 and OPA's parser take for JSON.
IsJson(k) == k \in {"object", "text"}

MemLen == Len(mem)
Addresses == 0..(2 ^ Width - 1)
Signed(a) == IF a < 2 ^ (Width - 1) THEN a ELSE a - 2 ^ Width
MinOf(S) == CHOOSE x \in S : \A y \in S : x <= y

Memories == UNION {[1..n -> {0, 1}] : n \in MemorySizes}

Init ==
    /\ mem = <<>>
    /\ op = "none" /\ at = "start" /\ kind = "object" /\ size = 0
    /\ raw = 0 /\ addr = 0 /\ pos = 0 /\ out = 0

Goto(from, to) == at = from /\ at' = to

-----------------------------------------------------------------------------
(* Encoding                                                                *)

\* json.loads, which takes the literals NaN and Infinity.
Loads(k) == k \in {"text", "nanText"}

\* _coerce_to_json_bytes(): text is validated or passed on, objects dumped.
Coerces(k, validate) ==
    \/ k = "object"
    \/ k \in {"text", "nanText", "badText"} /\ (validate => Loads(k))

\* How a document is refused: with the error of the checks, but str.encode()
\* stands outside of their try blocks and its UnicodeEncodeError is not wrapped.
Refusal(k, checked) == IF k = "surrogate" THEN "unicodeError" ELSE checked

\* _serialise_data(): what set_data() accepts.
SerialisesAnySize(k, n) == Coerces(k, TRUE)   \* mutant: no size check
Serialises(k, n) == Coerces(k, TRUE) /\ n <= DataBytes

SetData(k, n) ==
    /\ op = "none" /\ op' = "data"
    /\ at' = IF Serialises(k, n) THEN "stored" ELSE Refusal(k, "rejected")
    /\ kind' = k /\ size' = n
    /\ UNCHANGED <<mem, raw, addr, scanVars>>

\* load_data(): the stored bytes go through the codec again.
LoadData ==
    /\ at = "stored"
    /\ kind' = IF kind = "object" THEN "text" ELSE kind
    /\ at' = IF Coerces(kind', TRUE) /\ size <= DataBytes
             THEN "malloc" ELSE "notEncoded"
    /\ UNCHANGED <<mem, op, size, raw, addr, scanVars>>

\* encode_input()
EncodeInput(k, n, validate) ==
    /\ op = "none" /\ op' = "input"
    /\ at' = IF Coerces(k, validate) /\ n <= InputBytes
             THEN "malloc" ELSE Refusal(k, "notEncoded")
    /\ kind' = k /\ size' = n
    /\ UNCHANGED <<mem, raw, addr, scanVars>>

-----------------------------------------------------------------------------
(* Writing                                                                 *)

\* A guest call returns p, and _check_pointer refuses NULL and negatives.
Pointer(p, to) ==
    /\ raw' = p /\ addr' = Signed(p)
    /\ at' = IF addr' <= 0 THEN "badPointer" ELSE to

Malloc(p) ==
    /\ at = "malloc"
    /\ mem' \in Memories
    /\ Pointer(p, "write")
    /\ UNCHANGED <<op, docVars, scanVars>>

\* _check_range()
InRangeStrict(a, n) == a >= 0 /\ a + n < MemLen   \* mutant: < for <=
InRange(a, n)       == a >= 0 /\ a + n <= MemLen

WriteBytes ==
    /\ at = "write"
    /\ IF InRange(addr, size)
       THEN /\ mem' = [i \in 1..MemLen |->
                         IF i \in (addr + 1)..(addr + size) THEN 1 ELSE mem[i]]
            /\ at' = IF op = "input" THEN "done" ELSE "parse"
       ELSE at' = "badRange" /\ UNCHANGED mem
    /\ UNCHANGED <<op, docVars, raw, addr, scanVars>>

\* opa_json_parse() answers NULL to what is not JSON.
Parse(p) ==
    /\ at = "parse"
    /\ ~IsJson(kind) => p = 0
    /\ Pointer(p, "done")
    /\ UNCHANGED <<mem, op, docVars, scanVars>>

-----------------------------------------------------------------------------
(* Reading                                                                 *)

\* opa_value_to_python(): the address comes from opa_json_dump.
Dump(p) ==
    /\ op = "none" /\ op' = "dump"
    /\ mem' \in Memories
    /\ Pointer(p, "read")
    /\ UNCHANGED <<docVars, scanVars>>

\* Evaluator.evaluate(): the address comes from opa_eval, unchecked.
EvalResult(p) ==
    /\ op = "none" /\ op' = "result"
    /\ mem' \in Memories
    /\ raw' = p /\ addr' = Signed(p) /\ at' = "read"
    /\ UNCHANGED <<docVars, scanVars>>

\* read_cstring(): the start address.
ReadStarts ==
    /\ at = "read"
    /\ at' = IF addr < 0 \/ addr >= MemLen THEN "badRange" ELSE "scan"
    /\ pos' = addr
    /\ UNCHANGED <<mem, op, docVars, raw, addr, out>>

\* The end of the next read: chunk, budget and memory bound it.
End == MinOf({pos + ChunkBytes, pos + (ScanBytes - out), MemLen})

NulAtEndMissed == {i \in pos..(End - 2) : mem[i + 1] = 0}  \* mutant
Nuls == {i \in pos..(End - 1) : mem[i + 1] = 0}

\* A chunk without a NUL is collected ...
ScanChunk ==
    /\ at = "scan" /\ End > pos /\ Nuls = {}
    /\ out' = out + (End - pos) /\ pos' = End
    /\ UNCHANGED <<mem, op, at, docVars, raw, addr>>

\* ... a chunk with one ends the string ...
ScanFinds ==
    /\ Goto("scan", "size") /\ End > pos /\ Nuls # {}
    /\ out' = out + (MinOf(Nuls) - pos)
    /\ UNCHANGED <<mem, op, docVars, raw, addr, pos>>

\* ... and the end of the budget or of the memory ends the scan.
ScanGivesUp ==
    /\ Goto("scan", "unterminated") /\ (out >= ScanBytes \/ End <= pos)
    /\ UNCHANGED <<mem, op, docVars, raw, addr, scanVars>>

\* read_json_cstring(): the size guard, then json.loads, to which the empty
\* string is no document.
CheckSize ==
    /\ at = "size"
    /\ \/ out > ResultBytes /\ at' = "tooLarge"
       \/ out <= ResultBytes /\ at' = "notJson"
       \/ out \in 1..ResultBytes /\ at' = "done"
    /\ UNCHANGED <<mem, op, docVars, raw, addr, scanVars>>

-----------------------------------------------------------------------------
Outcomes == {"done", "rejected", "notEncoded", "unicodeError", "badPointer",
             "badRange", "unterminated", "tooLarge", "notJson"}

Finished == at \in Outcomes /\ UNCHANGED vars

Operation ==
    \/ \E k \in Kinds, n \in DocSizes :
         SetData(k, n) \/ \E v \in BOOLEAN : EncodeInput(k, n, v)
    \/ \E p \in Addresses : Malloc(p) \/ Parse(p) \/ Dump(p) \/ EvalResult(p)
    \/ LoadData \/ WriteBytes
    \/ ReadStarts \/ ScanChunk \/ ScanFinds \/ ScanGivesUp \/ CheckSize

Spec == Init /\ [][Operation \/ Finished]_vars

-----------------------------------------------------------------------------
\* The lengths of the strings that end at a NUL at or after addr.
Lengths == {n \in 0..(MemLen - 1) : addr + n < MemLen /\ mem[addr + n + 1] = 0}

\* read_cstring() against its definition: what is read ends at the first NUL,
\* wherever the borders of the chunks fall, and the string is refused exactly
\* when there is no NUL within the budget, or when it is over the limit: one
\* that reaches json.loads is within both.  NULL, which is not checked in the
\* result of opa_eval, yields no result where the memory begins with a NUL.
ScanExact ==
    op \in {"dump", "result"} =>
        /\ at \in {"size", "tooLarge", "notJson", "done"} =>
             Lengths # {} /\ out = MinOf(Lengths) /\ out < ScanBytes
        /\ at = "unterminated" => \A n \in Lengths : n >= ScanBytes
        /\ at = "tooLarge" => out > ResultBytes
        /\ at \in {"notJson", "done"} => out <= ResultBytes
        /\ raw = 0 /\ mem[1] = 0 => at # "done"

\* A write goes where the guest meant it, inside its memory, and is refused
\* only for NULL, for the half of the addresses that look negative, and for a
\* range that passes the end (_check_pointer, _check_range, write_bytes).
WritesExact ==
    op \in {"input", "data", "builtin"} =>
        /\ at = "parse" \/ (at = "done" /\ op = "input") =>
             raw > 0 /\ raw + size <= MemLen
        /\ at = "badPointer" => raw = 0 \/ raw >= 2 ^ (Width - 1)
        /\ at = "badRange" => raw + size > MemLen

\* A document that set_data() has vetted is never refused by the codec when an
\* instance loads it: the two sets of checks, in two files, agree.  What they
\* let through is JSON, but for text with a NaN or Infinity literal, which
\* every instance then fails to load.
StoredLoads ==
    op = "data" =>
        /\ at # "notEncoded"
        /\ at = "stored" => IsJson(kind) \/ kind = "nanText"
        /\ at = "done" => IsJson(kind)
=============================================================================
