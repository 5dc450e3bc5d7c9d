---------------------------- MODULE BuiltinCalls ----------------------------
(***************************************************************************)
(* The default host builtins (default_builtins() in builtins.py) and what  *)
(* OpaPolicyInstance._dispatch_builtin (instance.py) makes of them: the    *)
(* function runs on decoded arguments, its result is encoded for the guest *)
(* by Codec, and every failure becomes an OpaBuiltinError.                 *)
(*                                                                         *)
(* A format is the sequence of pieces into which _GO_VERB cuts it, strings *)
(* are told apart by the parsers that take them, and operands by whether   *)
(* Python can convert them to a character.                                 *)
(***************************************************************************)
EXTENDS Codec

CONSTANTS
    MaxPieces,   \* bound: pieces of a format
    MaxOperands, \* bound: operands of a sprintf
    Other        \* an argument of the wrong type; no call

ASSUME BuiltinCallsAssumption == MaxPieces \in Nat /\ MaxOperands \in Nat

VARIABLES
    call,    \* the builtin and its arguments
    pieces,  \* _sprintf: the output so far, `out`
    used     \* _sprintf: operands the iterator has given

builtinVars == <<call, pieces, used>>
allVars == <<vars, builtinVars>>

\* %v stands for the verbs that convert anything or fall back to str(), and for
\* a percent sign with flags or a width (%5%), which uses up an operand too; %c
\* of a number out of range raises OverflowError, which has no such fallback.
Verbs  == {"%v", "%c"}
Pieces == {"text", "%%"} \cup Verbs
Operands == {"plain", "huge"}

SeqsUpTo(S, n) == UNION {[1..k -> S] : k \in 0..n}

\* JSON is YAML; "dated" is YAML with a value that JSON does not have.
Strings == {"json", "yaml", "dated", "garbage"}

Calls ==
    [fn : {"sprintf"}, fmt : SeqsUpTo(Pieces, MaxPieces) \cup {Other},
     args : SeqsUpTo(Operands, MaxOperands) \cup {Other}]
    \cup [fn : {"json.is_valid", "yaml.is_valid", "yaml.marshal", "yaml.unmarshal"},
          arg : Strings \cup {Other}, installed : BOOLEAN]

InitAll == Init /\ call = Other /\ pieces = <<>> /\ used = 0

-----------------------------------------------------------------------------
(* The functions *)

\* _json_is_valid(), _yaml_is_valid(), _yaml_marshal(), _yaml_unmarshal(): which
\* calls return, with PyYAML or without.
Returns(c) ==
    CASE c.fn = "json.is_valid" -> TRUE
      [] c.fn = "yaml.unmarshal" -> c.installed /\ c.arg \notin {Other, "garbage"}
      [] OTHER -> c.installed

\* The guest calls a builtin; _sprintf() checks its arguments first.
Invoke(c) ==
    /\ op = "none" /\ op' = "builtin"
    /\ call' = c
    /\ at' = IF c.fn = "sprintf"
             THEN IF c.fmt = Other \/ c.args = Other THEN "builtinError" ELSE "format"
             ELSE IF Returns(c) THEN "returned" ELSE "builtinError"
    /\ UNCHANGED <<mem, docVars, raw, addr, scanVars, pieces, used>>

Piece == call.fmt[Len(pieces) + 1]

\* _format_verb(): what a verb makes of an operand, unless it cannot.
Converts(verb, operand) == ~(verb = "%c" /\ operand = "huge")

\* The iterator has an operand left, and the verb converts it.
NextConverts == IF used < Len(call.args) THEN Converts(Piece, call.args[used + 1]) ELSE FALSE

Formatting == at = "format" /\ Len(pieces) < Len(call.fmt) /\ UNCHANGED <<vars, call>>

\* Mutant: an escaped percent sign uses up an operand.
CopyAdvances ==
    /\ Formatting /\ Piece \notin Verbs
    /\ pieces' = Append(pieces, <<Piece>>)
    /\ used' = IF Piece = "%%" THEN used + 1 ELSE used

\* _sprintf(): text, and %% as a percent sign.
Copy ==
    /\ Formatting /\ Piece \notin Verbs
    /\ pieces' = Append(pieces, <<Piece>>)
    /\ UNCHANGED used

\* _sprintf(): a verb takes the next operand.
Convert ==
    /\ Formatting /\ Piece \in Verbs /\ NextConverts
    /\ pieces' = Append(pieces, <<Piece, call.args[used + 1]>>)
    /\ used' = used + 1

\* _sprintf(): there is none, or it cannot be converted.
ConvertFails ==
    /\ at = "format" /\ Len(pieces) < Len(call.fmt) /\ Piece \in Verbs /\ ~NextConverts
    /\ at' = "builtinError"
    /\ UNCHANGED <<mem, op, docVars, raw, addr, scanVars, builtinVars>>

\* The format is used up; operands left over are ignored.
FormatEnds ==
    /\ Goto("format", "returned") /\ Len(pieces) = Len(call.fmt)
    /\ UNCHANGED <<mem, op, docVars, raw, addr, scanVars, builtinVars>>

\* python_object_to_opa_value(): a result of n bytes is dumped and checked
\* before it is written; a date is not JSON.
EncodeResult(n) ==
    /\ at = "returned"
    /\ at' = IF n > ResultBytes \/ (call.fn = "yaml.unmarshal" /\ call.arg = "dated")
             THEN "builtinError" ELSE "malloc"
    /\ size' = n /\ kind' = "object"
    /\ call' = Other /\ pieces' = <<>> /\ used' = 0
    /\ UNCHANGED <<mem, op, raw, addr, scanVars>>

\* The guest goes on with the address, or OpaBuiltinError fails the evaluation.
FinishedAll == (Finished \/ (at = "builtinError" /\ UNCHANGED vars)) /\ UNCHANGED builtinVars

NextAll ==
    \/ Operation /\ UNCHANGED builtinVars
    \/ \E c \in Calls : Invoke(c)
    \/ Copy \/ Convert \/ ConvertFails \/ FormatEnds
    \/ \E n \in DocSizes : EncodeResult(n)
    \/ FinishedAll

SpecAll == InitAll /\ [][NextAll]_allVars

-----------------------------------------------------------------------------
\* The number of verbs among the first n pieces of a format.
VerbsIn(fmt, n) == Cardinality({i \in 1..n : fmt[i] \in Verbs})

\* _sprintf() against its definition: the k-th verb gets the k-th operand,
\* whatever stands between them, and the call fails exactly when the operands
\* do not suffice or one that is needed cannot be converted.
SprintfExact ==
    call # Other /\ call.fn = "sprintf" /\ call.fmt # Other /\ call.args # Other =>
        LET fmt == call.fmt
            Fits(i) == VerbsIn(fmt, i) <= Len(call.args)
                       /\ Converts(fmt[i], call.args[VerbsIn(fmt, i)])
            sound == \A i \in DOMAIN fmt : fmt[i] \in Verbs => Fits(i)
        IN  /\ at = "returned" =>
                 /\ sound
                 /\ pieces = [i \in DOMAIN fmt |->
                       IF fmt[i] \in Verbs THEN <<fmt[i], call.args[VerbsIn(fmt, i)]>>
                       ELSE <<fmt[i]>>]
            /\ at = "builtinError" => ~sound
=============================================================================
