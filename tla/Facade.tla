------------------------------- MODULE Facade -------------------------------
(***************************************************************************)
(* The checks a policy goes through from its settings and its bytes to a   *)
(* decision: PolicyConfig.__post_init__ (types.py), the compilation in     *)
(* WasmtimeRuntimeFactory (runtime.py), the ABI adapter's validation       *)
(* (OpaAbi.__init__, abi.py), the decoding of the entrypoint map           *)
(* (memory.py), and in OpaWasmPolicy (policy.py) the choice of an          *)
(* entrypoint and the simplification of a result set.  What is checked and *)
(* never read again is forgotten.  EvalErrors adds the evaluation.         *)
(***************************************************************************)
EXTENDS Integers, Sequences

CONSTANTS
    Names,    \* entrypoint names
    MaxId,    \* bound: entrypoint ids
    Absent,   \* no such export, global, entry or argument (None)
    NotInt,   \* the value of a global that is no integer
    Yes, No   \* JSON true and false, Python True and False

ASSUME FacadeAssumption ==
    MaxId \in Nat /\ Names \cap {Absent, NotInt, Yes, No} = {}

Ids == 0..MaxId

\* One export stands for the eight of _REQUIRED_EXPORTS, with the kind of the
\* first of them that is not right.
Exports == {"required", "opa_eval"}
Kinds   == {"right", "wrongType", "notFunction"}

\* Booleans are ints to isinstance() and equal to 1 and 0, but not ids.
Bools == {Yes, No}
AsInt(b) == IF b = Yes THEN 1 ELSE 0

\* What a caller may pass or configure as entrypoint.
Requests == Names \cup Ids \cup {-1} \cup Bools \cup {Absent}

\* The numbers of a PolicyConfig around the borders of what is accepted; bytes
\* is the smallest of the four size limits.
Limits == [pool : {0, 1}, borrow : {-1, 0, Absent}, timeout : {0, 1, Absent},
           pages : {0, 1, 2, Absent}, bytes : {0, 1}]

\* Its other settings that a call depends on.
Configs == [entrypoint : Requests, strict : BOOLEAN, shape : BOOLEAN]

\* What may be offered as a policy module.
Wasm == {"empty", "invalid", "noMemory", "otherMemory", "policy"}

\* Result sets by shape: [], [{"result": v}], [{"result": null}], another
\* list, and no list.
Shapes == {"empty", "value", "null", "otherList", "noList"}

VARIABLES
    limits,    \* the settings that construction checks, then Absent
    config,    \* default_entrypoint, strict_result, strict_result_shape
    exports,   \* the instance: export -> its kind or Absent
    minor,     \* opa_wasm_abi_minor_version
    entries,   \* entrypoints(): name -> id as decoded from JSON
    at,        \* the step, or how the construction or the call ended
    chosen,    \* entrypoint -> id
    answer     \* what evaluate() returns

moduleVars == <<exports, minor, entries>>
callVars   == <<chosen, answer>>
facadeVars == <<limits, config, moduleVars, at, callVars>>

Init ==
    /\ limits = Absent /\ config = Absent
    /\ exports = [e \in Exports |-> Absent]
    /\ minor = Absent /\ entries = [n \in Names |-> Absent]
    /\ at = "settings" /\ chosen = Absent /\ answer = Absent

-----------------------------------------------------------------------------
(* Settings, factory and runtime *)

\* PolicyConfig.__post_init__()
Accepted(l) ==
    /\ l.pool >= 1 /\ l.bytes >= 1
    /\ l.borrow = Absent \/ l.borrow >= 0
    /\ l.timeout = Absent \/ l.timeout > 0
    /\ l.pages = Absent \/ l.pages >= 1

PostInit(l, c) ==
    /\ at = "settings"
    /\ IF Accepted(l) THEN limits' = l /\ config' = c /\ at' = "factory"
       ELSE at' = "ValueError" /\ UNCHANGED <<limits, config>>
    /\ UNCHANGED <<moduleVars, callVars>>

\* WasmtimeRuntimeFactory.__init__(): compile, and find the memory import.
Compile(w) ==
    /\ at = "factory"
    /\ at' = IF w = "policy" THEN "runtime" ELSE "invalidPolicy"
    /\ UNCHANGED <<limits, config, moduleVars, callVars>>

\* WasmtimeRuntime.__init__(): the cap must leave room for the first two pages;
\* Runtime has the rest.
Instantiate(x) ==
    /\ at = "runtime"
    /\ IF limits.pages # Absent /\ limits.pages < 2
       THEN at' = "invalidPolicy" /\ UNCHANGED exports
       ELSE at' = "version" /\ exports' = x
    /\ limits' = Absent
    /\ UNCHANGED <<config, minor, entries, callVars>>

-----------------------------------------------------------------------------
(* OpaAbi.__init__ *)

\* _read_version(): a missing minor global is 0.
Minor(m) == IF m = Absent THEN 0 ELSE m

\* _read_version() and check_version()
CheckVersion(major, m) ==
    /\ at = "version"
    /\ at' = IF major = 1 /\ Minor(m) # NotInt THEN "exports" ELSE "abiError"
    /\ minor' = Minor(m)
    /\ UNCHANGED <<limits, config, exports, entries, callVars>>

\* _validate_required_exports()
HasNoMatter(e) == TRUE   \* mutant: presence is not checked
Has(e) == exports[e] # Absent

CheckExports ==
    /\ at = "exports"
    /\ at' = IF Has("required") THEN "evalPath" ELSE "abiError"
    /\ UNCHANGED <<limits, config, moduleVars, callVars>>

\* _supports_opa_eval
CheckEvalPath ==
    /\ at = "evalPath"
    /\ at' = IF Has("opa_eval") /\ minor >= 2 THEN "signatures" ELSE "abiError"
    /\ UNCHANGED <<limits, config, moduleVars, callVars>>

\* _validate_export_signatures(), of the exports that are there: the first that
\* is not right decides, and get_func() refuses one that is no function.
CheckSignatures ==
    /\ at = "signatures"
    /\ LET kind == IF exports["required"] \in {"right", Absent}
                   THEN exports["opa_eval"] ELSE exports["required"]
       IN  at' = CASE kind = "wrongType"   -> "abiError"
                   [] kind = "notFunction" -> "invalidPolicy"
                   [] OTHER                -> "metadata"
    /\ UNCHANGED <<limits, config, moduleVars, callVars>>

-----------------------------------------------------------------------------
(* Entrypoints *)

Declared == {n \in Names : entries[n] # Absent}

\* _decode_str_int_map(): a boolean is an int in Python, and is excluded.
Decode(map) ==
    /\ at = "metadata"
    /\ entries' = map
    /\ at' = IF \A n \in Names : map[n] \notin Bools THEN "ready" ELSE "memoryError"
    /\ UNCHANGED <<limits, config, exports, minor, callVars>>

\* None falls back to the configuration and then to 0.
Fallback(q) == CASE q # Absent                 -> q
                 [] config.entrypoint # Absent -> config.entrypoint
                 [] OTHER                      -> 0

\* An int is looked up among the ids.  Without the test for bool, True
\* would be found as 1.
KnownAsInt(q) ==   \* mutant: no test for bool
    \E n \in Declared : entries[n] = IF q \in Bools THEN AsInt(q) ELSE q
Known(q) == \E n \in Declared : entries[n] = q

\* _resolve_entrypoint(): the id is known, or the name is; else, in EvalErrors,
\* OpaEntrypointError.
Resolves(e) == IF e \in Names THEN e \in Declared ELSE Known(e)

Resolve(q) ==
    /\ at = "ready"
    /\ LET e == Fallback(q)
       IN  Resolves(e) /\ chosen' = IF e \in Names THEN entries[e] ELSE e
    /\ at' = "enter"
    /\ UNCHANGED <<limits, config, moduleVars, answer>>

-----------------------------------------------------------------------------
(* Results *)

\* _simplify_result(): which results are refused (with OpaEvaluationError) ...
Refuses(s) ==
    \/ s = "empty" /\ config.strict
    \/ s \in {"otherList", "noList"} /\ (config.shape \/ config.strict)

\* ... and what becomes of the others.
Simplify(s) ==
    /\ at = "result" /\ ~Refuses(s)
    /\ at' = "answered"
    /\ answer' = IF s \in {"value", "null"} THEN s ELSE "UNDEFINED"
    /\ UNCHANGED <<limits, config, moduleVars, chosen>>

-----------------------------------------------------------------------------

\* The construction has failed: there is no policy to call.
Rejected == {"ValueError", "invalidPolicy", "abiError", "memoryError"}

BuildStep ==
    \/ \E l \in Limits, c \in Configs : PostInit(l, c)
    \/ \E w \in Wasm : Compile(w)
    \/ \E x \in [Exports -> Kinds \cup {Absent}] : Instantiate(x)
    \/ \E major \in {0, 1, 2, NotInt, Absent}, m \in {1, 2, NotInt, Absent} :
           CheckVersion(major, m)
    \/ CheckExports \/ CheckEvalPath \/ CheckSignatures
    \/ \E map \in [Names -> Ids \cup Bools \cup {Absent}] : Decode(map)

\* A policy that is ready can be evaluated: every export that an evaluation
\* calls is there with its signature, although the signatures are checked only
\* for the exports that are present.
ReadyIsCallable ==
    at \in {"metadata", "ready", "enter", "result", "answered"} =>
        \A e \in Exports : exports[e] = "right"

\* opa_eval is called with an entrypoint the policy declares, an int that is
\* no boolean, whichever of call, configuration and fallback it came from.
EntrypointDeclared ==
    at \in {"enter", "result", "answered"} =>
        chosen \in Ids /\ \E n \in Declared : entries[n] = chosen
=============================================================================
