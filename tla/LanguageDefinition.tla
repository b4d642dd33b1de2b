------------------------ MODULE LanguageDefinition -------------------------
(***************************************************************************)
(* What a definition file says, and which files load: parseDefinition and   *)
(* loadFiles of the registry.  The parts of a file that are resolved one    *)
(* symbol at a time in the same way - operators, logical operators, metric  *)
(* types, normalizations, window alignments - are one field, revision,      *)
(* which tells two versions of a file apart.                                *)
(***************************************************************************)
EXTENDS Integers, Sequences, FiniteSets

CONSTANT Canonical   \* normalizeDSL: the name a spelling of it stands for, "" for blank

Spelling == DOMAIN Canonical

SignalTypes == {"METRIC", "LOG", "SPAN"}
QlsDataTypes == {"DOUBLE", "STRING"}
AggOps == {"RATE", "SUM"}
AggScopes == {"TEMPORAL", "GROUP"}
TemporalOnly == {"RATE"}
StructuralOps == {"CHILD", "SIBLING"}

(* A file as decoded: parses is whether it is YAML with known fields only,    *)
(* kind a function's ir_kind, claims the capability structural_ops, and       *)
(* spells the structural_operators as pairs of operator and symbol.           *)
Raw ==
    [parses : BOOLEAN, dsl : Spelling, signals : SUBSET STRING, coercions : SUBSET STRING,
     functions : SUBSET [kind : STRING, scope : STRING, args : Seq(STRING),
                         returns : STRING, arity : Nat, variadic : Int],
     joins : BOOLEAN, joinTypes : SUBSET STRING, claims : SUBSET STRING,
     spells : SUBSET (STRING \X STRING), revision : Nat]

-----------------------------------------------------------------------------
(* resolveFunction. *)

resolveTypeName(raw, name) == name \in raw.coercions \cup QlsDataTypes

(* The axis an aggregation works on, where the file does not say. *)
AggScope(fn) ==
    IF fn.scope # "" THEN fn.scope
    ELSE IF fn.kind \in TemporalOnly THEN "TEMPORAL" ELSE "GROUP"

FunctionResolves(raw, fn) ==
    /\ IF fn.kind = "" THEN fn.scope = ""
       ELSE /\ fn.kind \in AggOps /\ AggScope(fn) \in AggScopes
            /\ fn.kind \in TemporalOnly => AggScope(fn) = "TEMPORAL"
    /\ \A i \in DOMAIN fn.args : resolveTypeName(raw, fn.args[i])
    /\ fn.returns # "" /\ resolveTypeName(raw, fn.returns)
    /\ fn.arity = Len(fn.args)
    /\ fn.variadic >= -1 /\ (fn.variadic # 0 => fn.arity > 0)

-----------------------------------------------------------------------------
(* parseDefinition. *)

Claimed(raw) == raw.claims
Spelled(raw) == {s[1] : s \in raw.spells}

CapabilitiesResolve(raw) ==
    /\ raw.claims \subseteq StructuralOps
    /\ ~raw.joins => raw.joinTypes = {}

(* What is claimed can be spelled, and what is spelled is claimed. *)
StructuralResolve(raw) ==
    /\ \A s \in raw.spells : s[1] \in StructuralOps /\ s[2] # ""
    /\ Claimed(raw) = Spelled(raw)

WellFormed(raw) ==
    /\ raw.parses /\ Canonical[raw.dsl] # ""
    /\ raw.signals # {} /\ raw.signals \subseteq SignalTypes
    /\ \A fn \in raw.functions : FunctionResolves(raw, fn)
    /\ CapabilitiesResolve(raw) /\ StructuralResolve(raw)

FunctionDef(fn) ==
    [isAggregation |-> fn.kind # "", op |-> fn.kind,
     scope |-> IF fn.kind = "" THEN "" ELSE AggScope(fn), args |-> fn.args]

parseDefinition(raw) ==
    [dsl |-> Canonical[raw.dsl], signals |-> raw.signals,
     functions |-> {FunctionDef(fn) : fn \in raw.functions},
     claims |-> raw.claims, spells |-> raw.spells, revision |-> raw.revision]

-----------------------------------------------------------------------------
(* loadFiles: one malformed file, or two of one language, and none of them    *)
(* loads.                                                                     *)

Parsed(files) == {parseDefinition(files[i]) : i \in DOMAIN files}

(* Mutant: two files of one language are told apart by how they spell it.     *)
LoadsAsSpelled(files) ==
    /\ \A i \in DOMAIN files : WellFormed(files[i])
    /\ \A i, j \in DOMAIN files : files[i].dsl = files[j].dsl => i = j

Loads(files) ==
    /\ \A i \in DOMAIN files : WellFormed(files[i])
    /\ \A i, j \in DOMAIN files :
          Canonical[files[i].dsl] = Canonical[files[j].dsl] => i = j

-----------------------------------------------------------------------------
(* The questions put to a loaded definition. *)

SupportsStructuralOp(d, op) == op \in d.claims
StructuralOperatorForIROp(d, op) == {s[2] : s \in {x \in d.spells : x[1] = op}}

FunctionsForAggOp(d, op) == {fn \in d.functions : fn.isAggregation /\ fn.op = op}
FunctionForAggregation(d, op, scope) ==
    {fn \in FunctionsForAggOp(d, op) : fn.scope = scope}

(* The operand types of the temporal aggregations: a language's name for a    *)
(* stream narrowed to a window.                                               *)
RangeOperandTypes(d) ==
    {fn.args[Len(fn.args)] :
        fn \in {f \in d.functions : f.isAggregation /\ f.scope = "TEMPORAL" /\ f.args # << >>}}

ReadsRangeOperand(d, fn) == \E i \in DOMAIN fn.args : fn.args[i] \in RangeOperandTypes(d)
=============================================================================
