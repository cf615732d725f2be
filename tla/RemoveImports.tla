---------------------------- MODULE RemoveImports ----------------------------
(***************************************************************************)
(* The RemoveImports reencoder of the roundtrip_wit fuzz target            *)
(* (fuzz/src/roundtrip_wit.rs).  It copies a dummy core module, drops each *)
(* import the fuzz input says to drop, and renumbers every function index  *)
(* it meets afterwards by subtracting the number of imports it dropped.    *)
(*                                                                         *)
(* The core module is its import kinds, in order, its number of defined    *)
(* functions and the set of function indices its exports, element         *)
(* segments, start section and code refer to.  The reencoder visits the   *)
(* import section before every section that holds a function index, so    *)
(* all parse_import calls come before all function_index calls; the order  *)
(* of the function_index calls among themselves is free.                   *)
(*                                                                         *)
(* removed_funcs is a u32.  An index below it underflows: a panic when the *)
(* fuzz build checks overflow, a wrap modulo IdxModulus (2^32) otherwise.  *)
(***************************************************************************)
EXTENDS Naturals, Sequences, FiniteSets

CONSTANTS
    NImports,        \* imports of the dummy module
    NDefined,        \* functions it defines
    ImportKinds,     \* the kinds of import it may have, "func" among them
    OverflowChecks,  \* whether u32 arithmetic panics on underflow
    IdxModulus       \* 2^32

ASSUME RemoveImportsAssumption ==
    /\ NImports \in Nat /\ NDefined \in Nat
    /\ "func" \in ImportKinds
    /\ OverflowChecks \in BOOLEAN
    /\ IdxModulus \in Nat /\ IdxModulus > NImports + NDefined

VARIABLES
    kinds,         \* the kinds of the imports, in order
    refs,          \* the function indices the module refers to
    next,          \* position of the next import parse_import is given
    removedFuncs,  \* self.removed_funcs
    kept,          \* positions of the imports copied to the new module
    remapped,      \* function_index of each index renumbered so far
    phase          \* "imports", "indices", "done" or "panicked"

vars == <<kinds, refs, next, removedFuncs, kept, remapped, phase>>

(* The function imports of the module, by position.                       *)
FuncImports == {p \in 1..NImports : kinds[p] = "func"}

(* The function index space: function imports first, then definitions.    *)
NumFuncImports == Cardinality(FuncImports)
FuncIndices == 0..(NumFuncImports + NDefined - 1)

(* The position of the import that function index r names.                *)
ImportOf(r) == CHOOSE p \in FuncImports : Cardinality({q \in FuncImports : q < p}) = r

Init ==
    /\ kinds \in [1..NImports -> ImportKinds]
    /\ refs \in SUBSET FuncIndices
    /\ next = 1
    /\ removedFuncs = 0
    /\ kept = <<>>
    /\ remapped = [r \in {} |-> 0]
    /\ phase = "imports"

(* parse_import when the fuzz input says to drop the import: the counter   *)
(* goes up, whatever the kind of the import.                               *)
RemoveImport ==
    /\ phase = "imports"
    /\ next <= NImports
    /\ removedFuncs' = removedFuncs + 1
    /\ next' = next + 1
    /\ UNCHANGED <<kinds, refs, kept, remapped, phase>>

(* parse_import otherwise (the input says no, or is used up): the import   *)
(* is copied by utils::parse_import.                                       *)
KeepImport ==
    /\ phase = "imports"
    /\ next <= NImports
    /\ kept' = Append(kept, next)
    /\ next' = next + 1
    /\ UNCHANGED <<kinds, refs, removedFuncs, remapped, phase>>

(* The import section is done; the sections holding indices follow.        *)
EndImports ==
    /\ phase = "imports"
    /\ next > NImports
    /\ phase' = "indices"
    /\ UNCHANGED <<kinds, refs, next, removedFuncs, kept, remapped>>

(* function_index(idx) = idx - removed_funcs, with no underflow.           *)
FunctionIndexNoShift(r) ==
    /\ phase = "indices"
    /\ r \in refs \ DOMAIN remapped
    /\ r >= removedFuncs
    /\ remapped' = [x \in DOMAIN remapped \cup {r} |-> IF x = r THEN r ELSE remapped[x]]
    /\ UNCHANGED <<kinds, refs, next, removedFuncs, kept, phase>>

FunctionIndex(r) ==
    /\ phase = "indices"
    /\ r \in refs \ DOMAIN remapped
    /\ r >= removedFuncs
    /\ remapped' = [x \in DOMAIN remapped \cup {r} |->
                      IF x = r THEN r - removedFuncs ELSE remapped[x]]
    /\ UNCHANGED <<kinds, refs, next, removedFuncs, kept, phase>>

(* function_index(idx) for idx < removed_funcs: u32 underflow.            *)
FunctionIndexUnderflow(r) ==
    /\ phase = "indices"
    /\ r \in refs \ DOMAIN remapped
    /\ r < removedFuncs
    /\ IF OverflowChecks
         THEN /\ phase' = "panicked"
              /\ UNCHANGED remapped
         ELSE /\ remapped' = [x \in DOMAIN remapped \cup {r} |->
                                IF x = r THEN (r + IdxModulus - removedFuncs) % IdxModulus
                                ELSE remapped[x]]
              /\ UNCHANGED phase
    /\ UNCHANGED <<kinds, refs, next, removedFuncs, kept>>

(* Every index is renumbered: parse_core_module returns Ok and the new     *)
(* module replaces the dummy.                                              *)
Finish ==
    /\ phase = "indices"
    /\ DOMAIN remapped = refs
    /\ phase' = "done"
    /\ UNCHANGED <<kinds, refs, next, removedFuncs, kept, remapped>>

Next ==
    \/ RemoveImport
    \/ KeepImport
    \/ EndImports
    \/ \E r \in FuncIndices : FunctionIndex(r) \/ FunctionIndexUnderflow(r)
    \/ Finish

Spec == Init /\ [][Next]_vars

-----------------------------------------------------------------------------

(* Type invariant. *)
TypeOK ==
    /\ kinds \in [1..NImports -> ImportKinds]
    /\ refs \subseteq FuncIndices
    /\ next \in 1..(NImports + 1)
    /\ removedFuncs \in 0..NImports
    /\ kept \in Seq(1..NImports)
    /\ DOMAIN remapped \subseteq refs
    /\ phase \in {"imports", "indices", "done", "panicked"}

(* The function imports the new module keeps, by position.                 *)
KeptFuncImports == {p \in FuncImports : \E k \in 1..Len(kept) : kept[k] = p}

(* Where the function that index r names sits in the new module's index    *)
(* space: the kept function imports come first, then the definitions.      *)
NewIndex(r) ==
    IF r < NumFuncImports
    THEN Cardinality({q \in KeptFuncImports : q < ImportOf(r)})
    ELSE Cardinality(KeptFuncImports) + (r - NumFuncImports)

(* Every reference to a function the module defines still names that       *)
(* function in the module the reencoder builds.                            *)
DefinedRefsRemapped ==
    phase = "done" =>
        \A r \in refs : r >= NumFuncImports => remapped[r] = NewIndex(r)

(* Every reference to an imported function the new module keeps names    *)
(* that import after the reencoding.  The #[should_panic] smoke test of    *)
(* the target says this should get fixed.                                  *)
KeptImportRefsRemapped ==
    phase = "done" =>
        \A r \in refs :
            r < NumFuncImports /\ ImportOf(r) \in KeptFuncImports =>
                remapped[r] = NewIndex(r)

(* A finished reencoding has renumbered every reference by the number of   *)
(* imports parse_import dropped, of whatever kind, read only once the      *)
(* import section is done: idx - removed_funcs, wrapped modulo 2^32 below  *)
(* it when overflow is not checked.                                        *)
RenumberByDropCount ==
    phase = "done" =>
        /\ removedFuncs = NImports - Len(kept)
        /\ \A r \in refs :
             remapped[r] = IF r >= removedFuncs THEN r - removedFuncs
                           ELSE (r + IdxModulus - removedFuncs) % IdxModulus

=============================================================================
