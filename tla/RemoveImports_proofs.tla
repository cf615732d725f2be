------------------------ MODULE RemoveImports_proofs ------------------------
(***************************************************************************)
(* Proofs about RemoveImports for every value of the constants.            *)
(***************************************************************************)
EXTENDS RemoveImports, TLAPS

(* The inductive invariant: every import parse_import has seen was either  *)
(* dropped (and counted in removed_funcs) or kept; no index is renumbered  *)
(* before the import section is done, so removed_funcs is final when       *)
(* function_index reads it; every index renumbered is its old value less   *)
(* removed_funcs, wrapped below it; and the reencoding is done only once  *)
(* every reference is renumbered.                                          *)
ShiftInv ==
    /\ next \in 1..(NImports + 1)
    /\ removedFuncs \in Nat
    /\ kept \in Seq(1..NImports)
    /\ phase \in {"imports", "indices", "done", "panicked"}
    /\ DOMAIN remapped \subseteq refs
    /\ refs \subseteq Nat
    /\ removedFuncs + Len(kept) = next - 1
    /\ phase # "imports" => next = NImports + 1
    /\ phase = "imports" => DOMAIN remapped = {}
    /\ \A r \in DOMAIN remapped : r >= removedFuncs => remapped[r] = r - removedFuncs
    /\ \A r \in DOMAIN remapped :
         r < removedFuncs => remapped[r] = (r + IdxModulus - removedFuncs) % IdxModulus
    /\ phase = "done" => DOMAIN remapped = refs

(* The function indices of a module are natural numbers.                   *)
LEMMA FuncIndicesNat == FuncIndices \subseteq Nat
BY DEF FuncIndices

LEMMA ShiftInvInit == Init => ShiftInv
<1> SUFFICES ASSUME Init PROVE ShiftInv
  OBVIOUS
<1>1. refs \subseteq Nat
  BY FuncIndicesNat DEF Init
<1>2. QED
  BY <1>1, RemoveImportsAssumption DEF Init, ShiftInv

(* A renumbering of r adds one entry and keeps the others.                 *)
LEMMA RemapEntry ==
    ASSUME NEW D, NEW f, NEW r, NEW v
    PROVE  LET g == [x \in D \cup {r} |-> IF x = r THEN v ELSE f[x]]
           IN  /\ DOMAIN g = D \cup {r}
               /\ g[r] = v
               /\ \A x \in D \ {r} : g[x] = f[x]
OBVIOUS

(* Every step keeps ShiftInv.                                              *)
LEMMA ShiftInvStep ==
    ASSUME ShiftInv, [Next]_vars
    PROVE  ShiftInv'
<1> USE RemoveImportsAssumption
<1>1. CASE RemoveImport
  BY <1>1 DEF RemoveImport, ShiftInv
<1>2. CASE KeepImport
  BY <1>2 DEF KeepImport, ShiftInv
<1>3. CASE EndImports
  BY <1>3 DEF EndImports, ShiftInv
<1>4. ASSUME NEW r \in FuncIndices, FunctionIndex(r)
      PROVE  ShiftInv'
  <2>1. /\ phase = "indices" /\ r \in refs \ DOMAIN remapped /\ r >= removedFuncs
        /\ remapped' = [x \in DOMAIN remapped \cup {r} |->
                          IF x = r THEN r - removedFuncs ELSE remapped[x]]
        /\ UNCHANGED <<kinds, refs, next, removedFuncs, kept, phase>>
    BY <1>4 DEF FunctionIndex
  <2>2. /\ DOMAIN remapped' = DOMAIN remapped \cup {r}
        /\ remapped'[r] = r - removedFuncs
        /\ \A x \in DOMAIN remapped : remapped'[x] = remapped[x]
    BY <2>1, RemapEntry
  <2>3. QED
    BY <2>1, <2>2 DEF ShiftInv
<1>5. ASSUME NEW r \in FuncIndices, FunctionIndexUnderflow(r)
      PROVE  ShiftInv'
  <2>1. /\ phase = "indices" /\ r \in refs \ DOMAIN remapped /\ r < removedFuncs
        /\ UNCHANGED <<kinds, refs, next, removedFuncs, kept>>
    BY <1>5 DEF FunctionIndexUnderflow
  <2>2. CASE OverflowChecks
    <3>1. phase' = "panicked" /\ remapped' = remapped
      BY <1>5, <2>2 DEF FunctionIndexUnderflow
    <3>2. QED
      BY <2>1, <3>1 DEF ShiftInv
  <2>3. CASE ~OverflowChecks
    <3>1. /\ remapped' = [x \in DOMAIN remapped \cup {r} |->
                            IF x = r THEN (r + IdxModulus - removedFuncs) % IdxModulus
                            ELSE remapped[x]]
          /\ phase' = phase
      BY <1>5, <2>3 DEF FunctionIndexUnderflow
    <3>2. /\ DOMAIN remapped' = DOMAIN remapped \cup {r}
          /\ \A x \in DOMAIN remapped : remapped'[x] = remapped[x]
      BY <2>1, <3>1, RemapEntry
    <3>3. \A x \in DOMAIN remapped' : x >= removedFuncs' => x \in DOMAIN remapped
      BY <2>1, <3>2 DEF ShiftInv
    <3>4. QED
      BY <2>1, <3>1, <3>2, <3>3 DEF ShiftInv
  <2>4. QED
    BY <2>2, <2>3
<1>6. CASE Finish
  BY <1>6 DEF Finish, ShiftInv
<1>7. CASE UNCHANGED vars
  BY <1>7 DEF vars, ShiftInv
<1>8. QED
  BY <1>1, <1>2, <1>3, <1>4, <1>5, <1>6, <1>7 DEF Next

(* ShiftInv holds in every state of the reencoding.                        *)
THEOREM ShiftInvThm == Spec => []ShiftInv
BY ShiftInvInit, ShiftInvStep, PTL DEF Spec

(* RemoveImports::function_index renumbers every reference a finished     *)
(* reencoding holds by the number of imports dropped, whatever their kinds *)
(* and whichever the build: removed_funcs is final before the first call.  *)
THEOREM RenumberByDropCountThm == Spec => []RenumberByDropCount
<1>1. ShiftInv => RenumberByDropCount
  <2> SUFFICES ASSUME ShiftInv, phase = "done"
               PROVE  RenumberByDropCount
    BY DEF RenumberByDropCount
  <2>1. removedFuncs = NImports - Len(kept)
    BY RemoveImportsAssumption DEF ShiftInv
  <2>2. ASSUME NEW r \in refs
        PROVE  remapped[r] = IF r >= removedFuncs THEN r - removedFuncs
                             ELSE (r + IdxModulus - removedFuncs) % IdxModulus
    <3>1. r \in DOMAIN remapped
      BY DEF ShiftInv
    <3>2. QED
      BY <3>1 DEF ShiftInv
  <2>3. QED
    BY <2>1, <2>2 DEF RenumberByDropCount
<1>2. QED
  BY <1>1, ShiftInvThm, PTL

=============================================================================
