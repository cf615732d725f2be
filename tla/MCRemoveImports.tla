-------------------------- MODULE MCRemoveImports --------------------------
(* A dummy module of three imports and two definitions: enough for a kept  *)
(* import before and after a dropped one, and for a dropped import that is *)
(* referred to.  Overflow is checked, as in the debug builds fuzzing uses. *)
EXTENDS RemoveImports

MCFuncOnly == {"func"}

(* A core module that also imports a memory, as any module handed to the   *)
(* reencoder may.                                                          *)
MCFuncAndMemory == {"func", "memory"}
=============================================================================
