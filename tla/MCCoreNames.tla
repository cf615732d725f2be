---------------------------- MODULE MCCoreNames ----------------------------
(* Two letters and words of up to two letters, so that an interface "a"    *)
(* with a function "ab" and an interface "aa" with a function "b" both     *)
(* occur; one resource; two worlds, so that a world follows one with a     *)
(* different mangling; two exports per dummy module, which is what a      *)
(* pairwise property needs.                                                *)
EXTENDS CoreNames

MCLetters == {"a", "b"}
MCResources == {"r"}
=============================================================================
