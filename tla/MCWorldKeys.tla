---------------------------- MODULE MCWorldKeys ----------------------------
(* Names of up to two atoms over "[async]" and two words, two interfaces,  *)
(* and worlds of up to three items: enough for a name, its async form, an  *)
(* unrelated name and an interface to arrive in every order.               *)
EXTENDS WorldKeys

MCAtoms  == {Async, "foo", "bar"}
MCIfaces == {1, 2}
=============================================================================
