------------------------------- MODULE ItemSet -------------------------------
(***************************************************************************)
(* What the import (or export) map of a World promises, with no hashing:   *)
(* the items of a world are taken in source order, each one joins the set  *)
(* of held keys unless a held key names the same external item, and such   *)
(* a repeat fails the assembly.  Same(a, b) says when two keys name one   *)
(* item.                                                                   *)
(***************************************************************************)
EXTENDS Sequences

CONSTANTS
    Keys,      \* the keys items can have
    Same(_, _) \* whether two keys name one item

VARIABLES
    todo,    \* the keys still to take, in order
    held,    \* the keys taken
    status   \* "assembling", "done" or "failed"

avars == <<todo, held, status>>

Init ==
    /\ todo \in Seq(Keys)
    /\ held = {}
    /\ status = "assembling"

(* The next key names no held item: it is held.                            *)
Add ==
    /\ status = "assembling"
    /\ todo # <<>>
    /\ \A h \in held : ~Same(h, Head(todo))
    /\ held' = held \cup {Head(todo)}
    /\ todo' = Tail(todo)
    /\ UNCHANGED status

(* The next key names an item already held: the assembly fails.            *)
Reject ==
    /\ status = "assembling"
    /\ todo # <<>>
    /\ \E h \in held : Same(h, Head(todo))
    /\ status' = "failed"
    /\ UNCHANGED <<todo, held>>

(* Every key is taken.                                                     *)
Close ==
    /\ status = "assembling"
    /\ todo = <<>>
    /\ status' = "done"
    /\ UNCHANGED <<todo, held>>

Next == Add \/ Reject \/ Close

Spec == Init /\ [][Next]_avars

=============================================================================
