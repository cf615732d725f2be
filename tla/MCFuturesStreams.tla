------------------------- MODULE MCFuturesStreams -------------------------
(***************************************************************************)
(* Model-checking instance of FuturesStreams, with the reference           *)
(* definition of what find_futures_and_streams returns.                    *)
(***************************************************************************)
EXTENDS FuturesStreams, SequencesExt

(* The kinds of a resolved arena: one of each way the helper treats a      *)
(* TypeDef: a list of child types (record; tuple, variant and result take  *)
(* the same steps), exactly one child (option), an optional payload pushed *)
(* after it (future; stream takes the same steps), a leaf (resource).      *)
MCResolvedKinds == {"record", "option", "future", "resource"}

(* An unresolved arena also holds foreign placeholders.                    *)
MCUnresolvedKinds == {"record", "future", "resource", "unknown"}

(* Reference: the futures and streams inside TypeDef i, depth first, each  *)
(* after its payload, children in source order.                            *)
FutsOf[i \in TypeIds] ==
    LET kids == types[i].children
        own  == IF types[i].kind \in AsyncKinds THEN <<i>> ELSE <<>>
    IN  FlattenSeq([j \in 1..Len(kids) |->
                      IF kids[j] = Prim THEN <<>> ELSE FutsOf[kids[j]]]) \o own

FutsOfSeq(tys) ==
    FlattenSeq([j \in 1..Len(tys) |-> IF tys[j] = Prim THEN <<>> ELSE FutsOf[tys[j]]])

(* When the method returns, results lists exactly the futures and streams  *)
(* of the signature in depth-first order, params before the result, every  *)
(* future or stream after the ones nested in its payload: the order the    *)
(* [future-new-k] import names of the doc comment index into.              *)
ResultMatchesReference ==
    pc = "done" => results = FutsOfSeq(params) \o FutsOfSeq(result)

=============================================================================
