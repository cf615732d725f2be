--------------------------- MODULE FuturesStreams ---------------------------
(***************************************************************************)
(* Function::find_futures_and_streams and its recursive helper             *)
(* (crates/wit-parser/src/lib.rs).  The helper descends through the type   *)
(* arena of a Resolve from each parameter type and then from the result    *)
(* type, and pushes the id of every future<_> and stream<_> it meets after *)
(* the types nested inside it.                                             *)
(*                                                                         *)
(* The recursion is modelled by its call stack: one frame per active call  *)
(* of the helper on a Type::Id, holding the id and how many of the child   *)
(* types of that TypeDef the loop in its match arm has already visited.   *)
(* A call on a primitive type returns at once (the let-else), so it never  *)
(* gets a frame.                                                           *)
(*                                                                         *)
(* Data abstraction.  A TypeDef is its kind and the sequence of Type       *)
(* values its match arm recurses into, in source order: the field types of *)
(* a record, the element types of a tuple, the payloads of the variant     *)
(* cases that have one, ok then err of a result, the one element type of   *)
(* option/list/fixed-size-list/type, the optional payload of future and    *)
(* stream.  Leaf kinds (resource, handle, flags, enum) have none: the      *)
(* helper does not look into them.  Names, docs, owners and the length of  *)
(* a fixed-size list are left out; every primitive Type is the value Prim. *)
(***************************************************************************)
EXTENDS Naturals, Sequences

CONSTANTS
    N,          \* number of TypeDefs in the arena (ids 1..N)
    MaxFields,  \* most child types of a record, tuple or variant
    MaxParams,  \* most parameters of the function
    Kinds       \* the TypeDefKinds an arena may contain

LeafKinds   == {"resource", "handle", "flags", "enum"}
FieldKinds  == {"record", "tuple", "variant"}
SingleKinds == {"option", "list", "fixed-size-list", "type"}
AsyncKinds  == {"future", "stream"}
AllKinds    == LeafKinds \cup FieldKinds \cup SingleKinds \cup AsyncKinds
                 \cup {"result", "unknown"}

ASSUME ConstantsAssumption ==
    /\ N \in Nat \ {0}
    /\ MaxFields \in Nat
    /\ MaxParams \in Nat
    /\ Kinds \subseteq AllKinds

(* Type: 0 stands for every primitive type, i in 1..N for Type::Id(i).     *)
Prim    == 0
TypeIds == 1..N
Type    == 0..N

(* How many child types a TypeDef of kind k carries (the Options dropped). *)
ChildCounts(k) ==
    IF k \in FieldKinds THEN 0..MaxFields
    ELSE IF k = "result" THEN 0..2
    ELSE IF k \in SingleKinds THEN {1}
    ELSE IF k \in AsyncKinds THEN 0..1
    ELSE {0}

TypeDefs ==
    UNION { UNION { [kind : {k}, children : [1..n -> Type]] :
                      n \in ChildCounts(k) } :
              k \in Kinds }

(* The arena order of the spec (4.1): a TypeDef only refers to earlier     *)
(* ids, as the builder allocates every type after the types it uses.       *)
Arenas ==
    { a \in [TypeIds -> TypeDefs] :
        \A i \in TypeIds : \A j \in 1..Len(a[i].children) :
            a[i].children[j] < i }

Params  == UNION { [1..n -> Type] : n \in 0..MaxParams }
Results == UNION { [1..n -> Type] : n \in 0..1 }   \* Option<Type>

Frame == [id : TypeIds, pos : Nat]

VARIABLES
    types,    \* resolve.types, read only during the traversal
    params,   \* self.params (their types)
    result,   \* self.result, <<>> for None
    root,     \* index of the next of params \o result to call on
    stack,    \* the active calls of the helper, innermost last
    results,  \* the Vec<TypeId> being built
    pc        \* "running", "done" (results returned) or "panicked"

vars == <<types, params, result, root, stack, results, pc>>

(* The types the method calls the helper on: params in order, then the     *)
(* result (Function::parameter_and_result_types).                          *)
RootsResultFirst == result \o params

Roots == params \o result

Top == stack[Len(stack)]

(* The top frame once its loop has moved past one more child.              *)
Advanced == [stack EXCEPT ![Len(stack)] = [id |-> Top.id, pos |-> Top.pos + 1]]

(* The stack once the top call has returned.                              *)
Pop == [k \in 1..(Len(stack) - 1) |-> stack[k]]

CallNoPrimCheck(s, ty) == Append(s, [id |-> ty, pos |-> 0])

(* A call of the helper on ty: a primitive returns at once, an id starts a *)
(* new frame on top of the stack s.                                        *)
Call(s, ty) ==
    IF ty = Prim THEN s ELSE Append(s, [id |-> ty, pos |-> 0])

Init ==
    /\ types \in Arenas
    /\ params \in Params
    /\ result \in Results
    /\ root = 1
    /\ stack = <<>>
    /\ results = <<>>
    /\ pc = "running"

(* The loop of the method calls the helper on the next root type.          *)
CallRoot ==
    /\ pc = "running"
    /\ stack = <<>>
    /\ root <= Len(Roots)
    /\ stack' = Call(stack, Roots[root])
    /\ root' = root + 1
    /\ UNCHANGED <<types, params, result, results, pc>>

(* Every root has been visited: the method returns results.                *)
Return ==
    /\ pc = "running"
    /\ stack = <<>>
    /\ root > Len(Roots)
    /\ pc' = "done"
    /\ UNCHANGED <<types, params, result, root, stack, results>>

(* The match arm for resource, handle, flags and enum does nothing.        *)
VisitLeaf ==
    /\ pc = "running"
    /\ stack # <<>>
    /\ types[Top.id].kind \in LeafKinds
    /\ stack' = Pop
    /\ UNCHANGED <<types, params, result, root, results, pc>>

VisitUnknownIgnored ==
    /\ pc = "running"
    /\ stack # <<>>
    /\ types[Top.id].kind = "unknown"
    /\ stack' = Pop
    /\ UNCHANGED <<types, params, result, root, results, pc>>

(* The arm for an unresolved placeholder is unreachable!(): a panic.       *)
VisitUnknown ==
    /\ pc = "running"
    /\ stack # <<>>
    /\ types[Top.id].kind = "unknown"
    /\ pc' = "panicked"
    /\ UNCHANGED <<types, params, result, root, stack, results>>

VisitChildOnSelf ==
    /\ pc = "running"
    /\ stack # <<>>
    /\ types[Top.id].kind \notin LeafKinds \cup {"unknown"}
    /\ Top.pos < Len(types[Top.id].children)
    /\ stack' = Call(Advanced, Top.id)
    /\ UNCHANGED <<types, params, result, root, results, pc>>

(* The loop of a compound arm recurses into its next child type.           *)
VisitChild ==
    /\ pc = "running"
    /\ stack # <<>>
    /\ types[Top.id].kind \notin LeafKinds \cup {"unknown"}
    /\ Top.pos < Len(types[Top.id].children)
    /\ stack' = Call(Advanced, types[Top.id].children[Top.pos + 1])
    /\ UNCHANGED <<types, params, result, root, results, pc>>

FinishCompoundLate ==
    /\ pc = "running"
    /\ stack # <<>>
    /\ types[Top.id].kind \notin LeafKinds \cup AsyncKinds \cup {"unknown"}
    /\ Top.pos > Len(types[Top.id].children)
    /\ stack' = Pop
    /\ UNCHANGED <<types, params, result, root, results, pc>>

(* A record, tuple, variant, option, list, fixed-size-list, type or result *)
(* arm returns once its children are visited.                              *)
FinishCompound ==
    /\ pc = "running"
    /\ stack # <<>>
    /\ types[Top.id].kind \notin LeafKinds \cup AsyncKinds \cup {"unknown"}
    /\ Top.pos = Len(types[Top.id].children)
    /\ stack' = Pop
    /\ UNCHANGED <<types, params, result, root, results, pc>>

(* The future and stream arms push their own id after the payload.         *)
FinishAsync ==
    /\ pc = "running"
    /\ stack # <<>>
    /\ types[Top.id].kind \in AsyncKinds
    /\ Top.pos = Len(types[Top.id].children)
    /\ results' = Append(results, Top.id)
    /\ stack' = Pop
    /\ UNCHANGED <<types, params, result, root, pc>>

Next ==
    \/ CallRoot
    \/ Return
    \/ VisitLeaf
    \/ VisitUnknown
    \/ VisitChild
    \/ FinishCompound
    \/ FinishAsync

(* The traversal is one sequential call: it runs until it returns or       *)
(* panics, which weak fairness on its only process states.                 *)
Spec == Init /\ [][Next]_vars /\ WF_vars(Next)

-----------------------------------------------------------------------------

(* Type invariant. *)
TypeOK ==
    /\ types \in Arenas
    /\ params \in Seq(Type) /\ Len(params) <= MaxParams
    /\ result \in Seq(Type) /\ Len(result) <= 1
    /\ root \in 1..(Len(Roots) + 1)
    /\ stack \in Seq(Frame)
    /\ results \in Seq(TypeIds)
    /\ pc \in {"running", "done", "panicked"}

(* The recursion of the helper only ever descends: every call on the stack *)
(* is on a strictly earlier arena id than the call that made it.  This is  *)
(* what bounds the recursion depth of find_futures_and_streams by the      *)
(* arena size, and it rests on the arena order of the builder.             *)
StackDescends ==
    \A k \in 1..(Len(stack) - 1) : stack[k + 1].id < stack[k].id

(* The inductive strengthening of StackDescends: each frame below the top  *)
(* is suspended in its loop on the child whose call is the frame above it, *)
(* and no loop has run past the children of its TypeDef.                   *)
FramesLinked ==
    \A k \in 1..(Len(stack) - 1) :
        /\ stack[k].pos \in 1..Len(types[stack[k].id].children)
        /\ types[stack[k].id].children[stack[k].pos] = stack[k + 1].id

PosBounded ==
    \A k \in 1..Len(stack) : stack[k].pos <= Len(types[stack[k].id].children)

IInv == TypeOK /\ FramesLinked /\ PosBounded

(* The k-th call from the bottom is on an id at most N + 1 - k, so the     *)
(* recursion is never more than N calls deep.                              *)
DepthBound == \A k \in 1..Len(stack) : stack[k].id + k <= N + 1

(* The non-primitive root types of the signature.                          *)
RootIds == {Roots[j] : j \in 1..Len(Roots)} \ {Prim}

(* A set of ids holds every non-primitive child type of its members.        *)
ReachClosed(S) ==
    \A i \in S : \A j \in 1..Len(types[i].children) :
        types[i].children[j] # Prim => types[i].children[j] \in S

(* The TypeDefs the helper reaches from the signature: the ids in every    *)
(* set that holds the roots and the children of its members.               *)
Reached ==
    {i \in TypeIds : \A S \in SUBSET TypeIds : RootIds \subseteq S /\ ReachClosed(S) => i \in S}

(* The traversal never returns normally over a signature that reaches a    *)
(* foreign placeholder (TypeDefKind::Unknown): such a graph must not pass  *)
(* as resolved.                                                            *)
NoSilentUnknown ==
    pc = "done" => \A i \in Reached : types[i].kind # "unknown"

(* The traversal of a resolved arena always ends: the method returns or    *)
(* the unreachable!() arm panics, the recursion never runs forever.        *)
Terminates == <>(pc \in {"done", "panicked"})

=============================================================================
