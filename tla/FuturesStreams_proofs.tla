------------------------ MODULE FuturesStreams_proofs ------------------------
(***************************************************************************)
(* Proofs about FuturesStreams for every value of the constants.           *)
(***************************************************************************)
EXTENDS FuturesStreams, TLAPS

(* What membership in Arenas says about one TypeDef of the arena.          *)
LEMMA ArenaEntry ==
    ASSUME NEW a \in Arenas, NEW i \in TypeIds
    PROVE  /\ a[i].kind \in Kinds
           /\ a[i].children \in Seq(Type)
           /\ \A j \in 1..Len(a[i].children) : a[i].children[j] \in 0..(i - 1)
<1>1. a[i] \in TypeDefs /\ \A j \in 1..Len(a[i].children) : a[i].children[j] < i
  BY DEF Arenas
<1>2. PICK k \in Kinds : \E n \in ChildCounts(k) :
         a[i] \in [kind : {k}, children : [1..n -> Type]]
  BY <1>1 DEF TypeDefs
<1>7. PICK n \in ChildCounts(k) : a[i] \in [kind : {k}, children : [1..n -> Type]]
  BY <1>2
<1>3. n \in Nat
  BY ConstantsAssumption DEF ChildCounts
<1>4. a[i].children \in [1..n -> Type] /\ a[i].kind = k
  BY <1>7
<1>5. a[i].children \in Seq(Type) /\ Len(a[i].children) = n
  BY <1>3, <1>4
<1>6. QED
  BY <1>1, <1>4, <1>5 DEF Type, TypeIds

(* The sequences of at most m elements, as Init enumerates them.          *)
LEMMA BoundedSeqs ==
    ASSUME NEW S, NEW m \in Nat, NEW s \in UNION {[1..n -> S] : n \in 0..m}
    PROVE  s \in Seq(S) /\ Len(s) <= m
<1>1. PICK n \in 0..m : s \in [1..n -> S]
  OBVIOUS
<1>2. QED
  BY <1>1

(* A call of the helper leaves a stack of frames.                         *)
LEMMA CallFrames ==
    ASSUME NEW s \in Seq(Frame), NEW ty \in Type
    PROVE  Call(s, ty) \in Seq(Frame)
<1>1. CASE ty = Prim
  BY <1>1 DEF Call
<1>2. CASE ty # Prim
  <2>1. ty \in TypeIds
    BY <1>2, ConstantsAssumption DEF Type, Prim, TypeIds
  <2>2. [id |-> ty, pos |-> 0] \in Frame
    BY <2>1 DEF Frame
  <2>3. QED
    BY <1>2, <2>2 DEF Call
<1>3. QED
  BY <1>1, <1>2

(* The next child of the top frame, when its loop has one left: a type of *)
(* the arena, earlier than the frame's own id, and the frame advanced past *)
(* it.                                                                     *)
LEMMA TopChild ==
    ASSUME NEW a \in Arenas, NEW s \in Seq(Frame), s # <<>>,
           s[Len(s)].pos < Len(a[s[Len(s)].id].children)
    PROVE  /\ s[Len(s)] \in Frame
           /\ a[s[Len(s)].id].children \in Seq(Type)
           /\ s[Len(s)].pos + 1 \in 1..Len(a[s[Len(s)].id].children)
           /\ a[s[Len(s)].id].children[s[Len(s)].pos + 1] \in 0..(s[Len(s)].id - 1)
           /\ LET adv == [s EXCEPT ![Len(s)] = [id |-> s[Len(s)].id,
                                                 pos |-> s[Len(s)].pos + 1]]
              IN  /\ adv \in Seq(Frame) /\ Len(adv) = Len(s)
                  /\ adv[Len(s)] = [id |-> s[Len(s)].id, pos |-> s[Len(s)].pos + 1]
                  /\ \A k \in 1..(Len(s) - 1) : adv[k] = s[k]
<1> DEFINE L == Len(s)
           t == s[L]
           kids == a[t.id].children
<1>1. L \in Nat \ {0} /\ t \in Frame
  OBVIOUS
<1>2. t.id \in TypeIds /\ t.pos \in Nat
  BY <1>1 DEF Frame
<1>3. kids \in Seq(Type)
      /\ \A j \in 1..Len(kids) : kids[j] \in 0..(t.id - 1)
  BY <1>2, ArenaEntry
<1>4. t.pos + 1 \in 1..Len(kids)
  BY <1>2, <1>3
<1>5. kids[t.pos + 1] \in 0..(t.id - 1)
  BY <1>3, <1>4
<1>6. [id |-> t.id, pos |-> t.pos + 1] \in Frame
  BY <1>2 DEF Frame
<1>7. LET adv == [s EXCEPT ![L] = [id |-> t.id, pos |-> t.pos + 1]]
      IN  /\ adv \in Seq(Frame) /\ Len(adv) = L
          /\ adv[L] = [id |-> t.id, pos |-> t.pos + 1]
          /\ \A k \in 1..(L - 1) : adv[k] = s[k]
  BY <1>1, <1>6
<1>8. QED
  BY <1>1, <1>3, <1>4, <1>5, <1>7

(* The same facts about the variables, for a state where VisitChild is    *)
(* taken.                                                                  *)
LEMMA VisitChildFacts ==
    ASSUME TypeOK, VisitChild
    PROVE  /\ Top \in Frame
           /\ types[Top.id].children \in Seq(Type)
           /\ Top.pos + 1 \in 1..Len(types[Top.id].children)
           /\ types[Top.id].children[Top.pos + 1] \in 0..(Top.id - 1)
           /\ Advanced \in Seq(Frame) /\ Len(Advanced) = Len(stack)
           /\ Advanced[Len(stack)] = [id |-> Top.id, pos |-> Top.pos + 1]
           /\ \A k \in 1..(Len(stack) - 1) : Advanced[k] = stack[k]
           /\ stack' = Call(Advanced, types[Top.id].children[Top.pos + 1])
           /\ types' = types
<1>1. types \in Arenas /\ stack \in Seq(Frame)
  BY DEF TypeOK
<1>2. stack # <<>> /\ Top.pos < Len(types[Top.id].children)
  BY DEF VisitChild
<1>3. stack' = Call(Advanced, types[Top.id].children[Top.pos + 1]) /\ types' = types
  BY DEF VisitChild
<1>4. QED
  BY <1>1, <1>2, <1>3, TopChild DEF Top, Advanced

LEMMA TypeOKInit == Init => TypeOK
  <2> SUFFICES ASSUME Init PROVE TypeOK
    OBVIOUS
  <2>1. params \in Seq(Type) /\ Len(params) <= MaxParams
    BY BoundedSeqs, ConstantsAssumption DEF Init, Params
  <2>2. result \in Seq(Type) /\ Len(result) <= 1
    BY BoundedSeqs DEF Init, Results
  <2>3. QED
    BY <2>1, <2>2 DEF Init, TypeOK, Roots

LEMMA TypeOKStep == TypeOK /\ [Next]_vars => TypeOK'
  <2> SUFFICES ASSUME TypeOK, [Next]_vars PROVE TypeOK'
    OBVIOUS
  <2> USE DEF TypeOK
  <2>1. CASE CallRoot
    <3>1. Roots[root] \in Type
      BY <2>1 DEF CallRoot, Roots
    <3>2. Call(stack, Roots[root]) \in Seq(Frame)
      BY <3>1, CallFrames
    <3>3. QED
      BY <2>1, <3>2 DEF CallRoot, Roots
  <2>2. CASE Return
    BY <2>2 DEF Return, Roots
  <2>3. CASE VisitLeaf
    BY <2>3 DEF VisitLeaf, Pop, Roots
  <2>4. CASE VisitUnknown
    BY <2>4 DEF VisitUnknown, Roots
  <2>5. CASE VisitChild
    <3>0. /\ Top \in Frame
          /\ types[Top.id].children[Top.pos + 1] \in 0..(Top.id - 1)
          /\ Advanced \in Seq(Frame)
          /\ stack' = Call(Advanced, types[Top.id].children[Top.pos + 1])
      BY <2>5, VisitChildFacts
    <3>1. /\ types[Top.id].children[Top.pos + 1] \in Type
          /\ Advanced \in Seq(Frame)
          /\ stack' = Call(Advanced, types[Top.id].children[Top.pos + 1])
      BY ONLY <3>0, ConstantsAssumption DEF Type, Frame, TypeIds
    <3>2. stack' \in Seq(Frame)
      BY <3>1, CallFrames
    <3>3. QED
      BY <2>5, <3>2 DEF VisitChild, Roots
  <2>6. CASE FinishCompound
    BY <2>6 DEF FinishCompound, Pop, Roots
  <2>7. CASE FinishAsync
    <3>1. Top \in Frame
      BY <2>7 DEF FinishAsync, Top
    <3>2. results' \in Seq(TypeIds)
      BY <2>7, <3>1 DEF FinishAsync, Frame
    <3>3. stack' \in Seq(Frame)
      BY <2>7 DEF FinishAsync, Pop
    <3>4. QED
      BY <2>7, <3>2, <3>3 DEF FinishAsync, Roots
  <2>8. CASE UNCHANGED vars
    BY <2>8 DEF vars, Roots
  <2>9. QED
    BY <2>1, <2>2, <2>3, <2>4, <2>5, <2>6, <2>7, <2>8 DEF Next

(* Type correctness: every reachable state satisfies TypeOK.               *)
THEOREM TypeCorrect == Spec => []TypeOK
BY TypeOKInit, TypeOKStep, PTL DEF Spec

(* What Pop leaves: the frames below the top, unchanged.                   *)
LEMMA PopFrames ==
    ASSUME NEW s \in Seq(Frame), s # <<>>
    PROVE  LET p == [k \in 1..(Len(s) - 1) |-> s[k]]
           IN  /\ p \in Seq(Frame)
               /\ Len(p) = Len(s) - 1
               /\ \A k \in 1..Len(p) : p[k] = s[k]
OBVIOUS

(* Dropping the top frame keeps the frames below linked and bounded.      *)
LEMMA PopKeepsLinks ==
    ASSUME TypeOK, FramesLinked, PosBounded, stack # <<>>,
           stack' = Pop, types' = types
    PROVE  FramesLinked' /\ PosBounded'
<1>1. stack \in Seq(Frame)
  BY DEF TypeOK
<1>2. Len(stack') = Len(stack) - 1 /\ \A k \in 1..Len(stack') : stack'[k] = stack[k]
  BY <1>1, PopFrames DEF Pop
<1>3. FramesLinked'
  <2> SUFFICES ASSUME NEW k \in 1..(Len(stack') - 1)
               PROVE  /\ stack'[k].pos \in 1..Len(types'[stack'[k].id].children)
                      /\ types'[stack'[k].id].children[stack'[k].pos] = stack'[k + 1].id
    BY DEF FramesLinked
  <2>1. stack'[k] = stack[k] /\ stack'[k + 1] = stack[k + 1] /\ k \in 1..(Len(stack) - 1)
    BY <1>1, <1>2
  <2>2. QED
    BY <2>1 DEF FramesLinked
<1>4. PosBounded'
  <2> SUFFICES ASSUME NEW k \in 1..Len(stack')
               PROVE  stack'[k].pos <= Len(types'[stack'[k].id].children)
    BY DEF PosBounded
  <2>1. stack'[k] = stack[k] /\ k \in 1..Len(stack)
    BY <1>1, <1>2
  <2>2. QED
    BY <2>1 DEF PosBounded
<1>5. QED
  BY <1>3, <1>4

(* The call a compound arm makes on its next child links a new frame.      *)
(* What a call of the helper does to a stack: the frames below stay, and a *)
(* frame on an id is pushed unless the type is primitive.                  *)
LEMMA CallShape ==
    ASSUME NEW s \in Seq(Frame), NEW ty \in Type
    PROVE  /\ Len(Call(s, ty)) \in {Len(s), Len(s) + 1}
           /\ \A k \in 1..Len(s) : Call(s, ty)[k] = s[k]
           /\ Len(Call(s, ty)) = Len(s) + 1 =>
                 /\ ty \in TypeIds
                 /\ Call(s, ty)[Len(s) + 1] = [id |-> ty, pos |-> 0]
<1>1. CASE ty = Prim
  BY <1>1 DEF Call
<1>2. CASE ty # Prim
  <2>1. ty \in TypeIds
    BY <1>2, ConstantsAssumption DEF Type, Prim, TypeIds
  <2>2. Call(s, ty) = Append(s, [id |-> ty, pos |-> 0])
    BY <1>2 DEF Call
  <2>3. QED
    BY <2>1, <2>2
<1>3. QED
  BY <1>1, <1>2

LEMMA VisitChildKeepsLinks ==
    ASSUME TypeOK, FramesLinked, PosBounded, VisitChild
    PROVE  FramesLinked' /\ PosBounded'
<1> DEFINE L == Len(stack)
           t == Top
           kids == types[t.id].children
           c == kids[t.pos + 1]
<1>1. t \in Frame /\ t.pos + 1 \in 1..Len(kids)
  BY VisitChildFacts, Zenon
<1>2. c \in 0..(t.id - 1)
  BY VisitChildFacts, Zenon
<1>3. /\ Advanced \in Seq(Frame) /\ Len(Advanced) = L
      /\ Advanced[L] = [id |-> t.id, pos |-> t.pos + 1]
      /\ \A k \in 1..(L - 1) : Advanced[k] = stack[k]
  BY VisitChildFacts, Zenon
<1>4. stack' = Call(Advanced, c) /\ types' = types
  BY VisitChildFacts, Zenon
<1>5. stack \in Seq(Frame) /\ L \in Nat \ {0} /\ t = stack[L]
  BY DEF TypeOK, VisitChild, Top
<1>6. c \in Type
  BY ONLY <1>1, <1>2, ConstantsAssumption DEF Type, Frame, TypeIds
<1>7. /\ Len(stack') \in {L, L + 1}
      /\ \A k \in 1..L : stack'[k] = Advanced[k]
      /\ Len(stack') = L + 1 => c \in TypeIds /\ stack'[L + 1] = [id |-> c, pos |-> 0]
  <2>1. Advanced \in Seq(Frame) /\ Len(Advanced) = L
    BY ONLY <1>3
  <2>2. /\ Len(Call(Advanced, c)) \in {Len(Advanced), Len(Advanced) + 1}
        /\ \A k \in 1..Len(Advanced) : Call(Advanced, c)[k] = Advanced[k]
        /\ Len(Call(Advanced, c)) = Len(Advanced) + 1 =>
              /\ c \in TypeIds
              /\ Call(Advanced, c)[Len(Advanced) + 1] = [id |-> c, pos |-> 0]
    BY ONLY <1>6, <2>1, CallShape
  <2>3. QED
    BY ONLY <1>4, <2>1, <2>2
<1>8. /\ \A k \in 1..(L - 1) : stack'[k] = stack[k]
      /\ stack'[L] = [id |-> t.id, pos |-> t.pos + 1]
  <2>1. \A k \in 1..L : stack'[k] = Advanced[k]
    BY ONLY <1>7
  <2>2. L \in Nat \ {0}
    BY ONLY <1>5
  <2>3. QED
    BY ONLY <1>3, <2>1, <2>2
<1>9. FramesLinked'
  <2> SUFFICES ASSUME NEW k \in 1..(Len(stack') - 1)
               PROVE  /\ stack'[k].pos \in 1..Len(types[stack'[k].id].children)
                      /\ types[stack'[k].id].children[stack'[k].pos] = stack'[k + 1].id
    BY <1>4 DEF FramesLinked
  <2>0. Len(stack') \in {L, L + 1} /\ L \in Nat \ {0} /\ k \in 1..(Len(stack') - 1)
    BY <1>5, <1>7
  <2>1. CASE k < L - 1
    <3>1. k \in 1..(L - 1) /\ stack'[k] = stack[k] /\ stack'[k + 1] = stack[k + 1]
      BY ONLY <1>8, <2>0, <2>1
    <3>2. QED
      BY <3>1 DEF FramesLinked
  <2>2. CASE k = L - 1
    <3>1. k \in 1..(L - 1) /\ stack'[k] = stack[k] /\ stack'[k + 1].id = stack[k + 1].id
      BY ONLY <1>5, <1>8, <2>0, <2>2
    <3>2. QED
      BY <3>1 DEF FramesLinked
  <2>3. CASE k = L
    <3>1. stack'[k] = [id |-> t.id, pos |-> t.pos + 1]
      BY ONLY <1>8, <2>3
    <3>2. Len(stack') = L + 1
      BY ONLY <2>0, <2>3
    <3>3. stack'[k + 1].id = c
      BY ONLY <1>7, <2>3, <3>2
    <3>4. QED
      BY ONLY <1>1, <3>1, <3>3
  <2>4. QED
    BY ONLY <2>0, <2>1, <2>2, <2>3
<1>10. PosBounded'
  <2> SUFFICES ASSUME NEW k \in 1..Len(stack')
               PROVE  stack'[k].pos <= Len(types[stack'[k].id].children)
    BY <1>4 DEF PosBounded
  <2>0. Len(stack') \in {L, L + 1} /\ L \in Nat \ {0} /\ k \in 1..Len(stack')
    BY <1>5, <1>7
  <2>1. CASE k < L
    <3>1. k \in 1..Len(stack) /\ stack'[k] = stack[k]
      BY ONLY <1>8, <2>0, <2>1
    <3>2. QED
      BY <3>1 DEF PosBounded
  <2>2. CASE k = L
    <3>1. stack'[k] = [id |-> t.id, pos |-> t.pos + 1]
      BY ONLY <1>8, <2>2
    <3>2. QED
      BY ONLY <1>1, <3>1
  <2>3. CASE k = L + 1
    <3>1. c \in TypeIds /\ stack'[k] = [id |-> c, pos |-> 0]
      BY ONLY <1>7, <2>0, <2>3
    <3>2. types[c].children \in Seq(Type)
      <4>1. types \in Arenas
        BY DEF TypeOK
      <4>2. QED
        BY <3>1, <4>1, ArenaEntry
    <3>3. QED
      BY ONLY <3>1, <3>2, ConstantsAssumption DEF Type
  <2>4. QED
    BY ONLY <2>0, <2>1, <2>2, <2>3
<1>11. QED
  BY <1>9, <1>10

(* A step that leaves the stack and the arena alone keeps the links.       *)
LEMMA StackUnchangedKeepsLinks ==
    ASSUME FramesLinked, PosBounded, stack' = stack, types' = types
    PROVE  FramesLinked' /\ PosBounded'
BY DEF FramesLinked, PosBounded

LEMMA LinksInvariant == Spec => []IInv
<1>1. Init => IInv
  BY TypeOKInit DEF Init, IInv, FramesLinked, PosBounded
<1>2. IInv /\ [Next]_vars => IInv'
  <2> SUFFICES ASSUME IInv, [Next]_vars PROVE IInv'
    OBVIOUS
  <2>1. TypeOK'
    BY TypeOKStep DEF IInv
  <2>2. FramesLinked' /\ PosBounded'
    <3>1. CASE CallRoot
      BY <3>1 DEF CallRoot, Call, FramesLinked, PosBounded
    <3>2. CASE Return
      BY <3>2, StackUnchangedKeepsLinks DEF Return, IInv
    <3>3. CASE VisitLeaf
      BY <3>3, PopKeepsLinks DEF VisitLeaf, IInv
    <3>4. CASE VisitUnknown
      BY <3>4, StackUnchangedKeepsLinks DEF VisitUnknown, IInv
    <3>5. CASE VisitChild
      BY <3>5, VisitChildKeepsLinks DEF IInv
    <3>6. CASE FinishCompound
      BY <3>6, PopKeepsLinks DEF FinishCompound, IInv
    <3>7. CASE FinishAsync
      BY <3>7, PopKeepsLinks DEF FinishAsync, IInv
    <3>8. CASE UNCHANGED vars
      BY <3>8, StackUnchangedKeepsLinks DEF vars, IInv
    <3>9. QED
      BY <3>1, <3>2, <3>3, <3>4, <3>5, <3>6, <3>7, <3>8 DEF Next
  <2>3. QED
    BY <2>1, <2>2 DEF IInv
<1>3. QED
  BY <1>1, <1>2, PTL DEF Spec


(* The frames linked by FramesLinked descend, by the arena order.          *)
LEMMA LinksDescend == IInv => StackDescends
<1> SUFFICES ASSUME IInv, NEW k \in 1..(Len(stack) - 1)
             PROVE  stack[k + 1].id < stack[k].id
  BY DEF StackDescends
<1>1. stack \in Seq(Frame) /\ types \in Arenas
  BY DEF IInv, TypeOK
<1>2. stack[k] \in Frame /\ stack[k + 1] \in Frame
  BY <1>1
<1>3. /\ stack[k].pos \in 1..Len(types[stack[k].id].children)
      /\ types[stack[k].id].children[stack[k].pos] = stack[k + 1].id
  BY DEF IInv, FramesLinked
<1>4. \A j \in 1..Len(types[stack[k].id].children) :
         types[stack[k].id].children[j] \in 0..(stack[k].id - 1)
  BY <1>1, <1>2, ArenaEntry DEF Frame
<1>5. stack[k + 1].id \in 0..(stack[k].id - 1)
  BY ONLY <1>3, <1>4
<1>6. QED
  BY ONLY <1>2, <1>5, ConstantsAssumption DEF Frame, TypeIds

(* Every call of the helper on the stack is on a strictly earlier arena    *)
(* id than the call that made it, for every arena size.                    *)
THEOREM StackDescendsThm == Spec => []StackDescends
BY LinksInvariant, LinksDescend, PTL


(* Dropping the top frame keeps the depth bound of the frames below.      *)
LEMMA PopKeepsDepth ==
    ASSUME TypeOK, DepthBound, stack # <<>>, stack' = Pop
    PROVE  DepthBound'
<1>1. stack \in Seq(Frame)
  BY DEF TypeOK
<1>2. Len(stack') = Len(stack) - 1 /\ \A k \in 1..Len(stack') : stack'[k] = stack[k]
  BY <1>1, PopFrames DEF Pop
<1>3. QED
  BY <1>1, <1>2 DEF DepthBound

(* The call on the next child of the top frame is on a smaller id, one     *)
(* level deeper, so it stays under the bound.                              *)
LEMMA VisitChildKeepsDepth ==
    ASSUME IInv, DepthBound, VisitChild
    PROVE  DepthBound'
<1> DEFINE L == Len(stack)
           t == stack[L]
           kids == types[t.id].children
           c == kids[t.pos + 1]
<1>1. stack \in Seq(Frame) /\ L \in Nat \ {0} /\ t \in Frame /\ t = Top
  BY DEF IInv, TypeOK, VisitChild, Top
<1>2. TypeOK
  BY DEF IInv
<1>3. /\ c \in 0..(t.id - 1)
      /\ stack' = Call(Advanced, c)
      /\ Advanced \in Seq(Frame) /\ Len(Advanced) = L
      /\ Advanced[L] = [id |-> t.id, pos |-> t.pos + 1]
      /\ \A k \in 1..(L - 1) : Advanced[k] = stack[k]
  BY <1>1, <1>2, VisitChildFacts
<1>4. t.id + L <= N + 1
  BY <1>1 DEF DepthBound
<1>5. /\ Advanced \in Seq(Frame) /\ Len(Advanced) = L
      /\ \A k \in 1..L : Advanced[k].id = stack[k].id
  <2>1. Advanced[L].id = stack[L].id
    BY ONLY <1>3
  <2>2. \A k \in 1..(L - 1) : Advanced[k].id = stack[k].id
    BY ONLY <1>3
  <2>3. \A k \in 1..L : k \in 1..(L - 1) \/ k = L
    BY ONLY <1>1
  <2>4. QED
    BY ONLY <1>3, <2>1, <2>2, <2>3
<1>6. stack' = Call(Advanced, c)
  BY <1>3
<1>7. CASE c = Prim
  BY <1>1, <1>5, <1>6, <1>7 DEF Call, DepthBound
<1>8. CASE c # Prim
  <2>1. stack' = Append(Advanced, [id |-> c, pos |-> 0])
    BY <1>6, <1>8 DEF Call
  <2>2. Len(stack') = L + 1 /\ stack'[L + 1].id = c
        /\ \A k \in 1..L : stack'[k].id = stack[k].id
    BY ONLY <1>5, <2>1
  <2>3. c + (L + 1) <= N + 1
    <3>1. t.id \in 1..N
      BY <1>1 DEF Frame, TypeIds
    <3>2. QED
      BY <1>1, <1>3, <1>4, <3>1, ConstantsAssumption
  <2>4. QED
    BY <1>1, <2>2, <2>3 DEF DepthBound
<1>9. QED
  BY <1>7, <1>8

LEMMA DepthInvariant == Spec => [](IInv /\ DepthBound)
<1>1. Init => DepthBound
  BY DEF Init, DepthBound
<1>2. IInv /\ DepthBound /\ [Next]_vars => DepthBound'
  <2> SUFFICES ASSUME IInv, DepthBound, [Next]_vars PROVE DepthBound'
    OBVIOUS
  <2>1. CASE CallRoot
    <3>1. Roots[root] \in Type
      BY <2>1 DEF CallRoot, Roots, IInv, TypeOK
    <3>2. CASE Roots[root] = Prim
      BY <2>1, <3>2 DEF CallRoot, Call, DepthBound
    <3>3. CASE Roots[root] # Prim
      <4>1. Roots[root] \in 1..N
        BY <3>1, <3>3 DEF Type, Prim
      <4>2. stack' = <<[id |-> Roots[root], pos |-> 0]>>
        BY <2>1, <3>3 DEF CallRoot, Call
      <4>3. Len(stack') = 1 /\ stack'[1].id = Roots[root]
        BY <4>2
      <4>4. QED
        BY <4>1, <4>3, ConstantsAssumption DEF DepthBound
    <3>4. QED
      BY <3>2, <3>3
  <2>2. CASE Return
    BY <2>2 DEF Return, DepthBound
  <2>3. CASE VisitLeaf
    BY <2>3, PopKeepsDepth DEF VisitLeaf, IInv
  <2>4. CASE VisitUnknown
    BY <2>4 DEF VisitUnknown, DepthBound
  <2>5. CASE VisitChild
    BY <2>5, VisitChildKeepsDepth
  <2>6. CASE FinishCompound
    BY <2>6, PopKeepsDepth DEF FinishCompound, IInv
  <2>7. CASE FinishAsync
    BY <2>7, PopKeepsDepth DEF FinishAsync, IInv
  <2>8. CASE UNCHANGED vars
    BY <2>8 DEF vars, DepthBound
  <2>9. QED
    BY <2>1, <2>2, <2>3, <2>4, <2>5, <2>6, <2>7, <2>8 DEF Next
<1>3. QED
  BY <1>1, <1>2, LinksInvariant, PTL DEF Spec

(* The top frame's id is at least 1, so the bound caps the stack length.   *)
LEMMA DepthCapsLength == IInv /\ DepthBound => Len(stack) <= N
<1> SUFFICES ASSUME IInv, DepthBound PROVE Len(stack) <= N
  OBVIOUS
<1>1. stack \in Seq(Frame)
  BY DEF IInv, TypeOK
<1>2. CASE stack = <<>>
  BY <1>2, ConstantsAssumption
<1>3. CASE stack # <<>>
  <2>1. stack[Len(stack)] \in Frame /\ Len(stack) \in 1..Len(stack)
    BY <1>1, <1>3
  <2>2. stack[Len(stack)].id + Len(stack) <= N + 1
    BY <2>1 DEF DepthBound
  <2>3. stack[Len(stack)].id \in 1..N
    BY <2>1 DEF Frame, TypeIds
  <2>4. QED
    BY <1>1, <2>2, <2>3, ConstantsAssumption
<1>4. QED
  BY <1>2, <1>3

(* The recursion of find_futures_and_streams' helper is never deeper than  *)
(* the number of TypeDefs in the arena, whatever the arena: the stack      *)
(* cannot overflow on a resolved, topologically ordered arena.             *)
THEOREM RecursionDepthBounded == Spec => [](Len(stack) <= N)
BY DepthInvariant, DepthCapsLength, PTL


-----------------------------------------------------------------------------
(* A set of ids holds every foreign placeholder and every TypeDef with a   *)
(* child in the set.                                                       *)
UpClosed(S) ==
    /\ \A i \in TypeIds : types[i].kind = "unknown" => i \in S
    /\ \A i \in TypeIds : \A j \in 1..Len(types[i].children) :
          types[i].children[j] \in S => i \in S

(* The TypeDefs that reach a foreign placeholder: the least such set.       *)
Bad == {i \in TypeIds : \A S \in SUBSET TypeIds : UpClosed(S) => i \in S}

(* A type whose traversal cannot meet a foreign placeholder.               *)
Clean(ty) == ty = Prim \/ ty \notin Bad

(* The inductive strengthening of NoSilentUnknown: unless the traversal    *)
(* has panicked, every root it has finished and every child a frame's loop *)
(* has finished is clean; the one in progress is the frame above it, and   *)
(* the bottom frame is the call on the last root taken.                    *)
CleanInv ==
    pc # "panicked" =>
      /\ stack # <<>> => root > 1 /\ stack[1].id = Roots[root - 1]
      /\ \A j \in 1..(root - 1) : (stack # <<>> /\ j = root - 1) \/ Clean(Roots[j])
      /\ \A k \in 1..Len(stack) : \A j \in 1..stack[k].pos :
            (k < Len(stack) /\ j = stack[k].pos) \/ Clean(types[stack[k].id].children[j])
      /\ pc = "done" => stack = <<>> /\ root > Len(Roots)

(* A leaf TypeDef of an arena has no child types.                          *)
LEMMA ArenaLeaf ==
    ASSUME NEW a \in Arenas, NEW i \in TypeIds, a[i].kind \in LeafKinds
    PROVE  Len(a[i].children) = 0
<1>1. a[i] \in TypeDefs
  BY DEF Arenas
<1>2. PICK k \in Kinds : \E n \in ChildCounts(k) :
         a[i] \in [kind : {k}, children : [1..n -> Type]]
  BY <1>1 DEF TypeDefs
<1>3. PICK n \in ChildCounts(k) : a[i] \in [kind : {k}, children : [1..n -> Type]]
  BY <1>2
<1>4. k \in LeafKinds
  BY <1>3
<1>5. n = 0
  BY <1>3, <1>4 DEF ChildCounts, LeafKinds, FieldKinds, SingleKinds, AsyncKinds
<1>6. QED
  BY <1>3, <1>5

(* Bad is itself closed: it holds every placeholder and every TypeDef with *)
(* a child in it.                                                          *)
LEMMA BadUpClosed == UpClosed(Bad)
<1>1. \A i \in TypeIds : types[i].kind = "unknown" => i \in Bad
  BY DEF Bad, UpClosed
<1>2. \A i \in TypeIds : \A j \in 1..Len(types[i].children) :
         types[i].children[j] \in Bad => i \in Bad
  BY DEF Bad, UpClosed
<1>3. QED
  BY <1>1, <1>2 DEF UpClosed

(* A TypeDef that is no placeholder and whose child types are all clean is *)
(* clean: Bad without it is still closed.                                  *)
LEMMA CleanUp ==
    ASSUME NEW i \in TypeIds, types[i].kind # "unknown",
           \A j \in 1..Len(types[i].children) : Clean(types[i].children[j])
    PROVE  i \notin Bad
<1> DEFINE S == Bad \ {i}
<1>1. S \in SUBSET TypeIds
  BY DEF Bad
<1>2. Prim \notin Bad
  BY DEF Bad, Prim, TypeIds
<1>3. \A x \in TypeIds : types[x].kind = "unknown" => x \in S
  BY BadUpClosed DEF UpClosed
<1>4. \A x \in TypeIds : \A j \in 1..Len(types[x].children) :
         types[x].children[j] \in S => x \in S
  BY <1>2, BadUpClosed DEF UpClosed, Clean
<1>5. UpClosed(S)
  BY <1>3, <1>4 DEF UpClosed
<1>6. QED
  BY <1>1, <1>5 DEF Bad

(* Bad depends on the arena alone.                                         *)
LEMMA BadUnchanged ==
    ASSUME types' = types
    PROVE  Bad' = Bad
BY DEF Bad, UpClosed

(* Once every root is clean, nothing the signature reaches is a            *)
(* placeholder: the ids outside Bad hold the roots and are closed under    *)
(* children.                                                               *)
LEMMA CleanRootsReachNoUnknown ==
    ASSUME TypeOK, \A j \in 1..Len(Roots) : Clean(Roots[j])
    PROVE  \A i \in Reached : types[i].kind # "unknown"
<1> DEFINE G == TypeIds \ Bad
<1>0. Roots \in Seq(Type)
  BY DEF TypeOK, Roots
<1>1. RootIds \subseteq G
  <2> SUFFICES ASSUME NEW j \in 1..Len(Roots), Roots[j] # Prim
               PROVE  Roots[j] \in G
    BY DEF RootIds
  <2>1. Roots[j] \in TypeIds
    BY <1>0, ConstantsAssumption DEF Type, TypeIds, Prim
  <2>2. QED
    BY <2>1 DEF Clean
<1>2. ReachClosed(G)
  <2> SUFFICES ASSUME NEW i \in G, NEW j \in 1..Len(types[i].children),
                      types[i].children[j] # Prim
               PROVE  types[i].children[j] \in G
    BY DEF ReachClosed
  <2>1. types[i].children[j] \in 0..(i - 1)
    BY ArenaEntry DEF TypeOK
  <2>2. types[i].children[j] \in TypeIds
    BY <2>1, ConstantsAssumption DEF Prim, TypeIds
  <2>3. types[i].children[j] \notin Bad
    BY BadUpClosed DEF UpClosed
  <2>4. QED
    BY <2>2, <2>3
<1>3. \A i \in Reached : i \in G
  BY <1>1, <1>2 DEF Reached
<1>4. QED
  BY <1>3, BadUpClosed DEF UpClosed, Reached

(* A call that returns over clean children leaves CleanInv: its own id is  *)
(* clean, and it is the child the frame below it, or the root loop, was    *)
(* waiting on.                                                             *)
LEMMA PopClean ==
    ASSUME IInv, CleanInv, pc = "running", stack # <<>>,
           types[Top.id].kind # "unknown",
           \A j \in 1..Len(types[Top.id].children) : Clean(types[Top.id].children[j]),
           stack' = Pop, types' = types, root' = root, pc' = pc,
           params' = params, result' = result
    PROVE  CleanInv'
<1> DEFINE L == Len(stack)
           i == Top.id
<1>1. stack \in Seq(Frame) /\ L \in Nat \ {0} /\ Top = stack[L]
  BY DEF IInv, TypeOK, Top
<1>2. Top \in Frame
  BY ONLY <1>1
<1>11. i \in TypeIds
  BY <1>2 DEF Frame
<1>3. i \notin Bad
  BY <1>11, CleanUp
<1>4. Bad' = Bad
  BY BadUnchanged
<1>5. Len(stack') = L - 1 /\ \A k \in 1..(L - 1) : stack'[k] = stack[k]
  BY <1>1, PopFrames DEF Pop
<1>6. Roots' = Roots
  BY DEF Roots
<1>7. (stack' # <<>> => root' > 1 /\ stack'[1].id = Roots'[root' - 1])
  BY <1>1, <1>5, <1>6 DEF CleanInv
<1>8. (\A j \in 1..(root - 1) : (stack # <<>> /\ j = root - 1) \/ Clean(Roots[j]))'
  <2> SUFFICES ASSUME NEW j \in 1..(root - 1), ~(stack' # <<>> /\ j = root - 1)
               PROVE  Roots[j] = Prim \/ Roots[j] \notin Bad
    BY <1>4, <1>6 DEF Clean
  <2>1. CASE L = 1 /\ j = root - 1
    <3>1. stack[1].id = Roots[root - 1]
      BY DEF CleanInv
    <3>2. QED
      BY <1>1, <1>3, <2>1, <3>1
  <2>2. CASE ~(L = 1 /\ j = root - 1)
    <3>1. ~(stack # <<>> /\ j = root - 1)
      BY <1>1, <1>5, <2>2
    <3>2. QED
      BY <3>1 DEF CleanInv, Clean
  <2>3. QED
    BY <2>1, <2>2
<1>9. (\A k \in 1..Len(stack) : \A j \in 1..stack[k].pos :
         (k < Len(stack) /\ j = stack[k].pos) \/ Clean(types[stack[k].id].children[j]))'
  <2> SUFFICES ASSUME NEW k \in 1..(L - 1), NEW j \in 1..stack[k].pos,
                      ~(k < L - 1 /\ j = stack[k].pos)
               PROVE  Clean(types[stack[k].id].children[j])
    BY <1>4, <1>5 DEF Clean
  <2>1. CASE k = L - 1 /\ j = stack[k].pos
    <3>1. types[stack[k].id].children[stack[k].pos] = stack[k + 1].id
      BY DEF IInv, FramesLinked
    <3>2. stack[k + 1].id = i
      BY <1>1, <2>1
    <3>3. QED
      BY <1>3, <2>1, <3>1, <3>2 DEF Clean
  <2>2. CASE ~(k = L - 1 /\ j = stack[k].pos)
    <3>1. k \in 1..L /\ ~(k < L /\ j = stack[k].pos)
      BY <1>1, <2>2
    <3>2. QED
      BY <3>1 DEF CleanInv
  <2>3. QED
    BY <2>1, <2>2
<1>10. QED
  BY <1>7, <1>8, <1>9 DEF CleanInv

(* The recursion into the next child keeps CleanInv: a primitive child is  *)
(* clean at once, a call on an id leaves it in progress above its parent.  *)
LEMMA VisitChildClean ==
    ASSUME IInv, CleanInv, VisitChild
    PROVE  CleanInv'
<1> DEFINE L == Len(stack)
           t == Top
           c == types[t.id].children[t.pos + 1]
<1>1. /\ t \in Frame /\ t.pos + 1 \in 1..Len(types[t.id].children)
      /\ Advanced \in Seq(Frame) /\ Len(Advanced) = L
      /\ Advanced[L] = [id |-> t.id, pos |-> t.pos + 1]
      /\ \A k \in 1..(L - 1) : Advanced[k] = stack[k]
      /\ stack' = Call(Advanced, c) /\ types' = types
  BY VisitChildFacts DEF IInv
<1>2. stack \in Seq(Frame) /\ L \in Nat \ {0} /\ t = stack[L] /\ pc = "running"
  BY DEF IInv, TypeOK, VisitChild, Top
<1>3. pc' = pc /\ root' = root /\ Roots' = Roots /\ Bad' = Bad /\ types' = types
  BY <1>1, BadUnchanged DEF VisitChild, Roots
<1>4. /\ \A k \in 1..(L - 1) : stack'[k] = stack[k]
      /\ stack'[L] = [id |-> t.id, pos |-> t.pos + 1]
      /\ Len(stack') \in {L, L + 1}
      /\ Len(stack') = L + 1 => stack'[L + 1].pos = 0
      /\ Len(stack') = L => c = Prim
  <2>1. CASE c = Prim
    BY ONLY <1>1, <2>1 DEF Call
  <2>2. CASE c # Prim
    <3>1. stack' = Append(Advanced, [id |-> c, pos |-> 0])
      BY ONLY <1>1, <2>2 DEF Call
    <3>2. Advanced \in Seq(Frame) /\ Len(Advanced) = L /\ L \in Nat \ {0}
      BY ONLY <1>1, <1>2
    <3>3. Len(stack') = L + 1 /\ stack'[L + 1].pos = 0
          /\ \A k \in 1..L : stack'[k] = Advanced[k]
      BY ONLY <3>1, <3>2
    <3>4. \A k \in 1..(L - 1) : stack'[k] = stack[k]
      <4> SUFFICES ASSUME NEW k \in 1..(L - 1) PROVE stack'[k] = stack[k]
        OBVIOUS
      <4>1. k \in 1..L
        BY ONLY <3>2
      <4>2. stack'[k] = Advanced[k] /\ Advanced[k] = stack[k]
        BY ONLY <1>1, <3>3, <4>1
      <4>3. QED
        BY ONLY <4>2
    <3>5. stack'[L] = [id |-> t.id, pos |-> t.pos + 1]
      BY ONLY <1>1, <3>2, <3>3
    <3>6. Len(stack') # L
      BY ONLY <3>2, <3>3
    <3>7. QED
      BY ONLY <3>3, <3>4, <3>5, <3>6
  <2>3. QED
    BY <2>1, <2>2
<1>5. stack' # <<>> /\ stack'[1].id = stack[1].id
  BY <1>2, <1>4
<1>6. (stack # <<>> => root > 1 /\ stack[1].id = Roots[root - 1])'
  BY <1>2, <1>3, <1>5 DEF CleanInv
<1>7. (\A j \in 1..(root - 1) : (stack # <<>> /\ j = root - 1) \/ Clean(Roots[j]))'
  BY <1>2, <1>3, <1>5 DEF CleanInv, Clean
<1>8. (\A k \in 1..Len(stack) : \A j \in 1..stack[k].pos :
         (k < Len(stack) /\ j = stack[k].pos) \/ Clean(types[stack[k].id].children[j]))'
  <2> SUFFICES ASSUME NEW k \in 1..Len(stack'), NEW j \in 1..stack'[k].pos,
                      ~(k < Len(stack') /\ j = stack'[k].pos)
               PROVE  Clean(types[stack'[k].id].children[j])
    BY <1>3 DEF Clean
  <2>1. CASE k < L
    <3>1. stack'[k] = stack[k] /\ k \in 1..L /\ ~(k < L /\ j = stack[k].pos)
      BY <1>2, <1>4, <2>1
    <3>2. QED
      BY <1>2, <3>1 DEF CleanInv
  <2>2. CASE k = L /\ j <= t.pos
    <3>1. stack'[k].id = stack[L].id /\ j \in 1..stack[L].pos
      BY <1>2, <1>4, <2>2
    <3>2. ~(L < L /\ j = stack[L].pos)
      BY <1>2
    <3>3. QED
      BY <1>2, <3>1, <3>2 DEF CleanInv
  <2>3. CASE k = L /\ j = t.pos + 1
    <3>1. Len(stack') = L
      BY <1>4, <2>3
    <3>2. c = Prim /\ stack'[k].id = t.id
      BY <1>4, <2>3, <3>1
    <3>3. QED
      BY <2>3, <3>2 DEF Clean
  <2>4. CASE k = L + 1
    BY <1>4, <2>4
  <2>5. QED
    <3>1. t.pos \in Nat
      BY <1>1 DEF Frame
    <3>2. k \in 1..(L + 1)
      BY ONLY <1>4
    <3>3. k = L => j \in 1..(t.pos + 1)
      BY ONLY <1>4
    <3>4. k < L \/ (k = L /\ j <= t.pos) \/ (k = L /\ j = t.pos + 1) \/ k = L + 1
      BY ONLY <1>2, <3>1, <3>2, <3>3
    <3>5. QED
      BY ONLY <3>4, <2>1, <2>2, <2>3, <2>4
<1>9. QED
  BY <1>2, <1>3, <1>6, <1>7, <1>8 DEF CleanInv

(* A returning frame has visited every child it has, when its loop is at   *)
(* the end of the children: they are all clean.                            *)
LEMMA TopChildrenClean ==
    ASSUME IInv, CleanInv, pc = "running", stack # <<>>,
           Top.pos = Len(types[Top.id].children)
    PROVE  \A j \in 1..Len(types[Top.id].children) : Clean(types[Top.id].children[j])
<1>1. stack \in Seq(Frame) /\ Len(stack) \in 1..Len(stack)
  BY DEF IInv, TypeOK
<1>2. \A j \in 1..stack[Len(stack)].pos :
         (Len(stack) < Len(stack) /\ j = stack[Len(stack)].pos)
         \/ Clean(types[stack[Len(stack)].id].children[j])
  BY <1>1 DEF CleanInv
<1>3. QED
  BY <1>1, <1>2 DEF Top

(* Every step of the traversal keeps CleanInv.                             *)
LEMMA CleanInvStep ==
    ASSUME IInv, CleanInv, [Next]_vars
    PROVE  CleanInv'
<1>1. CASE CallRoot
  <2>1. /\ pc = "running" /\ stack = <<>> /\ root <= Len(Roots)
        /\ stack' = Call(stack, Roots[root]) /\ root' = root + 1
        /\ pc' = pc /\ types' = types /\ Roots' = Roots
    BY <1>1 DEF CallRoot, Roots
  <2>2. Bad' = Bad
    BY <2>1, BadUnchanged
  <2>3. root \in Nat \ {0} /\ Roots[root] \in Type
    BY <2>1 DEF IInv, TypeOK, Roots
  <2>4. \A j \in 1..(root - 1) : Clean(Roots[j])
    BY <2>1 DEF CleanInv
  <2>5. CASE Roots[root] = Prim
    <3>1. stack' = <<>>
      BY <2>1, <2>5 DEF Call
    <3>2. \A j \in 1..root : (Clean(Roots[j]))'
      BY <2>1, <2>2, <2>3, <2>4, <2>5 DEF Clean
    <3>3. QED
      BY <2>1, <2>3, <3>1, <3>2 DEF CleanInv
  <2>6. CASE Roots[root] # Prim
    <3>1. stack' = <<[id |-> Roots[root], pos |-> 0]>>
      BY <2>1, <2>6 DEF Call
    <3>2. (\A j \in 1..(root - 1) : (stack # <<>> /\ j = root - 1) \/ Clean(Roots[j]))'
      BY <2>1, <2>2, <2>3, <2>4, <3>1 DEF Clean
    <3>3. (stack # <<>> => root > 1 /\ stack[1].id = Roots[root - 1])'
      BY <2>1, <2>3, <3>1
    <3>4. (\A k \in 1..Len(stack) : \A j \in 1..stack[k].pos :
             (k < Len(stack) /\ j = stack[k].pos) \/ Clean(types[stack[k].id].children[j]))'
      BY <3>1
    <3>5. QED
      BY <2>1, <3>2, <3>3, <3>4 DEF CleanInv
  <2>7. QED
    BY <2>5, <2>6
<1>2. CASE Return
  <2>1. /\ stack' = stack /\ stack = <<>> /\ root' = root /\ root > Len(Roots)
        /\ pc' = "done" /\ Roots' = Roots /\ types' = types
    BY <1>2 DEF Return, Roots
  <2>2. Bad' = Bad
    BY <2>1, BadUnchanged
  <2>3. (\A j \in 1..(root - 1) : (stack # <<>> /\ j = root - 1) \/ Clean(Roots[j]))'
    BY <1>2, <2>1, <2>2 DEF CleanInv, Clean, Return
  <2>4. QED
    BY <2>1, <2>3 DEF CleanInv
<1>3. CASE VisitLeaf
  <2>1. Top \in Frame
    BY <1>3 DEF VisitLeaf, IInv, TypeOK, Top
  <2>2. Len(types[Top.id].children) = 0
    BY <1>3, <2>1, ArenaLeaf DEF VisitLeaf, IInv, TypeOK, Frame
  <2>3. types[Top.id].kind # "unknown"
    BY <1>3 DEF VisitLeaf, LeafKinds
  <2>4. QED
    BY <1>3, <2>2, <2>3, PopClean DEF VisitLeaf
<1>4. CASE VisitUnknown
  BY <1>4 DEF VisitUnknown, CleanInv
<1>5. CASE VisitChild
  BY <1>5, VisitChildClean
<1>6. CASE FinishCompound
  <2>1. \A j \in 1..Len(types[Top.id].children) : Clean(types[Top.id].children[j])
    BY <1>6, TopChildrenClean DEF FinishCompound
  <2>2. QED
    BY <1>6, <2>1, PopClean DEF FinishCompound
<1>7. CASE FinishAsync
  <2>1. \A j \in 1..Len(types[Top.id].children) : Clean(types[Top.id].children[j])
    BY <1>7, TopChildrenClean DEF FinishAsync
  <2>2. types[Top.id].kind # "unknown"
    BY <1>7 DEF FinishAsync, AsyncKinds
  <2>3. QED
    BY <1>7, <2>1, <2>2, PopClean DEF FinishAsync
<1>8. CASE UNCHANGED vars
  <2>1. /\ stack' = stack /\ root' = root /\ pc' = pc /\ Roots' = Roots /\ types' = types
    BY <1>8 DEF vars, Roots
  <2>2. Bad' = Bad
    BY <2>1, BadUnchanged
  <2>3. QED
    BY <2>1, <2>2 DEF CleanInv, Clean
<1>9. QED
  BY <1>1, <1>2, <1>3, <1>4, <1>5, <1>6, <1>7, <1>8 DEF Next

(* CleanInv holds in every state of the traversal, with IInv.              *)
THEOREM CleanInvThm == Spec => [](IInv /\ CleanInv)
<1>1. Init => CleanInv
  BY DEF Init, CleanInv
<1>2. IInv /\ CleanInv /\ [Next]_vars => CleanInv'
  BY CleanInvStep
<1>3. QED
  BY <1>1, <1>2, LinksInvariant, PTL DEF Spec

(* When CleanInv holds and the traversal has returned, every root is clean. *)
LEMMA DoneRootsClean ==
    ASSUME IInv, CleanInv, pc = "done"
    PROVE  \A j \in 1..Len(Roots) : Clean(Roots[j])
<1>1. stack = <<>> /\ root > Len(Roots) /\ root \in Nat
  BY DEF CleanInv, IInv, TypeOK
<1>2. QED
  BY <1>1 DEF CleanInv

(* find_futures_and_streams returns normally only over a signature that    *)
(* reaches no TypeDefKind::Unknown, for every arena and signature: an      *)
(* unresolved placeholder on any path from a parameter or the result is    *)
(* always met by the traversal and panics in its unreachable!() arm.       *)
THEOREM NoSilentUnknownThm == Spec => []NoSilentUnknown
<1>1. IInv /\ CleanInv => NoSilentUnknown
  <2> SUFFICES ASSUME IInv, CleanInv, pc = "done"
               PROVE  \A i \in Reached : types[i].kind # "unknown"
    BY DEF NoSilentUnknown
  <2>1. \A j \in 1..Len(Roots) : Clean(Roots[j])
    BY DoneRootsClean
  <2>2. QED
    BY <2>1, CleanRootsReachNoUnknown DEF IInv
<1>2. QED
  BY <1>1, CleanInvThm, PTL

=============================================================================
