--------------------------- MODULE WorldKeys_proofs ---------------------------
(***************************************************************************)
(* Proofs about the keys of a World's import map: the map, looked up by    *)
(* the Hash and PartialEq of WorldKey, implements the abstract set of held *)
(* items of ItemSet, for every set of atoms, interfaces and bounds.        *)
(***************************************************************************)
EXTENDS WorldKeys, TLAPS

(* The keys the map holds, as the refinement maps them.                    *)
Held == {imports[i] : i \in 1..Len(imports)}

(* A name of a world is a non-empty sequence of atoms with "[async]" at    *)
(* most in front.                                                          *)
LEMMA NameFacts ==
    ASSUME NEW s \in Names
    PROVE  /\ s \in Seq(Atoms)
           /\ Len(s) >= 1
           /\ \A i \in 2..Len(s) : s[i] # Async
<1>1. PICK n \in 1..MaxLen : s \in [1..n -> Atoms]
  BY DEF Names
<1>2. QED
  BY <1>1, KeysAssumption DEF Names

(* Two sequences of one length and the same elements are equal.           *)
LEMMA SeqExtensional ==
    ASSUME NEW S, NEW s \in Seq(S), NEW t \in Seq(S),
           Len(s) = Len(t), \A i \in 1..Len(s) : s[i] = t[i]
    PROVE  s = t
<1>1. DOMAIN s = 1..Len(s) /\ DOMAIN t = 1..Len(t)
  OBVIOUS
<1>2. QED
  BY <1>1

(* A sequence that starts with x is x in front of its tail, and only that. *)
LEMMA ConsTail ==
    ASSUME NEW S, NEW x \in S, NEW s \in Seq(S), NEW t \in Seq(S)
    PROVE  s = <<x>> \o t <=> (s # <<>> /\ Head(s) = x /\ Tail(s) = t)
<1>1. /\ <<x>> \o t \in Seq(S) /\ Len(<<x>> \o t) = Len(t) + 1
      /\ (<<x>> \o t)[1] = x
      /\ \A i \in 1..Len(t) : (<<x>> \o t)[i + 1] = t[i]
  OBVIOUS
<1>2. ASSUME s # <<>>, Head(s) = x, Tail(s) = t PROVE s = <<x>> \o t
  <2>1. Len(s) = Len(t) + 1 /\ \A i \in 1..Len(t) : s[i + 1] = t[i]
    BY <1>2
  <2>2. \A i \in 1..Len(s) : s[i] = (<<x>> \o t)[i]
    <3> TAKE i \in 1..Len(s)
    <3>0. i = 1 \/ i - 1 \in 1..Len(t)
      BY <2>1
    <3>1. CASE i = 1
      BY <1>1, <1>2, <3>1
    <3>2. CASE i - 1 \in 1..Len(t)
      BY <1>1, <2>1, <3>2
    <3>3. QED
      BY <3>0, <3>1, <3>2
  <2>3. QED
    BY <1>1, <2>1, <2>2, SeqExtensional
<1>3. ASSUME s = <<x>> \o t PROVE s # <<>> /\ Head(s) = x /\ Tail(s) = t
  <2>1. s # <<>> /\ Head(s) = x
    BY <1>1, <1>3
  <2>2. Tail(s) \in Seq(S) /\ Len(Tail(s)) = Len(t)
        /\ \A i \in 1..Len(t) : Tail(s)[i] = t[i]
    BY <1>1, <1>3, <2>1
  <2>3. QED
    BY <2>1, <2>2, SeqExtensional
<1>4. QED
  BY <1>2, <1>3

(* KebabDedupe makes two names equal exactly when they are one name, or    *)
(* one is the other with "[async]" in front.                               *)
LEMMA DedupeEq ==
    ASSUME NEW a \in Names, NEW b \in Names
    PROVE  KebabDedupe(a) = KebabDedupe(b)
             <=> \/ a = b
                 \/ a = <<Async>> \o b
                 \/ b = <<Async>> \o a
<1>1. /\ a \in Seq(Atoms) /\ Len(a) >= 1 /\ \A i \in 2..Len(a) : a[i] # Async
      /\ b \in Seq(Atoms) /\ Len(b) >= 1 /\ \A i \in 2..Len(b) : b[i] # Async
  BY NameFacts
<1>3. CASE Head(a) = Async /\ Head(b) = Async
  <2>1. KebabDedupe(a) = Tail(a) /\ KebabDedupe(b) = Tail(b)
    BY <1>1, <1>3 DEF KebabDedupe
  <2>2. a # <<Async>> \o b /\ b # <<Async>> \o a
    <3>1. a = <<Async>> \o b => Len(a) = Len(b) + 1 /\ a[2] = b[1]
      BY <1>1
    <3>2. b = <<Async>> \o a => Len(b) = Len(a) + 1 /\ b[2] = a[1]
      BY <1>1
    <3>3. QED
      BY <1>1, <1>3, <3>1, <3>2
  <2>3. Tail(a) = Tail(b) <=> a = b
    <3>1. a = <<Async>> \o Tail(a) /\ b = <<Async>> \o Tail(b)
      BY <1>1, <1>3, ConsTail, KeysAssumption
    <3>2. QED
      BY <3>1
  <2>4. QED
    BY <2>1, <2>2, <2>3
<1>4. CASE Head(a) = Async /\ Head(b) # Async
  <2>1. KebabDedupe(a) = Tail(a) /\ KebabDedupe(b) = b
    BY <1>1, <1>4 DEF KebabDedupe
  <2>2. a # b /\ b # <<Async>> \o a
    BY <1>1, <1>4
  <2>3. Tail(a) = b <=> a = <<Async>> \o b
    <3>1. a = <<Async>> \o b <=> (a # <<>> /\ Head(a) = Async /\ Tail(a) = b)
      BY ONLY <1>1, KeysAssumption, ConsTail
    <3>2. a # <<>>
      BY ONLY <1>1
    <3>3. QED
      BY ONLY <1>4, <3>1, <3>2, Zenon
  <2>4. QED
    BY <2>1, <2>2, <2>3
<1>5. CASE Head(a) # Async /\ Head(b) = Async
  <2>1. KebabDedupe(a) = a /\ KebabDedupe(b) = Tail(b)
    BY <1>1, <1>5 DEF KebabDedupe
  <2>2. a # b /\ a # <<Async>> \o b
    BY <1>1, <1>5
  <2>3. Tail(b) = a <=> b = <<Async>> \o a
    <3>1. b = <<Async>> \o a <=> (b # <<>> /\ Head(b) = Async /\ Tail(b) = a)
      BY ONLY <1>1, KeysAssumption, ConsTail
    <3>2. b # <<>>
      BY ONLY <1>1
    <3>3. QED
      BY ONLY <1>5, <3>1, <3>2, Zenon
  <2>4. QED
    BY <2>1, <2>2, <2>3
<1>6. CASE Head(a) # Async /\ Head(b) # Async
  <2>1. KebabDedupe(a) = a /\ KebabDedupe(b) = b
    BY <1>1, <1>6 DEF KebabDedupe
  <2>2. a # <<Async>> \o b /\ b # <<Async>> \o a
    BY <1>1, <1>6
  <2>3. QED
    BY <2>1, <2>2
<1>7. QED
  BY <1>3, <1>4, <1>5, <1>6

(* An entry matches a key in the IndexMap, equal hash and equal under      *)
(* PartialEq, exactly when the two keys name one item.                     *)
LEMMA MatchIffSame ==
    ASSUME NEW a \in WorldKeys, NEW b \in WorldKeys
    PROVE  (KeyHash(a) = KeyHash(b) /\ KeyEq(a, b)) <=> SameItem(a, b)
<1>1. CASE a.tag = "name" /\ b.tag = "name"
  <2>1. a.name \in Names /\ b.name \in Names
    BY <1>1 DEF WorldKeys
  <2>2. (KeyHash(a) = KeyHash(b) /\ KeyEq(a, b)) <=> KebabDedupe(a.name) = KebabDedupe(b.name)
    BY <1>1 DEF KeyHash, KeyEq
  <2>3. QED
    BY <1>1, <2>1, <2>2, DedupeEq DEF SameItem
<1>2. CASE a.tag = "interface" /\ b.tag = "interface"
  <2>1. a = [tag |-> "interface", id |-> a.id] /\ b = [tag |-> "interface", id |-> b.id]
    BY <1>2 DEF WorldKeys
  <2>2. QED
    BY <1>2, <2>1 DEF KeyHash, KeyEq, SameItem
<1>3. CASE a.tag # b.tag
  BY <1>3 DEF WorldKeys, KeyEq, SameItem
<1>4. QED
  BY <1>1, <1>2, <1>3 DEF WorldKeys

(* Lookup finds no entry exactly when no entry of the map names the item   *)
(* of the key.                                                             *)
LEMMA LookupZero ==
    ASSUME NEW m \in Seq(WorldKeys), NEW k \in WorldKeys
    PROVE  Lookup(m, k) = 0 <=> \A i \in 1..Len(m) : ~SameItem(m[i], k)
<1> DEFINE hits == {i \in 1..Len(m) : KeyHash(m[i]) = KeyHash(k) /\ KeyEq(m[i], k)}
<1>1. hits = {} <=> \A i \in 1..Len(m) : ~SameItem(m[i], k)
  BY MatchIffSame
<1>2. hits # {} => (CHOOSE i \in hits : TRUE) \in 1..Len(m)
  OBVIOUS
<1>3. QED
  BY <1>1, <1>2 DEF Lookup

(* Every step of the assembly keeps its state well typed.                  *)
LEMMA TypeOKStep ==
    ASSUME TypeOK, [Next]_vars
    PROVE  TypeOK'
<1>1. CASE InsertNew
  BY <1>1 DEF InsertNew, TypeOK
<1>2. CASE InsertDuplicate
  BY <1>2 DEF InsertDuplicate, TypeOK
<1>3. CASE Finish
  BY <1>3 DEF Finish, TypeOK
<1>4. CASE UNCHANGED vars
  BY <1>4 DEF vars, TypeOK
<1>5. QED
  BY <1>1, <1>2, <1>3, <1>4 DEF Next

(* The assembly keeps its state well typed.                                *)
THEOREM TypeCorrect == Spec => []TypeOK
<1>1. Init => TypeOK
  BY KeysAssumption DEF Init, TypeOK
<1>2. TypeOK /\ [Next]_vars => TypeOK'
  BY TypeOKStep
<1>3. QED
  BY <1>1, <1>2, PTL DEF Spec

(* A step of the assembly is a step of ItemSet on the held keys, or leaves *)
(* them, the pending keys and pc as they are.                              *)
LEMMA StepRefines ==
    ASSUME TypeOK, [Next]_vars
    PROVE  [Abs!Next]_Abs!avars
<1>1. CASE InsertNew
  <2> DEFINE k == Head(pending)
  <2>1. pending \in Seq(WorldKeys) /\ pending # <<>> /\ k \in WorldKeys
        /\ imports \in Seq(WorldKeys)
    BY <1>1 DEF TypeOK, InsertNew
  <2>2. \A h \in Held : ~SameItem(h, k)
    BY <1>1, <2>1, LookupZero DEF InsertNew, Held
  <2>3. Held' = Held \cup {k}
    BY <1>1, <2>1 DEF InsertNew, Held
  <2>4. QED
    BY <1>1, <2>2, <2>3 DEF InsertNew, Abs!Next, Abs!Add, Held
<1>2. CASE InsertDuplicate
  <2> DEFINE k == Head(pending)
  <2>1. pending \in Seq(WorldKeys) /\ pending # <<>> /\ k \in WorldKeys
        /\ imports \in Seq(WorldKeys)
    BY <1>2 DEF TypeOK, InsertDuplicate
  <2>2. \E h \in Held : SameItem(h, k)
    BY <1>2, <2>1, LookupZero DEF InsertDuplicate, Held
  <2>3. QED
    BY <1>2, <2>2 DEF InsertDuplicate, Abs!Next, Abs!Reject, Held
<1>3. CASE Finish
  BY <1>3 DEF Finish, Abs!Next, Abs!Close
<1>4. CASE UNCHANGED vars
  BY <1>4 DEF vars, Abs!avars
<1>5. QED
  BY <1>1, <1>2, <1>3, <1>4 DEF Next

(* The import map of a World, with the Hash and PartialEq of WorldKey,     *)
(* implements ItemSet: it holds a key exactly when no held key names the   *)
(* same item, and fails exactly on a repeat.                               *)
THEOREM ImplementsItemSetThm == Spec => ImplementsItemSet
<1>1. Init => Abs!Init
  <2> SUFFICES ASSUME Init PROVE Abs!Init
    OBVIOUS
  <2>1. pending \in Seq(WorldKeys)
    BY KeysAssumption DEF Init
  <2>2. QED
    BY <2>1 DEF Init, Abs!Init
<1>2. TypeOK /\ [Next]_vars => [Abs!Next]_Abs!avars
  BY StepRefines
<1>3. QED
  BY <1>1, <1>2, TypeCorrect, PTL DEF Spec, ImplementsItemSet, Abs!Spec

-----------------------------------------------------------------------------

(* The inductive invariant of the assembly: the keys taken so far and the  *)
(* keys still pending make up the declared keys, in order; no two entries  *)
(* of the map name one item; a failed assembly stopped on a pending key    *)
(* that names the item of an entry; a finished one has nothing pending.    *)
KeysInv ==
    /\ TypeOK
    /\ declared = imports \o pending
    /\ NoAsyncDuplicates
    /\ pc = "failed" =>
          pending # <<>> /\ \E i \in 1..Len(imports) : SameItem(imports[i], Head(pending))
    /\ pc = "done" => pending = <<>>

(* SameItem does not depend on the order of its arguments.                 *)
LEMMA SameItemSym ==
    ASSUME NEW a, NEW b
    PROVE  SameItem(a, b) <=> SameItem(b, a)
  BY DEF SameItem

(* Taking the head of the pending keys into the map keeps their            *)
(* concatenation.                                                          *)
LEMMA MoveHead ==
    ASSUME NEW S, NEW a \in Seq(S), NEW p \in Seq(S), p # <<>>
    PROVE  a \o p = Append(a, Head(p)) \o Tail(p)
<1> DEFINE l == a \o p
           r == Append(a, Head(p)) \o Tail(p)
<1>1. l \in Seq(S) /\ r \in Seq(S) /\ Len(l) = Len(r)
  OBVIOUS
<1>2. \A i \in 1..Len(l) : l[i] = r[i]
  <2> TAKE i \in 1..Len(l)
  <2>1. CASE i <= Len(a)
    BY <2>1
  <2>2. CASE i = Len(a) + 1
    BY <2>2
  <2>3. CASE i > Len(a) + 1
    BY <2>3
  <2>4. QED
    BY <2>1, <2>2, <2>3
<1>3. QED
  BY <1>1, <1>2, SeqExtensional

(* Every step of the assembly keeps the invariant.                         *)
LEMMA KeysInvStep ==
    ASSUME KeysInv, [Next]_vars
    PROVE  KeysInv'
<1>1. TypeOK'
  BY TypeOKStep DEF KeysInv
<1>2. CASE InsertNew
  <2> DEFINE k == Head(pending)
  <2>1. /\ pending \in Seq(WorldKeys) /\ pending # <<>> /\ k \in WorldKeys
        /\ imports \in Seq(WorldKeys)
    BY <1>2 DEF KeysInv, TypeOK, InsertNew
  <2>2. \A i \in 1..Len(imports) : ~SameItem(imports[i], k)
    BY <1>2, <2>1, LookupZero DEF InsertNew
  <2>3. imports' = Append(imports, k) /\ pending' = Tail(pending)
        /\ declared' = declared /\ pc' = pc /\ pc = "assembling"
    BY <1>2 DEF InsertNew
  <2>4. declared' = imports' \o pending'
    BY <2>1, <2>3, MoveHead DEF KeysInv
  <2>5. NoAsyncDuplicates'
    <3> SUFFICES ASSUME NEW i \in 1..Len(imports'), NEW j \in 1..Len(imports'), i # j
                 PROVE  ~SameItem(imports'[i], imports'[j])
      BY DEF NoAsyncDuplicates
    <3>1. Len(imports') = Len(imports) + 1 /\ imports'[Len(imports) + 1] = k
          /\ \A m \in 1..Len(imports) : imports'[m] = imports[m]
      BY <2>1, <2>3
    <3>2. CASE i <= Len(imports) /\ j <= Len(imports)
      BY <3>1, <3>2 DEF KeysInv, NoAsyncDuplicates
    <3>3. CASE i = Len(imports) + 1
      BY <2>2, <3>1, <3>3, SameItemSym
    <3>4. CASE j = Len(imports) + 1
      BY <2>2, <3>1, <3>4
    <3>5. QED
      BY <3>1, <3>2, <3>3, <3>4
  <2>6. QED
    BY <1>1, <2>3, <2>4, <2>5 DEF KeysInv
<1>3. CASE InsertDuplicate
  <2>1. /\ pending \in Seq(WorldKeys) /\ pending # <<>> /\ Head(pending) \in WorldKeys
        /\ imports \in Seq(WorldKeys)
    BY <1>3 DEF KeysInv, TypeOK, InsertDuplicate
  <2>2. \E i \in 1..Len(imports) : SameItem(imports[i], Head(pending))
    BY <1>3, <2>1, LookupZero DEF InsertDuplicate
  <2>3. QED
    BY <1>1, <1>3, <2>1, <2>2 DEF InsertDuplicate, KeysInv, NoAsyncDuplicates
<1>4. CASE Finish
  BY <1>1, <1>4 DEF Finish, KeysInv, NoAsyncDuplicates
<1>5. CASE UNCHANGED vars
  BY <1>1, <1>5 DEF vars, KeysInv, NoAsyncDuplicates
<1>6. QED
  BY <1>2, <1>3, <1>4, <1>5 DEF Next

(* The invariant holds from the start and is kept by every step.           *)
THEOREM KeysInvThm == Spec => []KeysInv
<1>1. Init => KeysInv
  <2> SUFFICES ASSUME Init PROVE KeysInv
    OBVIOUS
  <2>1. TypeOK
    BY KeysAssumption DEF Init, TypeOK
  <2>2. pending \in Seq(WorldKeys) /\ imports = <<>> /\ declared = pending
    BY <2>1 DEF Init, TypeOK
  <2>3. declared = imports \o pending
    BY <2>2
  <2>4. NoAsyncDuplicates
    BY <2>2 DEF NoAsyncDuplicates
  <2>5. QED
    BY <2>1, <2>3, <2>4 DEF Init, KeysInv
<1>2. KeysInv /\ [Next]_vars => KeysInv'
  BY KeysInvStep
<1>3. QED
  BY <1>1, <1>2, PTL DEF Spec

(* A world never holds both forms of a name, or one interface twice, for  *)
(* every alphabet, interface set and bound.                                *)
THEOREM NoAsyncDuplicatesThm == Spec => []NoAsyncDuplicates
  BY KeysInvThm, PTL DEF KeysInv

(* The assembly fails exactly when two declared items name one item, and  *)
(* a finished world holds every declared key, in order.                    *)
THEOREM FailsExactlyOnCollisionThm == Spec => []FailsExactlyOnCollision
<1>1. KeysInv => FailsExactlyOnCollision
  <2> SUFFICES ASSUME KeysInv
               PROVE  FailsExactlyOnCollision
    OBVIOUS
  <2>1. imports \in Seq(WorldKeys) /\ pending \in Seq(WorldKeys)
        /\ declared = imports \o pending
    BY DEF KeysInv, TypeOK
  <2>2. ASSUME pc = "failed"
        PROVE  \E i, j \in 1..Len(declared) : i < j /\ SameItem(declared[i], declared[j])
    <3>1. pending # <<>>
      BY <2>2 DEF KeysInv
    <3>2. PICK i \in 1..Len(imports) : SameItem(imports[i], Head(pending))
      BY <2>2 DEF KeysInv
    <3> DEFINE j == Len(imports) + 1
    <3>3. /\ i \in 1..Len(declared) /\ j \in 1..Len(declared) /\ i < j
          /\ declared[i] = imports[i] /\ declared[j] = Head(pending)
      BY <2>1, <3>1
    <3>4. QED
      BY <3>2, <3>3
  <2>3. ASSUME pc = "done"
        PROVE  /\ ~\E i, j \in 1..Len(declared) : i < j /\ SameItem(declared[i], declared[j])
               /\ imports = declared
    <3>1. pending = <<>>
      BY <2>3 DEF KeysInv
    <3>2. imports = declared
      BY <2>1, <3>1
    <3>3. QED
      BY <3>2 DEF KeysInv, NoAsyncDuplicates
  <2>4. QED
    BY <2>2, <2>3 DEF FailsExactlyOnCollision
<1>2. QED
  BY <1>1, KeysInvThm, PTL

(* Keys that compare equal under PartialEq hash alike.                    *)
LEMMA EqImpliesHash ==
    ASSUME NEW a \in WorldKeys, NEW b \in WorldKeys, KeyEq(a, b)
    PROVE  KeyHash(a) = KeyHash(b)
<1>1. CASE a.tag = "name" /\ b.tag = "name"
  BY <1>1 DEF KeyEq, KeyHash
<1>2. CASE a.tag = "interface" /\ b.tag = "interface"
  BY <1>2 DEF KeyEq, KeyHash
<1>3. CASE a.tag # b.tag
  BY <1>3 DEF WorldKeys, KeyEq
<1>4. QED
  BY <1>1, <1>2, <1>3 DEF WorldKeys

(* The Hash of WorldKey agrees with its PartialEq on every key a world     *)
(* declares, as IndexMap needs.                                            *)
THEOREM HashAgreesWithEqThm == Spec => []HashAgreesWithEq
<1>1. TypeOK => HashAgreesWithEq
  BY EqImpliesHash DEF TypeOK, HashAgreesWithEq
<1>2. QED
  BY <1>1, TypeCorrect, PTL

=============================================================================
