------------------------------ MODULE WorldKeys ------------------------------
(***************************************************************************)
(* The keys of the import and export maps of a World                       *)
(* (crates/wit-parser/src/lib.rs): WorldKey, its Hash and PartialEq        *)
(* through KebabDedupe, and the IndexMap<WorldKey, WorldItem> they are      *)
(* used in.  KebabDedupe makes `x` and `[async]x` one key, so that a world *)
(* cannot import or export both.                                           *)
(*                                                                         *)
(* The assembly of a world (resolve.rs, not under src/) inserts its items  *)
(* one by one and fails on a key the map already holds (spec 4.3); that    *)
(* loop is modelled from the spec.  The lookup of IndexMap finds an entry  *)
(* whose hash equals the key's and which compares equal to it.             *)
(*                                                                         *)
(* A kebab name is a sequence of atoms: the prefix "[async]" is one atom,  *)
(* the rest of a name is made of the others.  An interface id is a number. *)
(***************************************************************************)
EXTENDS Naturals, Sequences

CONSTANTS
    Atoms,      \* the atoms names are made of, "[async]" among them
    MaxLen,     \* longest name, in atoms
    Ifaces,     \* InterfaceIds
    MaxInserts  \* most items a world declares

Async == "[async]"

ASSUME KeysAssumption ==
    /\ Async \in Atoms
    /\ MaxLen \in Nat /\ MaxInserts \in Nat

(* The names a world can hold: "[async]" only ever leads a name.           *)
Names ==
    { s \in UNION { [1..n -> Atoms] : n \in 1..MaxLen } :
        \A i \in 2..Len(s) : s[i] # Async }

(* enum WorldKey. *)
WorldKeys ==
    [tag : {"name"}, name : Names] \cup [tag : {"interface"}, id : Ifaces]

(* A mutant of KebabDedupe::from that strips nothing.                      *)
KebabDedupeKeep(s) == s

(* KebabDedupe::from: a leading "[async]" is stripped.                     *)
KebabDedupe(s) ==
    IF Len(s) > 0 /\ Head(s) = Async THEN Tail(s) ELSE s

KeyHashRaw(k) ==
    IF k.tag = "name" THEN <<0, k.name>> ELSE <<1, k.id>>

(* Hash for WorldKey: a tag byte, then the deduplicated name or the id.    *)
KeyHash(k) ==
    IF k.tag = "name" THEN <<0, KebabDedupe(k.name)>> ELSE <<1, k.id>>

KeyEqRaw(a, b) ==
    IF a.tag = "name" /\ b.tag = "name" THEN a.name = b.name
    ELSE IF a.tag = "interface" /\ b.tag = "interface" THEN a.id = b.id
    ELSE FALSE

(* PartialEq for WorldKey: names equal after KebabDedupe, ids equal, and   *)
(* never a name and an interface.                                          *)
KeyEq(a, b) ==
    IF a.tag = "name" /\ b.tag = "name" THEN KebabDedupe(a.name) = KebabDedupe(b.name)
    ELSE IF a.tag = "interface" /\ b.tag = "interface" THEN a.id = b.id
    ELSE FALSE

(* IndexMap lookup: the position of the entry the key finds, 0 for none.  *)
Lookup(map, k) ==
    LET hits == {i \in 1..Len(map) : KeyHash(map[i]) = KeyHash(k) /\ KeyEq(map[i], k)}
    IN  IF hits = {} THEN 0 ELSE CHOOSE i \in hits : TRUE

VARIABLES
    pending,   \* the keys of the items still to insert, in source order
    declared,  \* the keys of every item the world declares
    imports,   \* the keys of World::imports, in insertion order
    pc         \* "assembling", "done" or "failed"

vars == <<pending, declared, imports, pc>>

Init ==
    /\ pending \in UNION { [1..n -> WorldKeys] : n \in 0..MaxInserts }
    /\ declared = pending
    /\ imports = <<>>
    /\ pc = "assembling"

(* The next item's key is not in the map yet: it is appended.              *)
InsertNew ==
    /\ pc = "assembling"
    /\ pending # <<>>
    /\ Lookup(imports, Head(pending)) = 0
    /\ imports' = Append(imports, Head(pending))
    /\ pending' = Tail(pending)
    /\ UNCHANGED <<declared, pc>>

InsertDuplicateReplaced ==
    /\ pc = "assembling"
    /\ pending # <<>>
    /\ Lookup(imports, Head(pending)) # 0
    /\ pending' = Tail(pending)
    /\ UNCHANGED <<declared, imports, pc>>

(* The map already holds an equal key: the assembly of the world fails.   *)
InsertDuplicate ==
    /\ pc = "assembling"
    /\ pending # <<>>
    /\ Lookup(imports, Head(pending)) # 0
    /\ pc' = "failed"
    /\ UNCHANGED <<pending, declared, imports>>

(* Every item is in: the world is assembled.                               *)
Finish ==
    /\ pc = "assembling"
    /\ pending = <<>>
    /\ pc' = "done"
    /\ UNCHANGED <<pending, declared, imports>>

Next == InsertNew \/ InsertDuplicate \/ Finish

Spec == Init /\ [][Next]_vars

-----------------------------------------------------------------------------

(* Type invariant. *)
TypeOK ==
    /\ pending \in Seq(WorldKeys) /\ declared \in Seq(WorldKeys)
    /\ imports \in Seq(WorldKeys)
    /\ pc \in {"assembling", "done", "failed"}

(* The hash of WorldKey agrees with its equality, which IndexMap needs to  *)
(* find a key: any two keys a world declares hash alike when they compare  *)
(* equal.                                                                  *)
HashAgreesWithEq ==
    \A i, j \in 1..Len(declared) :
        KeyEq(declared[i], declared[j]) => KeyHash(declared[i]) = KeyHash(declared[j])

(* Two keys name one external item: the same name, the same name but for a *)
(* leading "[async]" on one of them, or the same interface.                *)
SameItem(a, b) ==
    IF a.tag = "name" /\ b.tag = "name"
    THEN \/ a.name = b.name
         \/ a.name = <<Async>> \o b.name
         \/ b.name = <<Async>> \o a.name
    ELSE a = b

(* A world never imports both forms of a name: no two entries of the map   *)
(* name one item, whatever order the items came in.                        *)
NoAsyncDuplicates ==
    \A i, j \in 1..Len(imports) : i # j => ~SameItem(imports[i], imports[j])

(* The assembly fails exactly when two of the declared items name one      *)
(* item, and succeeds with every declared key in the map otherwise.        *)
FailsExactlyOnCollision ==
    LET collides == \E i, j \in 1..Len(declared) : i < j /\ SameItem(declared[i], declared[j])
    IN  /\ pc = "failed" => collides
        /\ pc = "done" => ~collides /\ imports = declared

-----------------------------------------------------------------------------

(* The map as a set of held keys, with SameItem as the identity of items.  *)
Abs == INSTANCE ItemSet WITH
         Keys <- WorldKeys, Same <- SameItem,
         todo <- pending, held <- {imports[i] : i \in 1..Len(imports)}, status <- pc

(* The IndexMap keyed by WorldKey, with its Hash and PartialEq, implements *)
(* the set of held items: a key is appended exactly when no held key names *)
(* the same item, and the assembly fails exactly on such a key.            *)
ImplementsItemSet == Abs!Spec

=============================================================================
