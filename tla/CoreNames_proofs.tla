---------------------------- MODULE CoreNames_proofs ----------------------------
(***************************************************************************)
(* Proof that core_export_name gives the exports of one dummy module       *)
(* distinct core names, for every alphabet, resource set and bound.        *)
(***************************************************************************)
EXTENDS CoreNames, TLAPS

(* The atoms a function name is made of.                                   *)
Atoms == Letters \cup Resources \cup {KindPrefix(k) : k \in ResourceKinds}
           \cup {"[async]", "[constructor]", "."}

(* No prefix of a resource function is a "#".  (Zenon: the SMT encoding   *)
(* of tlapm takes no string with a space in it.)                           *)
LEMMA KindPrefixNoHash ==
    ASSUME NEW k \in ResourceKinds
    PROVE  KindPrefix(k) # "#"
  BY Zenon DEF KindPrefix, ResourceKinds

(* Every atom a core name is made of.                                      *)
AllAtoms == Atoms \cup {"cm32p2", "|", "#"}

(* Letters, name atoms and separators are all atoms.                      *)
LEMMA AtomSubsets ==
    /\ Letters \subseteq AllAtoms /\ Atoms \subseteq AllAtoms
    /\ {"cm32p2", "|", "#"} \subseteq AllAtoms
    /\ Seq(Letters) \subseteq Seq(AllAtoms) /\ Seq(Atoms) \subseteq Seq(AllAtoms)
<1>1. Letters \subseteq AllAtoms /\ Atoms \subseteq AllAtoms
      /\ {"cm32p2", "|", "#"} \subseteq AllAtoms
  BY DEF AllAtoms, Atoms
<1>2. QED
  BY <1>1

(* Two sequences of one length that agree at every index are equal.        *)
LEMMA SeqEq ==
    ASSUME NEW u \in Seq(AllAtoms), NEW v \in Seq(AllAtoms), Len(u) = Len(v),
           \A k \in 1..Len(u) : u[k] = v[k]
    PROVE  u = v
  OBVIOUS

(* A legacy name of an interface function: the interface, a separator and *)
(* the function name.  Std is the Standard32 form.  Both are kept opaque   *)
(* where the lemmas below are used.                                        *)
Join(a, s, b) == a \o <<s>> \o b
Std(a, b) == <<"cm32p2", "|">> \o a \o <<"|">> \o b

(* What Join holds at the separator.                                       *)
LEMMA JoinAt ==
    ASSUME NEW s \in AllAtoms, NEW a \in Seq(AllAtoms), NEW b \in Seq(AllAtoms)
    PROVE  Len(a) + 1 \in 1..Len(Join(a, s, b)) /\ Join(a, s, b)[Len(a) + 1] = s
  BY DEF Join

(* A separator that no letter is splits a Join of a string of letters and *)
(* a string uniquely: the left parts agree, and so do the right ones.      *)
LEMMA SplitAt ==
    ASSUME NEW s \in AllAtoms, s \notin Letters,
           NEW a1 \in Seq(Letters), NEW a2 \in Seq(Letters),
           NEW b1 \in Seq(AllAtoms), NEW b2 \in Seq(AllAtoms),
           Join(a1, s, b1) = Join(a2, s, b2)
    PROVE  a1 = a2 /\ b1 = b2
<1> DEFINE l == a1 \o <<s>> \o b1
           r == a2 \o <<s>> \o b2
<1>0. /\ a1 \in Seq(AllAtoms) /\ a2 \in Seq(AllAtoms)
      /\ l = r
  BY AtomSubsets DEF Join
<1>1. /\ l \in Seq(AllAtoms) /\ Len(l) = Len(a1) + 1 + Len(b1)
      /\ \A k \in 1..Len(a1) : l[k] = a1[k]
      /\ l[Len(a1) + 1] = s
      /\ \A k \in 1..Len(b1) : l[Len(a1) + 1 + k] = b1[k]
  BY <1>0
<1>2. /\ r \in Seq(AllAtoms) /\ Len(r) = Len(a2) + 1 + Len(b2)
      /\ \A k \in 1..Len(a2) : r[k] = a2[k]
      /\ r[Len(a2) + 1] = s
      /\ \A k \in 1..Len(b2) : r[Len(a2) + 1 + k] = b2[k]
  BY <1>0
<1>3. ~(Len(a1) < Len(a2))
  <2>1. SUFFICES ASSUME Len(a1) < Len(a2) PROVE FALSE
    OBVIOUS
  <2>2. r[Len(a1) + 1] = a2[Len(a1) + 1] /\ a2[Len(a1) + 1] \in Letters
    BY <1>2, <2>1
  <2>3. QED
    BY <1>0, <1>1, <2>2
<1>4. ~(Len(a2) < Len(a1))
  <2>1. SUFFICES ASSUME Len(a2) < Len(a1) PROVE FALSE
    OBVIOUS
  <2>2. l[Len(a2) + 1] = a1[Len(a2) + 1] /\ a1[Len(a2) + 1] \in Letters
    BY <1>1, <2>1
  <2>3. QED
    BY <1>0, <1>2, <2>2
<1>5. Len(a1) = Len(a2)
  BY <1>3, <1>4
<1>6. a1 = a2
  BY <1>0, <1>1, <1>2, <1>5, SeqEq
<1>7. Len(b1) = Len(b2)
  BY <1>0, <1>1, <1>2, <1>5
<1>8. b1 = b2
  BY <1>0, <1>1, <1>2, <1>5, <1>7, SeqEq
<1>9. QED
  BY <1>6, <1>8

(* The same for the Standard32 form: the interface and the function name   *)
(* are told back from the whole name.                                      *)
LEMMA StdSplit ==
    ASSUME NEW a1 \in Seq(Letters), NEW a2 \in Seq(Letters),
           NEW b1 \in Seq(AllAtoms), NEW b2 \in Seq(AllAtoms),
           Std(a1, b1) = Std(a2, b2)
    PROVE  a1 = a2 /\ b1 = b2
<1> DEFINE l == <<"cm32p2", "|">> \o a1 \o <<"|">> \o b1
           r == <<"cm32p2", "|">> \o a2 \o <<"|">> \o b2
<1>0. /\ a1 \in Seq(AllAtoms) /\ a2 \in Seq(AllAtoms) /\ "|" \notin Letters
      /\ l = r
  BY AtomSubsets, CoreNamesAssumption DEF Std
<1>1. /\ l \in Seq(AllAtoms \cup {"cm32p2", "|"}) /\ Len(l) = Len(a1) + 3 + Len(b1)
      /\ \A k \in 1..Len(a1) : l[k + 2] = a1[k]
      /\ l[Len(a1) + 3] = "|"
      /\ \A k \in 1..Len(b1) : l[Len(a1) + 3 + k] = b1[k]
  BY <1>0
<1>2. /\ r \in Seq(AllAtoms \cup {"cm32p2", "|"}) /\ Len(r) = Len(a2) + 3 + Len(b2)
      /\ \A k \in 1..Len(a2) : r[k + 2] = a2[k]
      /\ r[Len(a2) + 3] = "|"
      /\ \A k \in 1..Len(b2) : r[Len(a2) + 3 + k] = b2[k]
  BY <1>0
<1>3. ~(Len(a1) < Len(a2))
  <2>1. SUFFICES ASSUME Len(a1) < Len(a2) PROVE FALSE
    OBVIOUS
  <2>2. r[Len(a1) + 3] = a2[Len(a1) + 1] /\ a2[Len(a1) + 1] \in Letters
    BY <1>2, <2>1
  <2>3. QED
    BY <1>0, <1>1, <2>2
<1>4. ~(Len(a2) < Len(a1))
  <2>1. SUFFICES ASSUME Len(a2) < Len(a1) PROVE FALSE
    OBVIOUS
  <2>2. l[Len(a2) + 3] = a1[Len(a2) + 1] /\ a1[Len(a2) + 1] \in Letters
    BY <1>1, <2>1
  <2>3. QED
    BY <1>0, <1>2, <2>2
<1>5. Len(a1) = Len(a2)
  BY <1>3, <1>4
<1>6. a1 = a2
  <2>1. \A k \in 1..Len(a1) : a1[k] = a2[k]
    BY <1>0, <1>1, <1>2, <1>5
  <2>2. QED
    BY <1>0, <1>5, <2>1, SeqEq
<1>7. Len(b1) = Len(b2)
  BY <1>0, <1>1, <1>2, <1>5
<1>8. b1 = b2
  BY <1>0, <1>1, <1>2, <1>5, <1>7, SeqEq
<1>9. QED
  BY <1>6, <1>8

(* A WIT identifier is a non-empty string of letters.                      *)
LEMMA WordFacts ==
    ASSUME NEW w \in Words
    PROVE  w \in Seq(Letters) /\ Len(w) >= 1
<1>1. PICK n \in 1..MaxLen : w \in [1..n -> Letters]
  BY DEF Words
<1>2. QED
  BY <1>1, CoreNamesAssumption

(* A string of letters has no "#" in it.                                  *)
LEMMA LettersNoHash ==
    ASSUME NEW w \in Seq(Letters)
    PROVE  \A k \in 1..Len(w) : w[k] # "#"
  BY CoreNamesAssumption

(* Function::name is a string of atoms with no "#" in it.                  *)
LEMMA FuncNameFacts ==
    ASSUME NEW f \in Functions
    PROVE  /\ FuncName(f) \in Seq(Atoms)
           /\ \A k \in 1..Len(FuncName(f)) : FuncName(f)[k] # "#"
<1>1. CASE f.kind = "freestanding"
  <2>1. f.item \in Seq(Letters)
    BY <1>1, WordFacts DEF Functions, FreeKinds, ResourceKinds
  <2>2. FuncName(f) = f.item
    BY <1>1 DEF FuncName, ResourceKinds
  <2>3. QED
    BY <2>1, <2>2, LettersNoHash DEF Atoms
<1>2. CASE f.kind = "async-freestanding"
  <2>1. f.item \in Seq(Letters)
    BY <1>2, WordFacts DEF Functions, FreeKinds, ResourceKinds
  <2>2. FuncName(f) = <<"[async]">> \o f.item
    BY <1>2 DEF FuncName, ResourceKinds
  <2>3. \A k \in 1..Len(f.item) : f.item[k] # "#"
    BY <2>1, LettersNoHash
  <2>4. QED
    BY <2>1, <2>2, <2>3 DEF Atoms
<1>3. CASE f.kind \in ResourceKinds
  <2>1. f.item \in Seq(Letters) /\ f.res \in Resources
    BY <1>3, WordFacts DEF Functions, FreeKinds, ResourceKinds
  <2>2. KindPrefix(f.kind) \in Atoms /\ KindPrefix(f.kind) # "#"
    BY <1>3, KindPrefixNoHash DEF Atoms
  <2>3. FuncName(f) = <<KindPrefix(f.kind), f.res, ".">> \o f.item
    BY <1>3 DEF FuncName, ResourceKinds
  <2>4. \A k \in 1..Len(f.item) : f.item[k] # "#"
    BY <2>1, LettersNoHash
  <2>5. f.res # "#"
    BY <2>1, CoreNamesAssumption
  <2>6. QED
    BY <2>1, <2>2, <2>3, <2>4, <2>5 DEF Atoms
<1>4. CASE f.kind = "constructor"
  <2>1. f.res \in Resources
    BY <1>4 DEF Functions, FreeKinds, ResourceKinds
  <2>2. FuncName(f) = <<"[constructor]", f.res>>
    BY <1>4 DEF FuncName, ResourceKinds
  <2>3. f.res # "#"
    BY <2>1, CoreNamesAssumption
  <2>4. QED
    BY <2>1, <2>2, <2>3 DEF Atoms
<1>5. QED
  BY <1>1, <1>2, <1>3, <1>4 DEF Functions, FreeKinds, ResourceKinds

(* The interface part of a Standard32 name: empty for a function of the    *)
(* world itself.                                                           *)
Pre(i) == IF i = None THEN <<>> ELSE i

(* A Standard32 name is "cm32p2|" followed by the interface, "|" and the   *)
(* function name; a legacy one is the interface, "#" and the name, or the  *)
(* name alone.                                                             *)
LEMMA NameForms ==
    ASSUME NEW x \in Exports
    PROVE  /\ Pre(x[1]) \in Seq(Letters)
           /\ FuncName(x[2]) \in Seq(AllAtoms)
           /\ CoreExportName(x[1], x[2], "standard32") = Std(Pre(x[1]), FuncName(x[2]))
           /\ x[1] # None => x[1] \in Seq(Letters) /\
                 CoreExportName(x[1], x[2], "legacy") = Join(x[1], "#", FuncName(x[2]))
           /\ x[1] = None => CoreExportName(x[1], x[2], "legacy") = FuncName(x[2])
<1>1. x[1] \in Words \cup {None} /\ x[2] \in Functions
  BY DEF Exports
<1>2. FuncName(x[2]) \in Seq(AllAtoms)
  BY <1>1, FuncNameFacts, AtomSubsets
<1>3. CASE x[1] = None
  BY <1>2, <1>3 DEF CoreExportName, Pre, Std
<1>4. CASE x[1] # None
  <2>1. x[1] \in Seq(Letters)
    BY <1>1, <1>4, WordFacts
  <2>2. QED
    BY <1>2, <1>4, <2>1 DEF CoreExportName, Pre, Std, Join
<1>5. QED
  BY <1>3, <1>4

(* Pre tells a world's own function from an interface's.                   *)
LEMMA PreInjective ==
    ASSUME NEW i \in Words \cup {None}, NEW j \in Words \cup {None}, Pre(i) = Pre(j)
    PROVE  i = j
<1>1. ASSUME NEW w \in Words PROVE w # None /\ Len(w) >= 1
  BY WordFacts, CoreNamesAssumption
<1>2. QED
  BY <1>1 DEF Pre

(* core_export_name tells the interface and the function name back, under  *)
(* either mangling.                                                        *)
LEMMA CoreExportNameInjective ==
    ASSUME NEW x \in Exports, NEW y \in Exports, NEW mg \in {"standard32", "legacy"},
           CoreExportName(x[1], x[2], mg) = CoreExportName(y[1], y[2], mg)
    PROVE  x[1] = y[1] /\ FuncName(x[2]) = FuncName(y[2])
<1>1. x[1] \in Words \cup {None} /\ x[2] \in Functions
      /\ y[1] \in Words \cup {None} /\ y[2] \in Functions
  BY DEF Exports
<1>2. /\ Pre(x[1]) \in Seq(Letters) /\ FuncName(x[2]) \in Seq(AllAtoms)
      /\ Pre(y[1]) \in Seq(Letters) /\ FuncName(y[2]) \in Seq(AllAtoms)
  BY NameForms
<1>3. CASE mg = "standard32"
  <2>1. Std(Pre(x[1]), FuncName(x[2])) = Std(Pre(y[1]), FuncName(y[2]))
    BY <1>3, NameForms
  <2>2. Pre(x[1]) = Pre(y[1]) /\ FuncName(x[2]) = FuncName(y[2])
    BY <1>2, <2>1, StdSplit
  <2>3. QED
    BY <1>1, <2>2, PreInjective
<1>4. CASE mg = "legacy"
  <2>0. "#" \in AllAtoms /\ "#" \notin Letters
    BY AtomSubsets, CoreNamesAssumption
  <2>1. CASE x[1] # None /\ y[1] # None
    <3>1. /\ x[1] \in Seq(Letters) /\ y[1] \in Seq(Letters)
          /\ Join(x[1], "#", FuncName(x[2])) = Join(y[1], "#", FuncName(y[2]))
      BY <1>4, <2>1, NameForms
    <3>2. QED
      BY <1>2, <2>0, <3>1, SplitAt
  <2>2. CASE x[1] = None /\ y[1] = None
    BY <1>4, <2>2, NameForms
  <2>3. CASE x[1] # None /\ y[1] = None
    <3>1. x[1] \in Seq(Letters) /\ FuncName(y[2]) = Join(x[1], "#", FuncName(x[2]))
      BY <1>4, <2>3, NameForms
    <3>2. x[1] \in Seq(AllAtoms)
      BY <3>1, AtomSubsets
    <3>3. /\ Len(x[1]) + 1 \in 1..Len(Join(x[1], "#", FuncName(x[2])))
          /\ Join(x[1], "#", FuncName(x[2]))[Len(x[1]) + 1] = "#"
      BY ONLY <1>2, <2>0, <3>2, JoinAt
    <3>4. Len(x[1]) + 1 \in 1..Len(FuncName(y[2])) /\ FuncName(y[2])[Len(x[1]) + 1] = "#"
      BY ONLY <3>1, <3>3
    <3>5. QED
      BY <1>1, <3>4, FuncNameFacts
  <2>4. CASE x[1] = None /\ y[1] # None
    <3>1. y[1] \in Seq(Letters) /\ FuncName(x[2]) = Join(y[1], "#", FuncName(y[2]))
      BY <1>4, <2>4, NameForms
    <3>2. y[1] \in Seq(AllAtoms)
      BY <3>1, AtomSubsets
    <3>3. /\ Len(y[1]) + 1 \in 1..Len(Join(y[1], "#", FuncName(y[2])))
          /\ Join(y[1], "#", FuncName(y[2]))[Len(y[1]) + 1] = "#"
      BY ONLY <1>2, <2>0, <3>2, JoinAt
    <3>4. Len(y[1]) + 1 \in 1..Len(FuncName(x[2])) /\ FuncName(x[2])[Len(y[1]) + 1] = "#"
      BY ONLY <3>1, <3>3
    <3>5. QED
      BY <1>1, <3>4, FuncNameFacts
  <2>5. QED
    BY <2>1, <2>2, <2>3, <2>4
<1>5. QED
  BY <1>3, <1>4


(* The inductive invariant: the mangling is one the fuzz target picks, and *)
(* there is one as soon as a function is exported; every export of the     *)
(* current dummy module carries the core export name of that mangling;     *)
(* and no two exports share an interface and a function name.              *)
NamesInv ==
    /\ mangling \in ManglingsAndAbis \cup {None}
    /\ DOMAIN names \subseteq Exports
    /\ DOMAIN names # {} => mangling # None
    /\ \A x \in DOMAIN names : names[x] = CoreExportName(x[1], x[2], ManglingOf(mangling))
    /\ \A x, y \in DOMAIN names : x # y => ~(x[1] = y[1] /\ FuncName(x[2]) = FuncName(y[2]))

(* Both manglings of the fuzz target name core exports in one of the two  *)
(* formats.                                                                *)
LEMMA ManglingFormats ==
    ASSUME NEW m \in ManglingsAndAbis
    PROVE  ManglingOf(m) \in {"standard32", "legacy"}
  BY DEF ManglingsAndAbis, ManglingOf, Standard32, Legacy

(* Every step keeps the invariant.                                         *)
LEMMA NamesInvStep ==
    ASSUME NamesInv, [Next]_vars
    PROVE  NamesInv'
<1>1. ASSUME NEW i \in 0..3, ChooseMangling(i)
      PROVE  NamesInv'
  <2>1. mangling' \in ManglingsAndAbis
    BY <1>1 DEF ChooseMangling, FuzzMangling, ManglingsAndAbis, Abis
  <2>2. DOMAIN names' = {}
    BY <1>1 DEF ChooseMangling
  <2>3. QED
    BY <2>1, <2>2 DEF NamesInv
<1>2. ASSUME NEW x \in Exports, ExportFunc(x)
      PROVE  NamesInv'
  <2> DEFINE D == DOMAIN names
  <2>1. /\ mangling # None /\ mangling' = mangling
        /\ \A y \in D : ~(y[1] = x[1] /\ FuncName(y[2]) = FuncName(x[2]))
        /\ names' = [y \in D \cup {x} |->
                       IF y = x THEN CoreExportName(x[1], x[2], ManglingOf(mangling))
                       ELSE names[y]]
    BY <1>2 DEF ExportFunc
  <2>2. DOMAIN names' = D \cup {x}
    BY <2>1
  <2>3. (mangling \in ManglingsAndAbis \cup {None})' /\ (DOMAIN names \subseteq Exports)'
        /\ (DOMAIN names # {} => mangling # None)'
    BY <2>1, <2>2 DEF NamesInv
  <2>4. \A y \in DOMAIN names' :
           names'[y] = CoreExportName(y[1], y[2], ManglingOf(mangling'))
    BY <2>1, <2>2 DEF NamesInv
  <2>5. \A y, z \in DOMAIN names' :
           y # z => ~(y[1] = z[1] /\ FuncName(y[2]) = FuncName(z[2]))
    BY <2>1, <2>2 DEF NamesInv
  <2>6. QED
    BY <2>3, <2>4, <2>5 DEF NamesInv
<1>3. CASE UNCHANGED vars
  BY <1>3 DEF vars, NamesInv
<1>4. QED
  BY <1>1, <1>2, <1>3 DEF Next

(* The invariant holds from the start and is kept by every step.           *)
THEOREM NamesInvThm == Spec => []NamesInv
<1>1. Init => NamesInv
  BY DEF Init, NamesInv
<1>2. NamesInv /\ [Next]_vars => NamesInv'
  BY NamesInvStep
<1>3. QED
  BY <1>1, <1>2, PTL DEF Spec

(* Two different exports of one dummy module never get one core name,     *)
(* under either mangling of the fuzz target, for every alphabet, resource *)
(* set and bound.                                                          *)
THEOREM CoreNamesDistinctThm == Spec => []CoreNamesDistinct
<1>1. NamesInv => CoreNamesDistinct
  <2> SUFFICES ASSUME NamesInv, NEW x \in DOMAIN names, NEW y \in DOMAIN names,
                      x # y, names[x] = names[y]
               PROVE  FALSE
    BY DEF CoreNamesDistinct
  <2>1. x \in Exports /\ y \in Exports /\ mangling \in ManglingsAndAbis
    BY DEF NamesInv
  <2>2. ManglingOf(mangling) \in {"standard32", "legacy"}
    BY <2>1, ManglingFormats
  <2>3. CoreExportName(x[1], x[2], ManglingOf(mangling))
          = CoreExportName(y[1], y[2], ManglingOf(mangling))
    BY DEF NamesInv
  <2>4. x[1] = y[1] /\ FuncName(x[2]) = FuncName(y[2])
    BY <2>1, <2>2, <2>3, CoreExportNameInjective
  <2>5. QED
    BY <2>4 DEF NamesInv
<1>2. QED
  BY <1>1, NamesInvThm, PTL


(* No prefix of a resource function is a ".".                              *)
LEMMA KindPrefixNoDot ==
    ASSUME NEW k \in ResourceKinds
    PROVE  KindPrefix(k) # "."
  BY Zenon DEF KindPrefix, ResourceKinds

(* item_name recovers the item of every function, and resource() names    *)
(* its resource.                                                           *)
LEMMA ItemNameFacts ==
    ASSUME NEW f \in Functions
    PROVE  /\ ItemName(f) = IF f.kind = "constructor" THEN <<"constructor">> ELSE f.item
           /\ ResourceOf(f) = f.res
<1>1. ResourceOf(f) = f.res
  BY DEF ResourceOf, Functions, FreeKinds, ResourceKinds
<1>2. CASE f.kind = "freestanding"
  BY <1>1, <1>2 DEF ItemName, FuncName, ResourceKinds
<1>3. CASE f.kind = "async-freestanding"
  <2>1. f.item \in Seq(Letters)
    BY <1>3, WordFacts DEF Functions, FreeKinds, ResourceKinds
  <2>2. FuncName(f) = <<"[async]">> \o f.item
    BY <1>3 DEF FuncName, ResourceKinds
  <2>3. ItemName(f) = SubSeq(FuncName(f), 2, Len(FuncName(f)))
    BY <1>3 DEF ItemName, ResourceKinds
  <2>4. QED
    BY <1>1, <1>3, <2>1, <2>2, <2>3
<1>4. CASE f.kind \in ResourceKinds
  <2> DEFINE n == FuncName(f)
  <2>1. f.item \in Seq(Letters) /\ f.res \in Resources
    BY <1>4, WordFacts DEF Functions, FreeKinds, ResourceKinds
  <2>2. KindPrefix(f.kind) # "." /\ f.res # "."
    BY <1>4, <2>1, KindPrefixNoDot, CoreNamesAssumption
  <2>3. n = <<KindPrefix(f.kind), f.res, ".">> \o f.item
    BY <1>4 DEF FuncName, ResourceKinds
  <2>4. /\ Len(n) = 3 + Len(f.item) /\ n[1] # "." /\ n[2] # "." /\ n[3] = "."
    BY <2>1, <2>2, <2>3
  <2>5. Find(n, ".") = 3
    <3>1. 3 \in 1..Len(n) /\ n[3] = "." /\ \A j \in 1..(3 - 1) : n[j] # "."
      BY <2>4
    <3>2. \A i \in 1..Len(n) : n[i] = "." /\ (\A j \in 1..(i - 1) : n[j] # ".") => i = 3
      BY <2>4
    <3>3. QED
      BY <3>1, <3>2 DEF Find
  <2>6. ItemName(f) = SubSeq(n, 4, Len(n))
    BY <1>4, <2>5 DEF ItemName, ResourceKinds
  <2>7. SubSeq(n, 4, Len(n)) = f.item
    BY <2>1, <2>3, <2>4
  <2>8. QED
    BY <1>1, <1>4, <2>6, <2>7 DEF ResourceKinds
<1>5. CASE f.kind = "constructor"
  BY <1>1, <1>5 DEF ItemName, ResourceKinds
<1>6. QED
  BY <1>1, <1>2, <1>3, <1>4, <1>5 DEF Functions, FreeKinds, ResourceKinds

(* For every export of the dummy module, item_name gives back the name of *)
(* the item alone and resource() the resource it belongs to, for every    *)
(* alphabet, resource set and bound.                                      *)
THEOREM ItemNameRecoversThm == Spec => []ItemNameRecovers
<1>1. NamesInv => ItemNameRecovers
  <2> SUFFICES ASSUME NamesInv, NEW x \in DOMAIN names
               PROVE  LET f == x[2] IN
                      /\ ItemName(f) = IF f.kind = "constructor" THEN <<"constructor">> ELSE f.item
                      /\ ResourceOf(f) = f.res
    BY DEF ItemNameRecovers
  <2>1. x[2] \in Functions
    BY DEF NamesInv, Exports
  <2>2. QED
    BY <2>1, ItemNameFacts
<1>2. QED
  BY <1>1, NamesInvThm, PTL


-----------------------------------------------------------------------------
(* What AbiVariantsAgree says of one ManglingAndAbi value.                 *)
AgreesAt(m) ==
    /\ IsAsync(m) <=> ImportVariant(m) # "GuestImport"
    /\ IsAsync(m) <=> ExportVariant(m) # "GuestExport"
    /\ m # Standard32 =>
          /\ IsAsync(m) <=> ImportPrefix(m.abi) # <<>>
          /\ IsAsync(m) <=> ExportPrefix(m.abi) # <<>>
    /\ ManglingOf(Sync(m)) = ManglingOf(m)
    /\ ~IsAsync(Sync(m))
    /\ ImportVariant(Sync(m)) = "GuestImport" /\ ExportVariant(Sync(m)) = "GuestExport"
    /\ ~IsAsync(m) => Sync(m) = m
    /\ ManglingOf(m) = "standard32" => ~IsAsync(m)

(* The four values the fuzz target can pick each agree with themselves:    *)
(* is_async, the import and export variants, the name prefixes and sync()  *)
(* tell the same story.                                                    *)
LEMMA EveryManglingAgrees ==
    ASSUME NEW m \in ManglingsAndAbis
    PROVE  AgreesAt(m)
<1>1. Standard32 # Legacy("sync") /\ Legacy("sync") # Legacy("async-callback")
      /\ Legacy("sync") # Legacy("async-stackful")
  BY DEF Standard32, Legacy
<1>2. CASE m = Standard32
  BY <1>1, <1>2 DEF AgreesAt, IsAsync, ImportVariant, ExportVariant, Sync, ManglingOf
<1>3. CASE m = Legacy("sync")
  BY <1>1, <1>3 DEF AgreesAt, IsAsync, ImportVariant, ExportVariant, Sync, ManglingOf,
                    Legacy, AbiImportVariant, AbiExportVariant, ImportPrefix, ExportPrefix
<1>4. CASE m = Legacy("async-callback")
  BY <1>1, <1>4 DEF AgreesAt, IsAsync, ImportVariant, ExportVariant, Sync, ManglingOf,
                    Legacy, Standard32, AbiImportVariant, AbiExportVariant,
                    ImportPrefix, ExportPrefix
<1>5. CASE m = Legacy("async-stackful")
  BY <1>1, <1>5 DEF AgreesAt, IsAsync, ImportVariant, ExportVariant, Sync, ManglingOf,
                    Legacy, Standard32, AbiImportVariant, AbiExportVariant,
                    ImportPrefix, ExportPrefix
<1>6. QED
  BY <1>2, <1>3, <1>4, <1>5 DEF ManglingsAndAbis, Abis

(* Whatever the fuzz input picks for each world, the ABI of the world      *)
(* agrees with itself: async exactly when the variants and prefixes are    *)
(* the async ones, and sync() keeps the mangling and drops the async ABI.  *)
THEOREM AbiVariantsAgreeThm == Spec => []AbiVariantsAgree
<1>1. NamesInv => AbiVariantsAgree
  <2> SUFFICES ASSUME NamesInv, mangling # None PROVE AgreesAt(mangling)
    BY DEF AbiVariantsAgree, AgreesAt
  <2>1. mangling \in ManglingsAndAbis
    BY DEF NamesInv
  <2>2. QED
    BY <2>1, EveryManglingAgrees
<1>2. QED
  BY <1>1, NamesInvThm, PTL

=============================================================================
