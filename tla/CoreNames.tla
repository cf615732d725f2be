------------------------------ MODULE CoreNames ------------------------------
(***************************************************************************)
(* ABI variants and core name mangling (crates/wit-parser/src/lib.rs,      *)
(* FunctionKind::resource through Function::core_export_name), driven the  *)
(* way the roundtrip_wit fuzz target drives them: for each of the first    *)
(* worlds it picks one of four ManglingAndAbi values, and the dummy module *)
(* for that world exports each function under its core export name.        *)
(*                                                                         *)
(* A string is a sequence of atoms: a letter, or one of the fixed tokens   *)
(* the code inserts or strips ("[async]", "[method]", ".", "#", "|",       *)
(* "cm32p2", ...).  A token is one atom because the code only ever adds or *)
(* removes it whole.                                                       *)
(***************************************************************************)
EXTENDS Naturals, Sequences, FiniteSets

CONSTANTS
    Letters,     \* the letters of WIT identifiers
    MaxLen,      \* the longest identifier, in letters
    Resources,   \* resource names
    MaxWorlds,   \* worlds.iter().take(20)
    MaxExports,  \* functions exported by one dummy module
    None         \* Option::None

(* WIT identifiers are kebab case: no letter is one of the "#" and "|"     *)
(* separators, and no resource name is a "#" or a ".".                     *)
ASSUME CoreNamesAssumption ==
    /\ MaxLen \in Nat \ {0} /\ MaxWorlds \in Nat /\ MaxExports \in Nat
    /\ None \notin Seq(Letters)
    /\ "#" \notin Letters \cup Resources /\ "|" \notin Letters
    /\ "." \notin Resources

VARIABLES
    world,     \* worlds embedded so far
    mangling,  \* the ManglingAndAbi chosen for the current world, or None
    names      \* exported (interface, function) |-> its core export name

vars == <<world, mangling, names>>

(* WIT identifiers: non-empty words over Letters.                          *)
Words == UNION {[1..n -> Letters] : n \in 1..MaxLen}

FreeKinds == {"freestanding", "async-freestanding"}
ResourceKinds == {"method", "static", "async-method", "async-static"}

(* A function: its kind, the resource it belongs to and its item name.     *)
Functions ==
    [kind : FreeKinds, res : {None}, item : Words]
      \cup [kind : ResourceKinds, res : Resources, item : Words]
      \cup [kind : {"constructor"}, res : Resources, item : {<<>>}]

(* Function::name as the resolver builds it.                               *)
KindPrefix(k) ==
    CASE k = "method"       -> "[method]"
      [] k = "static"       -> "[static]"
      [] k = "async-method" -> "[async method]"
      [] k = "async-static" -> "[async static]"

FuncName(f) ==
    CASE f.kind = "freestanding"       -> f.item
      [] f.kind = "async-freestanding" -> <<"[async]">> \o f.item
      [] f.kind \in ResourceKinds      -> <<KindPrefix(f.kind), f.res, ".">> \o f.item
      [] f.kind = "constructor"        -> <<"[constructor]", f.res>>

(* FunctionKind::resource and resource_mut.                                *)
ResourceOf(f) == IF f.kind \in FreeKinds THEN None ELSE f.res

(* The first position of atom x in s: str::find(x).unwrap().              *)
Find(s, x) == CHOOSE i \in 1..Len(s) : s[i] = x /\ \A j \in 1..(i - 1) : s[j] # x

(* A mutant of item_name that keeps the "." of a resource function.       *)
ItemNameKeepsDot(f) ==
    LET n == FuncName(f) IN
    CASE f.kind = "freestanding"       -> n
      [] f.kind = "async-freestanding" -> SubSeq(n, 2, Len(n))
      [] f.kind \in ResourceKinds      -> SubSeq(n, Find(n, "."), Len(n))
      [] f.kind = "constructor"        -> <<"constructor">>

(* Function::item_name.                                                    *)
ItemName(f) ==
    LET n == FuncName(f) IN
    CASE f.kind = "freestanding"       -> n
      [] f.kind = "async-freestanding" -> SubSeq(n, 2, Len(n))
      [] f.kind \in ResourceKinds      -> SubSeq(n, Find(n, ".") + 1, Len(n))
      [] f.kind = "constructor"        -> <<"constructor">>

(* LiftLowerAbi::import_prefix, import_variant, export_prefix and          *)
(* export_variant.  An empty prefix is <<>>.                               *)
ImportPrefix(abi) == IF abi = "sync" THEN <<>> ELSE <<"[async-lower]">>
AbiImportVariant(abi) == IF abi = "sync" THEN "GuestImport" ELSE "GuestImportAsync"
ExportPrefix(abi) ==
    CASE abi = "sync"           -> <<>>
      [] abi = "async-callback" -> <<"[async-lift]">>
      [] abi = "async-stackful" -> <<"[async-lift-stackful]">>
AbiExportVariant(abi) ==
    CASE abi = "sync"           -> "GuestExport"
      [] abi = "async-callback" -> "GuestExportAsync"
      [] abi = "async-stackful" -> "GuestExportAsyncStackful"

(* ManglingAndAbi: Standard32, or Legacy of a LiftLowerAbi.                *)
Abis == {"sync", "async-callback", "async-stackful"}
Standard32 == [tag |-> "standard32", abi |-> None]
Legacy(abi) == [tag |-> "legacy", abi |-> abi]
ManglingsAndAbis == {Standard32} \cup {Legacy(a) : a \in Abis}

(* A mutant of sync() that leaves the stackful ABI as it is.              *)
SyncKeepsStackful(m) ==
    IF m \in {Standard32, Legacy("sync"), Legacy("async-stackful")} THEN m ELSE Legacy("sync")

ImportVariant(m) == IF m = Standard32 THEN "GuestImport" ELSE AbiImportVariant(m.abi)
ExportVariant(m) == IF m = Standard32 THEN "GuestExport" ELSE AbiExportVariant(m.abi)
Sync(m) == IF m \in {Standard32, Legacy("sync")} THEN m ELSE Legacy("sync")
IsAsync(m) == m \notin {Standard32, Legacy("sync")}

(* The Mangling a ManglingAndAbi names core exports with.                  *)
ManglingOf(m) == m.tag

(* A mutant of core_export_name that joins a legacy interface and name    *)
(* with no "#".                                                            *)
CoreExportNameJoined(iface, f, mg) ==
    CASE iface # None /\ mg = "standard32" -> <<"cm32p2", "|">> \o iface \o <<"|">> \o FuncName(f)
      [] iface # None /\ mg = "legacy"     -> iface \o FuncName(f)
      [] iface = None /\ mg = "standard32" -> <<"cm32p2", "|", "|">> \o FuncName(f)
      [] iface = None /\ mg = "legacy"     -> FuncName(f)

(* Function::core_export_name.                                             *)
CoreExportName(iface, f, mg) ==
    CASE iface # None /\ mg = "standard32" -> <<"cm32p2", "|">> \o iface \o <<"|">> \o FuncName(f)
      [] iface # None /\ mg = "legacy"     -> iface \o <<"#">> \o FuncName(f)
      [] iface = None /\ mg = "standard32" -> <<"cm32p2", "|", "|">> \o FuncName(f)
      [] iface = None /\ mg = "legacy"     -> FuncName(f)

(* standard32_core_export_name and legacy_core_export_name.                *)
Standard32CoreExportName(iface, f) == CoreExportName(iface, f, "standard32")
LegacyCoreExportName(iface, f) == CoreExportName(iface, f, "legacy")

(* The fuzz input's int_in_range(0..=3), mapped to a ManglingAndAbi.       *)
FuzzMangling(i) ==
    CASE i = 0 -> Legacy("sync")
      [] i = 1 -> Legacy("async-callback")
      [] i = 2 -> Legacy("async-stackful")
      [] i = 3 -> Standard32

(* An exported function: the interface that owns it (None for a function  *)
(* of the world itself) and the function.                                  *)
Exports == (Words \cup {None}) \X Functions

Init ==
    /\ world = 0
    /\ mangling = None
    /\ names = [x \in {} |-> <<>>]

(* A mutant of the loop that takes one world more than take(MaxWorlds).   *)
ChooseManglingTakesOneMore(i) ==
    /\ world <= MaxWorlds
    /\ world' = world + 1
    /\ mangling' = FuzzMangling(i)
    /\ names' = [x \in {} |-> <<>>]

(* The loop body starts on the next world and picks its mangling.          *)
ChooseMangling(i) ==
    /\ world < MaxWorlds
    /\ world' = world + 1
    /\ mangling' = FuzzMangling(i)
    /\ names' = [x \in {} |-> <<>>]

(* dummy_module exports a function of the world under its core export      *)
(* name.  Names are unique within an interface and within the world.       *)
ExportFunc(x) ==
    /\ mangling # None
    /\ Cardinality(DOMAIN names) < MaxExports
    /\ \A y \in DOMAIN names : ~(y[1] = x[1] /\ FuncName(y[2]) = FuncName(x[2]))
    /\ names' = [y \in DOMAIN names \cup {x} |->
                   IF y = x THEN CoreExportName(x[1], x[2], ManglingOf(mangling))
                   ELSE names[y]]
    /\ UNCHANGED <<world, mangling>>

Next ==
    \/ \E i \in 0..3 : ChooseMangling(i)
    \/ \E x \in Exports : ExportFunc(x)

Spec == Init /\ [][Next]_vars

-----------------------------------------------------------------------------

(* Type invariant. *)
TypeOK ==
    /\ world \in 0..MaxWorlds
    /\ mangling \in ManglingsAndAbis \cup {None}
    /\ DOMAIN names \subseteq Exports
    /\ Cardinality(DOMAIN names) <= MaxExports

(* core_export_name gives two different exports of one dummy module two    *)
(* different core names, under either mangling: the "#" and "|"           *)
(* separators, and the "cm32p2||" of a world's own function, keep an       *)
(* interface name and a function name from running into each other.       *)
CoreNamesDistinct ==
    \A x, y \in DOMAIN names : x # y => names[x] # names[y]

(* item_name recovers, from the name the resolver gave a function, the     *)
(* name of the item alone: "[async]" stripped, everything up to the first  *)
(* "." of a resource function stripped, "constructor" for a constructor;   *)
(* and FunctionKind::resource names the resource exactly when the name     *)
(* carries one.                                                            *)
ItemNameRecovers ==
    \A x \in DOMAIN names :
        LET f == x[2] IN
        /\ ItemName(f) = IF f.kind = "constructor" THEN <<"constructor">> ELSE f.item
        /\ ResourceOf(f) = f.res

(* The ABI the fuzz target picked for a world agrees with itself: the      *)
(* import and export variants are async exactly when is_async() says so    *)
(* and exactly when the name prefixes are non-empty; sync() keeps the      *)
(* mangling, is never async and gives the synchronous variants; Standard32 *)
(* is only ever synchronous.                                               *)
AbiVariantsAgree ==
    mangling # None =>
        LET m == mangling IN
        /\ IsAsync(m) <=> ImportVariant(m) # "GuestImport"
        /\ IsAsync(m) <=> ExportVariant(m) # "GuestExport"
        /\ m # Standard32 =>
              /\ IsAsync(m) <=> ImportPrefix(m.abi) # <<>>
              /\ IsAsync(m) <=> ExportPrefix(m.abi) # <<>>
        /\ ManglingOf(Sync(m)) = ManglingOf(m)
        /\ ~IsAsync(Sync(m))
        /\ ImportVariant(Sync(m)) = "GuestImport" /\ ExportVariant(Sync(m)) = "GuestExport"
        /\ ~IsAsync(m) => Sync(m) = m
        /\ ManglingOf(m) = "standard32" => ~IsAsync(m)

=============================================================================
