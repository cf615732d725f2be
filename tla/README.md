# Formal models of wit-parser, wit-encoder and the roundtrip_wit fuzz target

This directory holds TLA+ models of the parts of this repository under `src/`
whose behaviour is more than formatting (`crates/wit-encoder/src/resource.rs`
is not among them; see *Not modelled*):

- `crates/wit-parser/src/lib.rs`: the type model, the future/stream discovery
  used to number binding imports, the canonical-ABI representation choices,
  the semver track of package versions and the keys of world maps;
- `fuzz/src/roundtrip_wit.rs`: the reencoder that drops imports of a dummy
  core module.

Every module comes with an `MC*.tla` module and one or more `.cfg` files for
TLC. Six `*_proofs.tla` modules hold TLAPS proofs. `PROJECT.json` lists the
components, runs, mutants, the source lines each definition models, the
hazards and the findings.

## How the parts interact

A `Resolve` owns an arena of `TypeDef`s. A `TypeDef` refers only to earlier
ids, because a type is allocated after the types it uses.

- `Function::find_futures_and_streams` walks that arena from the parameter and
  result types. The order of its output names the `[future-new-N]` and
  `[stream-new-N]` imports that binding generators and wit-component agree on.
- `Variant::tag`, `Enum::tag` and `Flags::repr` choose the core representation
  of those types for the canonical ABI.
- `PackageName::version_compat_track` and `version_compat_track_string` decide
  which package versions merge into one import and what version the import
  name carries.
- `WorldKey` is the key of `World::imports` and `World::exports`. Its `Hash`
  and `PartialEq` make `x` and `[async]x` one key.
- `LiftLowerAbi` and `ManglingAndAbi` choose the ABI variant and name prefixes
  of generated imports and exports; `Function::core_export_name` and
  `item_name` build and take apart the core names of functions.
- The fuzz target picks one `ManglingAndAbi` per world (its first 20), builds a
  dummy module for the world with it, optionally drops imports
  with `RemoveImports`, and round-trips the result through the encoder.

## Modules

| Module | Models | State and actions |
|---|---|---|
| `FuturesStreams` | `Function::find_futures_and_streams` and its recursive helper (lib.rs 1175-1242) | The recursion is an explicit call stack: one frame `[id, pos]` per active call on a `Type::Id`. `CallRoot` calls on the next parameter, then the result. `Call` is the let-else: a primitive never gets a frame. `VisitLeaf`, `VisitChild`, `FinishCompound`, `FinishAsync` and `VisitUnknown` are the match arms; `FinishAsync` pushes the id after the payload. `Return` hands back `results`. |
| `CanonicalRepr` | `discriminant_type`, `Variant::tag`, `Enum::tag`, `Flags::repr` and `FlagsRepr::count` (lib.rs 711-834) | `Tag(n)` and `Repr(n)` are one query each. u32::MAX and usize::MAX are the constants `U32Max` and `UsizeMax`. |
| `VersionTrack` | `version_compat_track` and `version_compat_track_string` (lib.rs 207-241) | Two versions `v` and `w` with their tracks and strings. `CallOnV` and `CallOnW` replace one of them. `Display` of a version is the sequence of the parts it writes. |
| `WorldKeys` | `WorldKey`, `KebabDedupe`, `Hash` and `PartialEq` for `WorldKey` (lib.rs 439-506), and the IndexMap they key | Names are sequences of atoms, with `[async]` one atom. The assembly loop is in resolve.rs, which is not under `src/`, so it is modelled from spec 4.3: `InsertNew`, `InsertDuplicate` (fail) and `Finish`. |
| `CoreNames` | `FunctionKind::resource`, `LiftLowerAbi`, `ManglingAndAbi`, `Function::item_name`, `core_export_name` and its two wrappers (lib.rs 959-1159), and the fuzz loop's choice of mangling (roundtrip_wit.rs 36-46) | `ChooseMangling(i)` is one turn of the world loop: `int_in_range(0..=3)` picks the `ManglingAndAbi`. `ExportFunc(x)` names one export of the world's dummy module with `core_export_name` (the naming itself is in wit-component, so this action is modelled from spec 6). A string is a sequence of atoms: letters, and the tokens the code adds or strips whole (`[async]`, `[method]`, `.`, `#`, `\|`, `cm32p2`). A function's name is built as the resolver builds it, from its kind, resource and item name. |
| `ItemSet` | the promise of spec 4.3 for a world's import or export map | The abstract specification: keys are taken in source order; `Add` holds a key that names no held item, `Reject` fails on one that does, `Close` ends. `Same(a, b)` is the identity of items, with no hashing. |
| `RemoveImports` | `RemoveImports` in roundtrip_wit.rs (51-64, 167-191) | `RemoveImport` and `KeepImport` are the two branches of `parse_import`. `FunctionIndex` and `FunctionIndexUnderflow` are `function_index` without and with u32 underflow; underflow is a panic or a wrap, depending on `OverflowChecks`. The import section comes before every section holding function indices. |

What each model abstracts:

- Names, docs, owners and stability are dropped wherever the code's decisions
  do not read them.
- A primitive `Type` is the single value `Prim`.
- A `TypeDef` is its kind and the sequence of child types its match arm
  recurses into.

## Runs

| Run | Checks | Bounds |
|---|---|---|
| `futures_streams_resolved` | `TypeOK`; `StackDescends` (every nested call is on an earlier id); `ResultMatchesReference` (the output equals a recursive reference definition of the depth-first post-order); `Terminates` (`<>(pc \in {"done", "panicked"})`) | Every arena of 3 TypeDefs over all resolved kinds, records of up to 2 fields, 1 parameter and an optional result: 344k states. Depth-3 nesting, shared subtypes, a future inside a future, and params before result all occur. |
| `futures_streams_unresolved` | `NoSilentUnknown`: once the walk reaches an `Unknown` it can only panic, never return. `Reached`, the TypeDefs the signature reaches, is the least set that holds the root ids and every child of its members, written without recursion; on this instance it was checked equal to the recursive union of the reachable subtrees | As above, with `unknown` added to the kinds. |
| `canonical_repr` | `DiscriminantIsCanonical`, `FlagsReprCanonical` | Case counts at every boundary: 0, 1, 2, 255-258, 65535-65538 and U32Max..U32Max+2 (U32Max = 100000). Flag counts 0..97, which is three u32 words and beyond. |
| `version_track` | `TrackIsCompatibility`: equal tracks iff semver caret-compatible. `TrackStringInjective`: equal strings iff equal tracks | Numbers 0..2; pre-release and build each empty or one identifier. 0.0.x, 0.x and x.y.z all occur. |
| `world_keys` | `HashAgreesWithEq`, `NoAsyncDuplicates`, `FailsExactlyOnCollision`; `ImplementsItemSet` (temporal): the map, looked up through `Hash` and `PartialEq`, implements `ItemSet` under `held = {imports[i]}`, `todo = pending`, `status = pc` | Atoms `[async]`, `foo`, `bar`; names up to 2 atoms; 2 interfaces; up to 3 items, in every order. |
| `remove_imports_defined` | `DefinedRefsRemapped`: a reference to a defined function is renumbered to that function | 3 function imports, 2 definitions, every subset of references and every drop pattern. |
| `core_names` | `TypeOK`; `CoreNamesDistinct` (two exports of one dummy module never share a core name, under either mangling); `ItemNameRecovers` (`item_name` gives back the item, `resource()` the resource); `AbiVariantsAgree` (variants, prefixes, `sync()` and `is_async()` agree) | Letters `a`, `b`, words of up to 2 letters, one resource, every function kind, interfaces of up to 2 letters or none, 2 worlds of up to 2 exports: 269k states. An interface `a` with a function `ab` and an interface `aa` with a function `b` both occur, which is the case a missing separator would merge. |
| `remove_imports_nonfunc` (violation) | `DefinedRefsRemapped` with a memory among the import kinds | As `remove_imports_defined`. TLC finds the violation in 7 states. |
| `remove_imports_targets` (violation) | `KeptImportRefsRemapped`: a reference to a kept imported function still names it | As above. TLC keeps imports 1 and 2 and drops 3: index 1 (import 2) becomes 0 (import 1). The drop after the import is subtracted too. |
| `remove_imports_release` | `RenumberByDropCount`: when done, `removedFuncs` is the number of imports dropped, and every reference r is `r - removedFuncs`, or `(r + 2^32 - removedFuncs) % 2^32` below it | Function and memory imports, no overflow checks (a release build), so the wrap branch of `FunctionIndexUnderflow` runs: 7k states. |

Only `FuturesStreams` assumes fairness, weak fairness of `Next`.
`find_futures_and_streams` is one sequential call that nothing preempts
forever, so it always takes its next step. The other models are open-ended
clients and claim no liveness. Their cfgs set `CHECK_DEADLOCK FALSE`, because
a client may stop calling at any point; the traversal stops after `Return` (or at its panic).

Each property has a mutant in `PROJECT.json`: a plausible bug in the mapped
definition that TLC then finds. Examples:

- `discriminant_type` testing `n` instead of `n - 1`;
- `Flags::repr` switching to u16 up to 32 flags;
- the track keeping the patch of a 0.x version;
- `Hash` not stripping `[async]`;
- a duplicate key silently dropped instead of failing;
- the result walked before the parameters.

## Finding

`function_index` returns `idx - removed_funcs`
(`fuzz/src/roundtrip_wit.rs:176`). It subtracts every import dropped so far
from every function index. That is right only for defined functions (the
`remove_imports_defined` run). The `remove_imports_targets` run fails in
three ways:

- A reference to a kept import after a dropped one is shifted onto a
  different import.
- A reference to a dropped import is kept and points elsewhere.
- An index below the count underflows u32.

The fuzz target's smoke test is marked `#[should_panic] // TODO: this should
get fixed`. This agrees with that note, and explains it.

`removed_funcs` also counts dropped imports that are not functions
(`roundtrip_wit.rs:185`). The `remove_imports_nonfunc` run gives the module a
memory import as well. Dropping one function import and the memory makes the
count 2. A reference to the first defined function (index 2) is then
renumbered to 0, although it should be 1. The field's name and its use in
`function_index` show it is meant to count dropped functions. Dummy modules
built by `dummy_module` import only functions today. The bug stays latent for
them, and bites on any other module handed to the reencoder.

## Proofs (TLAPS)

| Theorem | Statement | Argument |
|---|---|---|
| `FuturesStreams_proofs!TypeCorrect` | `Spec => []TypeOK` | Inductive invariant `IInv`: `TypeOK`, `FramesLinked` (each frame sits on the child its caller is visiting) and `PosBounded` (pos stays within the children). `TypeOK` alone is not inductive: popping a frame advances the caller, which needs the caller's position to be in range. |
| `StackDescendsThm` | `Spec => []StackDescends` | From `IInv` and the arena order `Arenas`: a child id is below its parent. |
| `RecursionDepthBounded` | `Spec => [](Len(stack) <= N)` | `DepthBound`: frame k has an id of at most N + 1 - k. Proved inductive together with `IInv` (lemmas `PopKeepsDepth` and `VisitChildKeepsDepth`), then `DepthCapsLength`. |
| `NoSilentUnknownThm` | `Spec => []NoSilentUnknown` | Inductive invariant `CleanInv`, with `IInv`. `Bad` is the least set of ids that holds every `unknown` and every TypeDef with a child in it, and a type is clean when it is primitive or not in `Bad`. Unless the walk has panicked, every root already finished and every child a frame's loop has passed is clean. The exceptions are the root and the child whose call is still on the stack, which `CleanInv` pins to the frame above. A frame that returns is no placeholder and has only clean children, so it is clean itself (`CleanUp`: `Bad` without it is still closed). At `done` every root is clean, and the ids outside `Bad` hold the roots and are closed under children, so `Reached` avoids `Bad` (`CleanRootsReachNoUnknown`). `NoSilentUnknown` alone is not inductive: it says nothing before `done`, and the half-finished frames are what carry the argument. |
| `CanonicalRepr_proofs!DiscriminantTypeThm` | `Spec => []DiscriminantIsCanonical` | The state always holds `DiscriminantType(numCases)`. Lemma `DiscriminantTypeCanonical` proves the IF chain minimal for every n and every U32Max > 65535. |
| `FlagsReprThm` | `Spec => []FlagsReprCanonical` | Lemma `AlignWords` (`AlignTo(n,32) \div 32` is the least k with 32k >= n), then `FlagsReprMinimal`. |
| `VersionTrack_proofs!TrackIsCompatibilityThm` | `Spec => []TrackIsCompatibility` | Lemmas `TrackFields` and `TrackEq` (what the track keeps), then `TrackCompatible` (equal tracks iff `Compatible`), split on pre-releases and on `Below`. |
| `WorldKeys_proofs!ImplementsItemSetThm` | `Spec => ImplementsItemSet`, i.e. `Spec => Abs!Spec` | Refinement: `Init => Abs!Init`, and every step under `TypeOK` is an `ItemSet` step or a stutter (`StepRefines`). It rests on `LookupZero`: `Lookup` finds nothing exactly when no entry is `SameItem` as the key. That follows from `MatchIffSame` (equal hash and `KeyEq` iff `SameItem`), whose core is `DedupeEq`: for names with `[async]` only in front, `KebabDedupe` identifies exactly a name and its `[async]` form. `TypeOK` is inductive on its own (`TypeCorrect`). |
| `NoAsyncDuplicatesThm` | `Spec => []NoAsyncDuplicates` | Inductive invariant `KeysInv` (`KeysInvThm`): `TypeOK`, `declared = imports \o pending` (the map holds the inserted prefix of the declarations, in order), `NoAsyncDuplicates`, and the two outcomes: `failed` leaves the colliding key at the head of `pending` with a `SameItem` partner in the map, and `done` has nothing pending. `InsertNew` keeps the map free of duplicates by `LookupZero`; `MoveHead` moves the head of `pending` to the end of `imports`. |
| `FailsExactlyOnCollisionThm` | `Spec => []FailsExactlyOnCollision` | From `KeysInv`. On `failed`, the partner in `imports` and the head of `pending` are two declared positions that name one item. On `done`, `imports = declared`, and `NoAsyncDuplicates` on `imports` rules out any collision. |
| `HashAgreesWithEqThm` | `Spec => []HashAgreesWithEq` | `EqImpliesHash` for any two WorldKeys, under `TypeOK`: `KeyEq` compares exactly what `KeyHash` hashes. |
| `TrackStringInjectiveThm` | `Spec => []TrackStringInjective` | `StringFields` shows the string determines the track's fields; `TrackStringDistinct` gives the converse. |
| `CoreNames_proofs!CoreNamesDistinctThm` | `Spec => []CoreNamesDistinct` | Inductive invariant `NamesInv`: every export carries the core name of the current mangling, and no two exports share an interface and a function name (the guard of `ExportFunc`). The core is `CoreExportNameInjective`: the interface and the function name can be read back from a core name. A Standard32 name is `Std(iface, name)` and a legacy one is `Join(iface, "#", name)`. `SplitAt` and `StdSplit` show that a separator no letter is splits such a name uniquely. A legacy name of the world's own function has no `#` (`FuncNameFacts`), so it cannot equal an interface's. |
| `AbiVariantsAgreeThm` | `Spec => []AbiVariantsAgree` | `NamesInv` keeps `mangling` among the four `ManglingAndAbi` values or `None`. `EveryManglingAgrees` checks the property of each value, one case per value. |
| `ItemNameRecoversThm` | `Spec => []ItemNameRecovers` | `ItemNameFacts`, for every function: the first `.` of a resource function's name is its third atom, because neither the kind prefix nor the resource name is a `.`. |
| `RemoveImports_proofs!RenumberByDropCountThm` | `Spec => []RenumberByDropCount` | Inductive invariant `ShiftInv` (`ShiftInvThm`). Every import seen is dropped or kept (`removedFuncs + Len(kept) = next - 1`). No index is renumbered during the import phase, so `removedFuncs` is final when `function_index` reads it. Every renumbered index is `r - removedFuncs`, wrapped below it, and `done` means every reference is renumbered. The conjunct about the import phase is what makes it inductive: without it, dropping an import would move the shift of an index already renumbered. The theorem holds for every kind of import and either build. It shows the shift depends only on how many imports were dropped, not on which or of what kind. That is the cause of both `remove_imports` violations. It does not say which new index is right, which needs the counting facts below. |

These hold for every value of the constants that satisfies the module's
assumptions: any arena size and field bound, any u32::MAX and usize::MAX
above u16::MAX, and any version numbers and identifiers. The `CoreNames`
proofs assume what WIT's kebab-case identifiers guarantee: no letter is a
`#` or a `|`, and no resource name is a `#` or a `.`. Check with
`tlapm <Module>_proofs.tla`.

Some things stay with TLC only:

- `Terminates`: it is liveness under fairness, which is beyond the prover here.
- `ResultMatchesReference`: the reference `FutsOf` is a recursive function
  over the arena, flattened with SequencesExt, which reaches a RECURSIVE
  operator. Relating the order of `results` to it for every arena needs
  induction over the arena, which the provers here cannot instantiate.
- `CoreNames`' `TypeOK` and `RemoveImports`' `DefinedRefsRemapped`.
  - `TypeOK` bounds the number of exports. Its step needs
    `Cardinality(S \cup {x}) <= Cardinality(S) + 1`.
  - `DefinedRefsRemapped` follows from `RenumberByDropCountThm` and two
    counting facts. With only function imports, `NumFuncImports = NImports`
    and the kept function imports number `Len(kept)`.
  - These are Cardinality facts. They rest on pigeonhole, which needs
    induction. The library's FiniteSetTheorems reaches a RECURSIVE operator
    through Functions and Folds. No installed prover instantiates the
    operator parameter of NaturalsInduction's theorems.

## Not modelled

- `crates/wit-encoder/src/resource.rs`, the resource builder. `Resource::func`
  pushes onto a `Vec`, and every `ResourceFunc` setter assigns one field. The
  exceptions are `set_name` and `set_result`, which panic on purpose on a
  `Constructor`. A `Constructor` has no name or result field. With no
  ordering, interleaving or bound involved, nothing there is out of reach of
  its unit tests.
- `Mangling::from_str` parses a command-line flag into the two-value enum
  and only formats an error otherwise. The prefixing of core names into the
  export names of a dummy module is in wit-component (not under `src/`).
- `Stability` is a derived order. Its gating is in resolve.rs, which is not
  under `src/`.
- The parser entry points, `Error`, `Display` impls, `interface_id`, and
  `WorldKey` into `String` only forward to the parser (not under `src/`) or
  build messages.
- The merge and link engine (`Resolve::push`, `merge`,
  `merge_world_imports_based_on_semver`) is not under `src/`. The track
  function it relies on is modelled.
- The fuzz driver (`run`, `roundtrip_through_printing`, `write_file`) calls
  the printer, parser, encoder and file system. It has no state of its own.
