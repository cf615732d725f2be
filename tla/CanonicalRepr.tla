--------------------------- MODULE CanonicalRepr ----------------------------
(***************************************************************************)
(* The representation choices of the canonical ABI made in                 *)
(* crates/wit-parser/src/lib.rs: discriminant_type, used by Variant::tag   *)
(* and Enum::tag, and Flags::repr with FlagsRepr::count.                   *)
(*                                                                         *)
(* A consumer asks for the tag of a variant or enum with some number of    *)
(* cases, or for the representation of a flags type with some number of    *)
(* flags; each query is one step.  The state holds the last input and the  *)
(* answer.  A variant or enum is only its case count and a flags type its  *)
(* flag count: names and docs play no part in the choice.                  *)
(*                                                                         *)
(* u8::MAX and u16::MAX are the literals below.  u32::MAX and usize::MAX   *)
(* are the constants U32Max and UsizeMax, as TLC cannot hold 2^32 - 1; the *)
(* proofs hold for every value the assumption allows, the real ones        *)
(* included.                                                               *)
(***************************************************************************)
EXTENDS Naturals

CONSTANTS
    U32Max,      \* u32::max_value()
    UsizeMax,    \* usize::MAX, the largest case or flag count
    CaseCounts,  \* the case counts of the variants and enums queried
    FlagCounts   \* the flag counts of the flags types queried

U8Max  == 255
U16Max == 65535

ASSUME ReprAssumption ==
    /\ U32Max \in Nat /\ U16Max < U32Max
    /\ UsizeMax \in Nat /\ U32Max < UsizeMax
    /\ CaseCounts \subseteq 0..UsizeMax /\ CaseCounts # {}
    /\ FlagCounts \subseteq 0..UsizeMax /\ FlagCounts # {}

(* enum Int; "panic" is the outcome of the last arm of discriminant_type.  *)
Ints == {"u8", "u16", "u32", "u64"}

IntMax(t) ==
    IF t = "u8" THEN U8Max ELSE IF t = "u16" THEN U16Max ELSE U32Max

IntBits(t) ==
    IF t = "u8" THEN 8 ELSE IF t = "u16" THEN 16 ELSE IF t = "u32" THEN 32 ELSE 64

(* discriminant_type(num_cases): num_cases.checked_sub(1) then the widths  *)
(* in order.                                                               *)
DiscriminantTypeOffByOne(n) ==
    IF n = 0 THEN "u8"
    ELSE IF n <= U8Max THEN "u8"
    ELSE IF n - 1 <= U16Max THEN "u16"
    ELSE IF n - 1 <= U32Max THEN "u32"
    ELSE "panic"

DiscriminantType(n) ==
    IF n = 0 THEN "u8"
    ELSE IF n - 1 <= U8Max THEN "u8"
    ELSE IF n - 1 <= U16Max THEN "u16"
    ELSE IF n - 1 <= U32Max THEN "u32"
    ELSE "panic"

(* sizealign::align_to(n, align): n rounded up to a multiple of align.     *)
AlignTo(n, align) == ((n + align - 1) \div align) * align

(* FlagsRepr: U8, U16 or U32(words); words is 0 for U8 and U16.            *)
FlagsReprs == [kind : {"u8", "u16"}, words : {0}] \cup [kind : {"u32"}, words : Nat]

FlagsReprWide(n) ==
    IF n = 0 THEN [kind |-> "u32", words |-> 0]
    ELSE IF n <= 8 THEN [kind |-> "u8", words |-> 0]
    ELSE IF n <= 32 THEN [kind |-> "u16", words |-> 0]
    ELSE [kind |-> "u32", words |-> AlignTo(n, 32) \div 32]

(* Flags::repr, on the number of flags.                                    *)
FlagsRepr(n) ==
    IF n = 0 THEN [kind |-> "u32", words |-> 0]
    ELSE IF n <= 8 THEN [kind |-> "u8", words |-> 0]
    ELSE IF n <= 16 THEN [kind |-> "u16", words |-> 0]
    ELSE [kind |-> "u32", words |-> AlignTo(n, 32) \div 32]

(* FlagsRepr::count: how many integers of the repr's width hold the flags. *)
Count(r) == IF r.kind \in {"u8", "u16"} THEN 1 ELSE r.words

VARIABLES
    numCases,  \* self.cases.len() of the last variant or enum queried
    tag,       \* what its tag() returned
    numFlags,  \* self.flags.len() of the last flags type queried
    repr       \* what its repr() returned

vars == <<numCases, tag, numFlags, repr>>

Init ==
    /\ numCases \in CaseCounts /\ tag = DiscriminantType(numCases)
    /\ numFlags \in FlagCounts /\ repr = FlagsRepr(numFlags)

(* Variant::tag or Enum::tag; a panic ends the program.                    *)
Tag(n) ==
    /\ tag # "panic"
    /\ numCases' = n
    /\ tag' = DiscriminantType(n)
    /\ UNCHANGED <<numFlags, repr>>

(* Flags::repr.                                                            *)
Repr(n) ==
    /\ tag # "panic"
    /\ numFlags' = n
    /\ repr' = FlagsRepr(n)
    /\ UNCHANGED <<numCases, tag>>

Next ==
    \/ \E n \in CaseCounts : Tag(n)
    \/ \E n \in FlagCounts : Repr(n)

Spec == Init /\ [][Next]_vars

-----------------------------------------------------------------------------

(* Type invariant. *)
TypeOK ==
    /\ numCases \in CaseCounts /\ tag \in Ints \cup {"panic"}
    /\ numFlags \in FlagCounts /\ repr \in FlagsReprs

(* The largest discriminant of n cases (0 when there are none).            *)
MaxDiscriminant(n) == IF n = 0 THEN 0 ELSE n - 1

(* The tag of a variant or enum is the narrowest integer that holds every  *)
(* discriminant 0..n-1 of its cases (so 256 cases still fit a u8), and     *)
(* discriminant_type panics exactly when not even a u32 holds them.        *)
DiscriminantIsCanonical ==
    /\ tag = "panic" <=> MaxDiscriminant(numCases) > U32Max
    /\ tag # "panic" =>
         /\ MaxDiscriminant(numCases) <= IntMax(tag)
         /\ \A t \in {"u8", "u16", "u32"} :
              IntBits(t) < IntBits(tag) => MaxDiscriminant(numCases) > IntMax(t)

(* How many bits a flags repr stores: count() integers of its width.       *)
StorageBits(r) == Count(r) * IntBits(r.kind)

(* Every repr the canonical ABI could give n flags: u8, u16, or any number *)
(* of u32 words up to one per flag.                                        *)
ReprChoices(n) ==
    {[kind |-> "u8", words |-> 0], [kind |-> "u16", words |-> 0]}
      \cup {[kind |-> "u32", words |-> k] : k \in 0..n}

(* The repr of a flags type has room for all of its flags, and no repr     *)
(* with room for them stores fewer bits: 17 flags take one u32 and 33 take *)
(* two.                                                                    *)
FlagsReprCanonical ==
    /\ numFlags <= StorageBits(repr)
    /\ \A r \in ReprChoices(numFlags) :
         numFlags <= StorageBits(r) => StorageBits(repr) <= StorageBits(r)

=============================================================================
