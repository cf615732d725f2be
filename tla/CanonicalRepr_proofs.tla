------------------------- MODULE CanonicalRepr_proofs -------------------------
(***************************************************************************)
(* Proofs about CanonicalRepr for every value of u32::MAX, usize::MAX and  *)
(* every case and flag count.                                              *)
(***************************************************************************)
EXTENDS CanonicalRepr, TLAPS

(* What discriminant_type returns for n cases is the narrowest width that  *)
(* holds n - 1, or a panic when no u32 does.                               *)
LEMMA DiscriminantTypeCanonical ==
    ASSUME NEW n \in Nat
    PROVE  LET t == DiscriminantType(n) IN
           /\ t = "panic" <=> MaxDiscriminant(n) > U32Max
           /\ t # "panic" =>
                /\ MaxDiscriminant(n) <= IntMax(t)
                /\ \A u \in {"u8", "u16", "u32"} :
                     IntBits(u) < IntBits(t) => MaxDiscriminant(n) > IntMax(u)
BY ReprAssumption DEF DiscriminantType, MaxDiscriminant, IntMax, IntBits, U8Max, U16Max

(* The number of u32 words Flags::repr gives n > 16 flags is the least w   *)
(* with 32 * w >= n.                                                       *)
LEMMA AlignWords ==
    ASSUME NEW n \in Nat, n > 16
    PROVE  LET w == AlignTo(n, 32) \div 32 IN
           /\ w \in Nat
           /\ n <= 32 * w
           /\ \A k \in Nat : n <= 32 * k => w <= k
BY DEF AlignTo

(* Flags::repr gives every flag count a repr with room for its flags and   *)
(* no repr with room for them stores fewer bits.                           *)
LEMMA FlagsReprMinimal ==
    ASSUME NEW n \in Nat
    PROVE  LET r == FlagsRepr(n) IN
           /\ r \in FlagsReprs
           /\ n <= StorageBits(r)
           /\ \A c \in ReprChoices(n) : n <= StorageBits(c) => StorageBits(r) <= StorageBits(c)
<1>1. CASE n = 0
  BY <1>1 DEF FlagsRepr, FlagsReprs, StorageBits, Count, IntBits, ReprChoices
<1>2. CASE n \in 1..16
  BY <1>2 DEF FlagsRepr, FlagsReprs, StorageBits, Count, IntBits, ReprChoices
<1>3. CASE n > 16
  <2> DEFINE w == AlignTo(n, 32) \div 32
  <2>1. FlagsRepr(n) = [kind |-> "u32", words |-> w]
    BY <1>3 DEF FlagsRepr
  <2>2. w \in Nat /\ n <= 32 * w /\ \A k \in Nat : n <= 32 * k => w <= k
    BY <1>3, AlignWords
  <2>3. StorageBits(FlagsRepr(n)) = 32 * w
    BY <2>1, <2>2 DEF StorageBits, Count, IntBits
  <2>4. \A c \in ReprChoices(n) : n <= StorageBits(c) => 32 * w <= StorageBits(c)
    <3> SUFFICES ASSUME NEW c \in ReprChoices(n), n <= StorageBits(c)
                 PROVE  32 * w <= StorageBits(c)
      OBVIOUS
    <3>1. CASE c.kind \in {"u8", "u16"}
      BY <1>3, <3>1 DEF ReprChoices, StorageBits, Count, IntBits
    <3>2. CASE c.kind = "u32"
      <4>1. PICK k \in 0..n : c = [kind |-> "u32", words |-> k]
        BY <3>2 DEF ReprChoices
      <4>2. StorageBits(c) = 32 * k
        BY <4>1 DEF StorageBits, Count, IntBits
      <4>3. QED
        BY <2>2, <4>1, <4>2
    <3>3. QED
      BY <3>1, <3>2 DEF ReprChoices
  <2>5. QED
    BY <2>1, <2>2, <2>3, <2>4 DEF FlagsReprs
<1>4. QED
  BY <1>1, <1>2, <1>3

(* The answers in the state are the ones the functions give its inputs.    *)
IInv ==
    /\ TypeOK
    /\ tag = DiscriminantType(numCases)
    /\ repr = FlagsRepr(numFlags)

LEMMA AnswersInvariant == Spec => []IInv
<1>1. Init => IInv
  BY ReprAssumption, FlagsReprMinimal DEF Init, IInv, TypeOK, DiscriminantType, Ints
<1>2. IInv /\ [Next]_vars => IInv'
  <2> SUFFICES ASSUME IInv, [Next]_vars PROVE IInv'
    OBVIOUS
  <2>1. CASE \E n \in CaseCounts : Tag(n)
    BY <2>1, ReprAssumption DEF Tag, IInv, TypeOK, DiscriminantType, Ints
  <2>2. CASE \E n \in FlagCounts : Repr(n)
    BY <2>2, ReprAssumption, FlagsReprMinimal DEF Repr, IInv, TypeOK
  <2>3. CASE UNCHANGED vars
    BY <2>3 DEF vars, IInv, TypeOK
  <2>4. QED
    BY <2>1, <2>2, <2>3 DEF Next
<1>3. QED
  BY <1>1, <1>2, PTL DEF Spec

(* Every tag Variant::tag and Enum::tag compute is the narrowest width    *)
(* that holds the discriminants, and discriminant_type panics only when no *)
(* u32 does, for every width of u32 and usize.                             *)
THEOREM DiscriminantTypeThm == Spec => []DiscriminantIsCanonical
<1>1. IInv => DiscriminantIsCanonical
  <2> SUFFICES ASSUME IInv PROVE DiscriminantIsCanonical
    OBVIOUS
  <2>1. numCases \in Nat
    BY ReprAssumption DEF IInv, TypeOK
  <2> QED
    BY <2>1, DiscriminantTypeCanonical DEF IInv, DiscriminantIsCanonical
<1>2. QED
  BY <1>1, AnswersInvariant, PTL

(* Every repr Flags::repr computes has room for the flags and stores the   *)
(* fewest bits that do, for every flag count.                              *)
THEOREM FlagsReprThm == Spec => []FlagsReprCanonical
<1>1. IInv => FlagsReprCanonical
  <2> SUFFICES ASSUME IInv PROVE FlagsReprCanonical
    OBVIOUS
  <2>1. numFlags \in Nat
    BY ReprAssumption DEF IInv, TypeOK
  <2> QED
    BY <2>1, FlagsReprMinimal DEF IInv, FlagsReprCanonical
<1>2. QED
  BY <1>1, AnswersInvariant, PTL
=============================================================================
