------------------------- MODULE VersionTrack_proofs -------------------------
(***************************************************************************)
(* Proofs about VersionTrack for all version numbers and all pre-release   *)
(* and build strings.                                                      *)
(***************************************************************************)
EXTENDS VersionTrack, TLAPS

(* The track of a version, field by field.                                 *)
TrackOf(a) ==
    [major |-> a.major,
     minor |-> IF a.pre # Empty \/ a.major = 0 THEN a.minor ELSE 0,
     patch |-> IF a.pre # Empty \/ (a.major = 0 /\ a.minor = 0) THEN a.patch ELSE 0,
     pre   |-> a.pre,
     build |-> Empty]

LEMMA TrackFields ==
    ASSUME NEW a \in Versions
    PROVE  VersionCompatTrack(a) = TrackOf(a)
<1>1. CASE a.pre # Empty
  BY <1>1 DEF VersionCompatTrack, TrackOf, Versions
<1>2. CASE a.pre = Empty /\ a.major # 0
  BY <1>2 DEF VersionCompatTrack, TrackOf, Versions
<1>3. CASE a.pre = Empty /\ a.major = 0 /\ a.minor # 0
  BY <1>3 DEF VersionCompatTrack, TrackOf, Versions
<1>4. CASE a.pre = Empty /\ a.major = 0 /\ a.minor = 0
  BY <1>4 DEF VersionCompatTrack, TrackOf, Versions
<1>5. QED
  BY <1>1, <1>2, <1>3, <1>4

(* Two tracks are equal when their fields are.                             *)
LEMMA TrackEq ==
    ASSUME NEW a \in Versions, NEW b \in Versions
    PROVE  (TrackOf(a) = TrackOf(b)) <=>
             /\ TrackOf(a).major = TrackOf(b).major
             /\ TrackOf(a).minor = TrackOf(b).minor
             /\ TrackOf(a).patch = TrackOf(b).patch
             /\ TrackOf(a).pre = TrackOf(b).pre
BY DEF TrackOf

(* Two versions share a track exactly when they are semver compatible.     *)
LEMMA TrackCompatible ==
    ASSUME NEW a \in Versions, NEW b \in Versions
    PROVE  (VersionCompatTrack(a) = VersionCompatTrack(b)) <=> Compatible(a, b)
<1>1. a.major \in Nat /\ a.minor \in Nat /\ a.patch \in Nat
      /\ b.major \in Nat /\ b.minor \in Nat /\ b.patch \in Nat
  BY DEF Versions
<1>2. (VersionCompatTrack(a) = VersionCompatTrack(b)) <=> (TrackOf(a) = TrackOf(b))
  BY TrackFields
<1>3. CASE a.pre # Empty \/ b.pre # Empty
  BY <1>2, <1>3, TrackEq DEF TrackOf, Compatible
<1>4. CASE a.pre = Empty /\ b.pre = Empty
  <2>1. Compatible(a, b) <=> IF Below(a, b) THEN InCaret(a, b) ELSE InCaret(b, a)
    BY <1>4 DEF Compatible
  <2>2. (TrackOf(a) = TrackOf(b)) <=>
          /\ a.major = b.major
          /\ (IF a.major = 0 THEN a.minor ELSE 0) = (IF b.major = 0 THEN b.minor ELSE 0)
          /\ (IF a.major = 0 /\ a.minor = 0 THEN a.patch ELSE 0)
               = (IF b.major = 0 /\ b.minor = 0 THEN b.patch ELSE 0)
    BY <1>4, TrackEq DEF TrackOf
  <2>3. CASE Below(a, b)
    <3>1. Compatible(a, b) <=> InCaret(a, b)
      BY <2>1, <2>3
    <3>2. QED
      BY <1>1, <1>2, <2>2, <2>3, <3>1 DEF InCaret, Below
  <2>4. CASE ~Below(a, b)
    <3>1. Compatible(a, b) <=> InCaret(b, a)
      BY <2>1, <2>4
    <3>2. QED
      BY <1>1, <1>2, <2>2, <2>4, <3>1 DEF InCaret, Below
  <2>5. QED
    BY <2>3, <2>4
<1>5. QED
  BY <1>3, <1>4

(* The track string of a version, as a tuple of its parts.                 *)
StringOf(a) ==
    IF a.pre # Empty THEN <<a.major, a.minor, a.patch, "-", a.pre>>
    ELSE IF a.major # 0 THEN <<a.major>>
    ELSE IF a.minor # 0 THEN <<0, a.minor>>
    ELSE <<0, 0, a.patch>>

LEMMA StringFields ==
    ASSUME NEW a \in Versions
    PROVE  VersionCompatTrackString(a) = StringOf(a)
<1> DEFINE t == VersionCompatTrack(a)
<1>1. /\ t.major = a.major /\ t.pre = a.pre /\ t.build = Empty
      /\ t.minor = (IF a.pre # Empty \/ a.major = 0 THEN a.minor ELSE 0)
      /\ t.patch = (IF a.pre # Empty \/ (a.major = 0 /\ a.minor = 0) THEN a.patch ELSE 0)
  <2>1. CASE a.pre # Empty
    BY <2>1 DEF VersionCompatTrack, Versions
  <2>2. CASE a.pre = Empty /\ a.major # 0
    BY <2>2 DEF VersionCompatTrack, Versions
  <2>3. CASE a.pre = Empty /\ a.major = 0 /\ a.minor # 0
    BY <2>3 DEF VersionCompatTrack, Versions
  <2>4. CASE a.pre = Empty /\ a.major = 0 /\ a.minor = 0
    BY <2>4 DEF VersionCompatTrack, Versions
  <2>5. QED
    BY <2>1, <2>2, <2>3, <2>4
<1>2. VersionCompatTrackString(a) =
        IF t.pre # Empty THEN VersionString(t)
        ELSE IF t.major # 0 THEN <<t.major>>
        ELSE IF t.minor # 0 THEN <<t.major, t.minor>>
        ELSE VersionString(t)
  BY DEF VersionCompatTrackString
<1>3. VersionString(t) = IF t.pre = Empty THEN <<t.major, t.minor, t.patch>>
                         ELSE <<t.major, t.minor, t.patch, "-", t.pre>>
  BY <1>1 DEF VersionString
<1>4. CASE a.pre # Empty
  BY <1>1, <1>2, <1>3, <1>4 DEF StringOf
<1>5. CASE a.pre = Empty /\ a.major # 0
  BY <1>1, <1>2, <1>5 DEF StringOf
<1>6. CASE a.pre = Empty /\ a.major = 0 /\ a.minor # 0
  BY <1>1, <1>2, <1>6 DEF StringOf
<1>7. CASE a.pre = Empty /\ a.major = 0 /\ a.minor = 0
  BY <1>1, <1>2, <1>3, <1>7 DEF StringOf
<1>8. QED
  BY <1>4, <1>5, <1>6, <1>7

(* Two versions get the same track string exactly when they share a track. *)
LEMMA TrackStringDistinct ==
    ASSUME NEW a \in Versions, NEW b \in Versions
    PROVE  (VersionCompatTrackString(a) = VersionCompatTrackString(b))
             <=> (VersionCompatTrack(a) = VersionCompatTrack(b))
<1>1. VersionCompatTrackString(a) = StringOf(a) /\ VersionCompatTrackString(b) = StringOf(b)
  BY StringFields
<1>2. VersionCompatTrack(a) = TrackOf(a) /\ VersionCompatTrack(b) = TrackOf(b)
  BY TrackFields
<1>3. (StringOf(a) = StringOf(b)) <=> (TrackOf(a) = TrackOf(b))
  BY TrackEq DEF StringOf, TrackOf, Versions
<1>4. QED
  BY <1>1, <1>2, <1>3

LEMMA AnswersInvariant ==
    Spec => [](/\ TypeOK
               /\ trackV = VersionCompatTrack(v) /\ trackW = VersionCompatTrack(w)
               /\ nameV = VersionCompatTrackString(v) /\ nameW = VersionCompatTrackString(w))
<1> DEFINE Inv == /\ TypeOK
                  /\ trackV = VersionCompatTrack(v) /\ trackW = VersionCompatTrack(w)
                  /\ nameV = VersionCompatTrackString(v) /\ nameW = VersionCompatTrackString(w)
<1>1. \A a \in Versions : VersionCompatTrack(a) \in Versions
  <2> SUFFICES ASSUME NEW a \in Versions PROVE TrackOf(a) \in Versions
    BY TrackFields
  <2>1. /\ a.major \in 0..MaxNum /\ a.minor \in 0..MaxNum /\ a.patch \in 0..MaxNum
        /\ a.pre \in Pres /\ Empty \in Builds /\ 0 \in 0..MaxNum
    BY VersionAssumption DEF Versions
  <2>2. /\ (IF a.pre # Empty \/ a.major = 0 THEN a.minor ELSE 0) \in 0..MaxNum
        /\ (IF a.pre # Empty \/ (a.major = 0 /\ a.minor = 0) THEN a.patch ELSE 0) \in 0..MaxNum
    BY <2>1, Zenon
  <2> QED
    BY <2>1, <2>2, Zenon DEF TrackOf, Versions
<1>2. Init => Inv
  BY <1>1 DEF Init, TypeOK
<1>3. Inv /\ [Next]_vars => Inv'
  BY <1>1 DEF Next, CallOnV, CallOnW, vars, TypeOK
<1>4. QED
  BY <1>2, <1>3, PTL DEF Spec

(* The invariant the steps keep: the answers are the functions' values.  *)
Answers ==
    /\ TypeOK
    /\ trackV = VersionCompatTrack(v) /\ trackW = VersionCompatTrack(w)
    /\ nameV = VersionCompatTrackString(v) /\ nameW = VersionCompatTrackString(w)

(* For every bound on the numbers and all pre-release and build strings,   *)
(* version_compat_track puts two versions on one track exactly when they   *)
(* are semver compatible.                                                  *)
THEOREM TrackIsCompatibilityThm == Spec => []TrackIsCompatibility
<1>1. Answers => TrackIsCompatibility
  BY TrackCompatible DEF Answers, TypeOK, TrackIsCompatibility
<1>2. QED
  BY <1>1, AnswersInvariant, PTL DEF Answers

(* Likewise, version_compat_track_string gives two versions one name       *)
(* exactly when they share a track.                                        *)
THEOREM TrackStringInjectiveThm == Spec => []TrackStringInjective
<1>1. Answers => TrackStringInjective
  BY TrackStringDistinct DEF Answers, TypeOK, TrackStringInjective
<1>2. QED
  BY <1>1, AnswersInvariant, PTL DEF Answers
=============================================================================
