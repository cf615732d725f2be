---------------------------- MODULE VersionTrack ----------------------------
(***************************************************************************)
(* PackageName::version_compat_track and version_compat_track_string       *)
(* (crates/wit-parser/src/lib.rs).  Two versions of a package are merged   *)
(* or matched as one import when their tracks are equal, and the track     *)
(* string is the version that appears in the import name.                  *)
(*                                                                         *)
(* A semver Version is its three numbers, its pre-release (Empty for      *)
(* none) and its build metadata (likewise).  A string is the    *)
(* sequence of the parts Display writes with the dots left out: a number   *)
(* prints as itself, "-" and the pre-release follow when it is not empty,  *)
(* "+" and the build when that is not.                                     *)
(*                                                                         *)
(* A consumer compares two versions; each step calls both functions on a   *)
(* new one of the two.                                                      *)
(***************************************************************************)
EXTENDS Naturals, Sequences

CONSTANTS
    MaxNum,   \* largest major, minor and patch number of the versions
    Empty,    \* Prerelease::EMPTY and BuildMetadata::EMPTY
    Pres,     \* pre-release identifiers, Empty among them
    Builds    \* build metadata identifiers, Empty among them

ASSUME VersionAssumption ==
    /\ MaxNum \in Nat
    /\ Empty \in Pres /\ Empty \in Builds

Versions ==
    [major : 0..MaxNum, minor : 0..MaxNum, patch : 0..MaxNum,
     pre : Pres, build : Builds]

(* version.to_string(). *)
VersionString(x) ==
    CASE x.pre = Empty /\ x.build = Empty -> <<x.major, x.minor, x.patch>>
      [] x.pre # Empty /\ x.build = Empty -> <<x.major, x.minor, x.patch, "-", x.pre>>
      [] x.pre = Empty /\ x.build # Empty -> <<x.major, x.minor, x.patch, "+", x.build>>
      [] OTHER -> <<x.major, x.minor, x.patch, "-", x.pre, "+", x.build>>

VersionCompatTrackKeepPatch(version) ==
    LET u == [version EXCEPT !.build = Empty] IN
    IF u.pre # Empty THEN u
    ELSE IF u.major # 0 THEN [u EXCEPT !.minor = 0, !.patch = 0]
    ELSE u

(* The build is dropped; a pre-release is its own track; else the first    *)
(* non-zero number and those before it are kept and the rest zeroed.       *)
VersionCompatTrack(version) ==
    LET u == [version EXCEPT !.build = Empty] IN
    IF u.pre # Empty THEN u
    ELSE IF u.major # 0 THEN [u EXCEPT !.minor = 0, !.patch = 0]
    ELSE IF u.minor # 0 THEN [u EXCEPT !.patch = 0]
    ELSE u

VersionCompatTrackStringMajorOnly(version) ==
    LET t == VersionCompatTrack(version) IN
    IF t.pre # Empty THEN VersionString(t)
    ELSE IF t.major # 0 \/ t.minor # 0 THEN <<t.major>>
    ELSE VersionString(t)

(* The track written as "major", "major.minor" or the whole version.       *)
VersionCompatTrackString(version) ==
    LET t == VersionCompatTrack(version) IN
    IF t.pre # Empty THEN VersionString(t)
    ELSE IF t.major # 0 THEN <<t.major>>
    ELSE IF t.minor # 0 THEN <<t.major, t.minor>>
    ELSE VersionString(t)

VARIABLES
    v, w,              \* the two versions compared
    trackV, trackW,    \* their version_compat_track
    nameV, nameW       \* their version_compat_track_string

vars == <<v, w, trackV, trackW, nameV, nameW>>

(* The first version of the comparison is replaced by a and goes through  *)
(* both functions.                                                         *)
CallOnV(a) ==
    /\ v' = a
    /\ trackV' = VersionCompatTrack(a)
    /\ nameV' = VersionCompatTrackString(a)
    /\ UNCHANGED <<w, trackW, nameW>>

(* Likewise for the second version.                                        *)
CallOnW(b) ==
    /\ w' = b
    /\ trackW' = VersionCompatTrack(b)
    /\ nameW' = VersionCompatTrackString(b)
    /\ UNCHANGED <<v, trackV, nameV>>

Init ==
    /\ v \in Versions /\ w \in Versions
    /\ trackV = VersionCompatTrack(v) /\ trackW = VersionCompatTrack(w)
    /\ nameV = VersionCompatTrackString(v) /\ nameW = VersionCompatTrackString(w)

Next == \E a \in Versions : CallOnV(a) \/ CallOnW(a)

Spec == Init /\ [][Next]_vars

-----------------------------------------------------------------------------

(* Type invariant. *)
TypeOK == v \in Versions /\ w \in Versions /\ trackV \in Versions /\ trackW \in Versions

(* Semver precedence of the numbers (build metadata plays no part).        *)
Below(a, b) ==
    \/ a.major < b.major
    \/ a.major = b.major /\ a.minor < b.minor
    \/ a.major = b.major /\ a.minor = b.minor /\ a.patch < b.patch

(* b lies in the caret range ^a of a release a: at least a and below the   *)
(* next bump of the first non-zero number of a.                            *)
InCaret(a, b) ==
    /\ ~Below(b, a)
    /\ IF a.major # 0 THEN b.major = a.major
       ELSE IF a.minor # 0 THEN b.major = 0 /\ b.minor = a.minor
       ELSE b.major = 0 /\ b.minor = 0 /\ b.patch = a.patch

(* The semver compatibility rule of the component model: releases are      *)
(* compatible when the later is in the caret range of the earlier, a       *)
(* pre-release only with itself, build metadata ignored.                   *)
Compatible(a, b) ==
    IF a.pre # Empty \/ b.pre # Empty
    THEN a.major = b.major /\ a.minor = b.minor /\ a.patch = b.patch /\ a.pre = b.pre
    ELSE IF Below(a, b) THEN InCaret(a, b) ELSE InCaret(b, a)

(* version_compat_track puts two versions on one track exactly when they   *)
(* are semver compatible: 1.2.0 and 1.2.9 merge, 0.1.0 and 0.2.0 do not.   *)
TrackIsCompatibility == (trackV = trackW) <=> Compatible(v, w)

(* The import names built from version_compat_track_string tell tracks     *)
(* apart: two versions get the same name exactly when they share a track,  *)
(* so no import of one track is taken for an import of another.            *)
TrackStringInjective == (nameV = nameW) <=> (trackV = trackW)

=============================================================================
