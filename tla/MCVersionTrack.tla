--------------------------- MODULE MCVersionTrack ---------------------------
(* Versions with numbers 0..2, so that every number is zero, the first     *)
(* non-zero one, or bumped past; one pre-release and one build string.     *)
EXTENDS VersionTrack

MCPres   == {Empty, "alpha"}
MCBuilds == {Empty, "b1"}
=============================================================================
