-------------------------- MODULE MCCanonicalRepr --------------------------
(* CanonicalRepr on the case and flag counts at every boundary of the      *)
(* choices: around 0, u8::MAX + 1, u16::MAX + 1 and a scaled u32::MAX + 1  *)
(* for cases, every count through three u32 words for flags.               *)
EXTENDS CanonicalRepr

MCU32Max   == 100000
MCUsizeMax == 100010

MCCaseCounts ==
    {0, 1, 2, 255, 256, 257, 258, 65535, 65536, 65537, 65538,
     MCU32Max, MCU32Max + 1, MCU32Max + 2}

MCFlagCounts == 0..97
=============================================================================
