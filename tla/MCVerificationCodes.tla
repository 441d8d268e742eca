------------------------ MODULE MCVerificationCodes -------------------------
(* Small instances of VerificationCodes.                                   *)
EXTENDS VerificationCodes
CONSTANTS k1, k2, s1, s2, t1, t2
=============================================================================
