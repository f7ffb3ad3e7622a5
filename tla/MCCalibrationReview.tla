------------------------ MODULE MCCalibrationReview ------------------------
(* Three people, one sample; the author writes one of two contents or empties *)
(* the sample again, and both contents pass the other audits.                 *)
EXTENDS CalibrationReview, TLC

CONSTANTS Ann, Bob, Cid, s1

MCPeople == {Ann, Bob, Cid}
MCSamples == {s1}
MCSymmetry == Permutations(MCPeople)
=============================================================================
