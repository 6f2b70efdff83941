--------------------------- MODULE MCFaceProfile ----------------------------
(***************************************************************************)
(* Instances of FaceProfile for TLC.                                       *)
(***************************************************************************)
EXTENDS FaceProfile, TLC

CONSTANTS i1, i2, s1, s2

\* One photo of each grade, and a second good one.
GradeOf == ("anna" :> "good") @@ ("bert" :> "good") @@ ("dark" :> "poor")
               @@ ("wall" :> "faceless") @@ ("noise" :> "junk")
PhotoSet == DOMAIN GradeOf
Alike == Permutations({i1, i2}) \cup Permutations({s1, s2})
=============================================================================
