---------------------------- MODULE QualityGate -----------------------------
(***************************************************************************)
(* services/quality_gate.py: the verdict on a photo, from its metrics.     *)
(* Metrics are integers on a coarse scale; T is GateThresholds.            *)
(***************************************************************************)
EXTENDS Integers, Sequences, SequencesExt

CONSTANT T

Thresholds == {"minSide", "maxSecond", "floorFaceSide", "minFaceSide", "floorBlur",
               "minBlur", "floorMinBright", "minBright", "maxBright",
               "floorMaxBright", "riskMaxYaw"}

\* The floors lie outside the clean-pass levels, as config.py sets them.
ASSUME GateThresholdsAssumption ==
    /\ T \in [Thresholds -> Nat]
    /\ T.floorFaceSide <= T.minFaceSide
    /\ T.floorBlur <= T.minBlur
    /\ T.floorMinBright <= T.minBright
    /\ T.minBright <= T.maxBright
    /\ T.maxBright <= T.floorMaxBright

OK == "ok"
Abs(n) == IF n < 0 THEN -n ELSE n
Below(a, b) == IF a < b THEN a ELSE b

\* The checks of a band in the order they are made, each a pair of a reason and
\* whether the photo fails it.
HardFailures(m) ==
    << <<"no_face", m.faces = 0>>,
       <<"multiple_faces", m.faces > 1 /\ m.second > T.maxSecond>>,
       <<"low_resolution", Below(m.width, m.height) < T.minSide>>,
       <<"face_too_small", m.faceSide < T.floorFaceSide>>,
       <<"blurry", m.blur < T.floorBlur>>,
       <<"poor_lighting", m.bright \notin T.floorMinBright..T.floorMaxBright>> >>

\* Mutant: the brightness window is measured from its lower edge only.
RisksOneSided(m) ==
    << <<"face_too_small", m.faceSide < T.minFaceSide>>,
       <<"blurry", m.blur < T.minBlur>>,
       <<"poor_lighting", m.bright < T.minBright>>,
       <<"extreme_pose", Abs(m.yaw) > T.riskMaxYaw>> >>

Risks(m) ==
    << <<"face_too_small", m.faceSide < T.minFaceSide>>,
       <<"blurry", m.blur < T.minBlur>>,
       <<"poor_lighting", m.bright \notin T.minBright..T.maxBright>>,
       <<"extreme_pose", Abs(m.yaw) > T.riskMaxYaw>> >>

\* The first failing check names the reason.
FirstFailing(checks) ==
    LET first == SelectInSeq(checks, LAMBDA check : check[2])
    IN  IF first = 0 THEN OK ELSE checks[first][1]

Evaluate(m) ==
    LET hard == FirstFailing(HardFailures(m))
        risk == FirstFailing(Risks(m))
    IN  CASE hard # OK -> [verdict |-> "below_floor", reason |-> hard]
          [] hard = OK /\ risk # OK -> [verdict |-> "soft", reason |-> risk]
          [] OTHER -> [verdict |-> "passed", reason |-> OK]
=============================================================================
