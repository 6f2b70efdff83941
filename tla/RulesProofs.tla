----------------------------- MODULE RulesProofs ----------------------------
(***************************************************************************)
(* The rules of MCRules, for every table of thresholds, prices and         *)
(* regions, every preset library and every input of the rule's type        *)
(* (briefs, plans, answers, chains and inventories of any length), not     *)
(* only for the inputs TLC enumerates.                                     *)
(***************************************************************************)
EXTENDS MCRules, FiniteSetTheorems, WellFoundedInduction, TLAPS

-----------------------------------------------------------------------------
(* Induction, in a form that needs no operator as a parameter.             *)

\* Every non-empty set of naturals has a least element.
LEMMA LeastExists ==
  ASSUME NEW S, S \subseteq Nat, S # {}
  PROVE  \E x \in S : \A y \in S : x <= y
<1> DEFINE R == OpToRel(<, Nat)
<1>1. IsWellFoundedOn(R, Nat) BY NatLessThanWellFounded
<1>2. PICK x \in S : \A y \in S : ~(<<y, x>> \in R)
  <2> HIDE DEF R
  <2> QED BY <1>1, WFMin
<1>3. ASSUME NEW y \in S, y < x PROVE FALSE
  <2>1. <<y, x>> \in R BY <1>3 DEF OpToRel
  <2> QED BY <2>1, <1>2
<1>4. \A y \in S : x \in Nat /\ y \in Nat /\ ~(y < x) BY <1>3
<1> QED BY <1>4

\* A set that holds 0 and with every number the next one holds all.
LEMMA NatSetInduction ==
  ASSUME NEW S, 0 \in S, \A n \in Nat : n \in S => n + 1 \in S
  PROVE  Nat \subseteq S
<1> DEFINE T1 == Nat \ S
<1> SUFFICES ASSUME T1 # {} PROVE FALSE OBVIOUS
<1>1. PICK x \in T1 : \A y \in T1 : x <= y
  <2>1. T1 \subseteq Nat OBVIOUS
  <2> HIDE DEF T1
  <2> QED BY <2>1, LeastExists
<1>2. x - 1 \in T1 OBVIOUS
<1> QED BY <1>1, <1>2

\* Min is the least element of a non-empty set of naturals.
LEMMA MinFacts ==
  ASSUME NEW S, S \subseteq Nat, S # {}
  PROVE  Min(S) \in S /\ \A y \in S : Min(S) <= y
  BY LeastExists DEF Min

-----------------------------------------------------------------------------
(* The quality gate.                                                       *)

\* FaceMetrics: what the detector measures.
Metrics == [faces : Nat, second : Nat, width : Nat, height : Nat, faceSide : Nat,
            blur : Nat, bright : Nat, yaw : Int]

AllPass(checks, n) == \A i \in 1..n : ~checks[i][2]
FailsFirst(checks, n, k) == checks[k][2] /\ \A i \in 1..n : i < k => ~checks[i][2]

\* FirstFailing names the first check of the list that fails, and none if none does.
LEMMA FirstFailingFacts ==
  ASSUME NEW n \in Nat, NEW checks, Len(checks) = n
  PROVE  \/ AllPass(checks, n) /\ FirstFailing(checks) = OK
         \/ \E k \in 1..n : /\ FailsFirst(checks, n, k)
                            /\ FirstFailing(checks) = checks[k][1]
<1> DEFINE I == {i \in 1..Len(checks) : checks[i][2]}
           first == IF I # {} THEN Min(I) ELSE 0
<1>1. FirstFailing(checks) = IF first = 0 THEN OK ELSE checks[first][1]
  BY DEF FirstFailing, SelectInSeq
<1>2. CASE I = {}
  BY <1>1, <1>2 DEF AllPass
<1>3. CASE I # {}
  <2>1. I \subseteq Nat OBVIOUS
  <2>2. Min(I) \in I /\ \A y \in I : Min(I) <= y
    <3> HIDE DEF I
    <3> QED BY <1>3, <2>1, MinFacts
  <2>3. PICK k \in I : k = Min(I) /\ \A y \in I : k <= y BY <2>2
  <2>4. k \in 1..n /\ checks[k][2] OBVIOUS
  <2>5. FirstFailing(checks) = checks[k][1] BY <1>1, <1>3, <2>3, <2>4
  <2>6. \A i \in 1..n : i < k => ~checks[i][2] BY <2>3, <2>4
  <2> QED BY <2>4, <2>5, <2>6 DEF FailsFirst
<1> QED BY <1>2, <1>3

WorstMark(marks) == Max({marks[i][2] : i \in DOMAIN marks})
FirstWith(marks, w) == Min({i \in DOMAIN marks : marks[i][2] = w})
WorstAt(marks, n, w, k) ==
    /\ DOMAIN marks = 1..n
    /\ marks[k][2] = w
    /\ \A i \in 1..n : marks[i][2] \in Nat /\ marks[i][2] <= w
    /\ \A i \in 1..n : i < k => marks[i][2] # w

\* The worst mark of a list of marks, and the first that has it.
LEMMA WorstFacts ==
  ASSUME NEW n \in Nat, NEW marks, NEW w \in Nat, NEW k \in 1..n,
         WorstAt(marks, n, w, k)
  PROVE  WorstMark(marks) = w /\ FirstWith(marks, w) = k
<1> DEFINE S == {marks[i][2] : i \in DOMAIN marks}
           I == {i \in DOMAIN marks : marks[i][2] = w}
<1>1. w \in S /\ \A x \in S : x \in Nat /\ w >= x BY DEF WorstAt
<1>2. Max(S) = w
  <2> HIDE DEF S
  <2>1. \A x \in S : (\A y \in S : x >= y) => x = w BY <1>1
  <2> QED BY <1>1, <2>1 DEF Max
<1>3. k \in I /\ \A x \in I : x \in Nat /\ k <= x BY DEF WorstAt
<1>4. Min(I) = k
  <2> HIDE DEF I
  <2>1. \A x \in I : (\A y \in I : x <= y) => x = k BY <1>3
  <2> QED BY <1>3, <2>1 DEF Min
<1> QED BY <1>2, <1>4 DEF WorstMark, FirstWith

\* How the marks of the reference relate to the checks of the code.
LEMMA RatingFacts ==
  ASSUME NEW m \in Metrics
  PROVE  /\ DOMAIN Rating(m) = 1..7
         /\ Len(HardFailures(m)) = 6 /\ Len(Risks(m)) = 4
         /\ \A i \in 1..7 : Rating(m)[i][2] \in 1..3
         /\ \A i \in 1..6 : /\ Rating(m)[i][2] = 3 <=> HardFailures(m)[i][2]
                            /\ Rating(m)[i][1] = HardFailures(m)[i][1]
                            /\ HardFailures(m)[i][1] # OK
         /\ Rating(m)[7][2] # 3
         /\ \A i \in 1..3 : Rating(m)[i][2] # 2
         /\ \A i \in 1..4 : /\ Rating(m)[i + 3][1] = Risks(m)[i][1]
                            /\ Risks(m)[i][1] # OK
                            /\ Rating(m)[i + 3][2] = 2 => Risks(m)[i][2]
                            /\ Risks(m)[i][2] => Rating(m)[i + 3][2] # 1
<1>1. /\ m.faces \in Nat /\ m.second \in Nat /\ m.width \in Nat /\ m.height \in Nat
      /\ m.faceSide \in Nat /\ m.blur \in Nat /\ m.bright \in Nat /\ m.yaw \in Int
  BY DEF Metrics
<1>2. /\ T.minSide \in Nat /\ T.maxSecond \in Nat /\ T.floorFaceSide \in Nat
      /\ T.minFaceSide \in Nat /\ T.floorBlur \in Nat /\ T.minBlur \in Nat
      /\ T.floorMinBright \in Nat /\ T.minBright \in Nat /\ T.maxBright \in Nat
      /\ T.floorMaxBright \in Nat /\ T.riskMaxYaw \in Nat
  BY GateThresholdsAssumption DEF Thresholds
<1> DEFINE r == Rating(m)
           h == HardFailures(m)
           s == Risks(m)
<1>3. DOMAIN r = 1..7 /\ Len(h) = 6 /\ Len(s) = 4
  BY DEF Rating, HardFailures, Risks
<1>4. /\ r[1][2] \in {1, 3} /\ r[2][2] \in {1, 3} /\ r[3][2] \in {1, 3}
      /\ r[4][2] \in 1..3 /\ r[5][2] \in 1..3 /\ r[6][2] \in 1..3 /\ r[7][2] \in {1, 2}
  BY DEF Rating
<1>20. /\ h[1][2] <=> m.faces = 0
       /\ h[2][2] <=> (m.faces > 1 /\ m.second > T.maxSecond)
       /\ h[3][2] <=> Below(m.width, m.height) < T.minSide
       /\ h[4][2] <=> m.faceSide < T.floorFaceSide
       /\ h[5][2] <=> m.blur < T.floorBlur
       /\ h[6][2] <=> m.bright \notin T.floorMinBright..T.floorMaxBright
  BY Zenon DEF HardFailures
<1>21. /\ s[1][2] <=> m.faceSide < T.minFaceSide
       /\ s[2][2] <=> m.blur < T.minBlur
       /\ s[3][2] <=> m.bright \notin T.minBright..T.maxBright
       /\ s[4][2] <=> Abs(m.yaw) > T.riskMaxYaw
  BY Zenon DEF Risks
<1> HIDE DEF h, s
<1>5. /\ r[1][2] = 3 <=> h[1][2]
      /\ r[2][2] = 3 <=> h[2][2]
  BY <1>20 DEF Rating
<1>6. r[3][2] = 3 <=> h[3][2]
  BY <1>1, <1>2, <1>20 DEF Rating, Below
<1>7. /\ r[4][2] = 3 <=> h[4][2]
      /\ r[5][2] = 3 <=> h[5][2]
  BY <1>20 DEF Rating
<1>8. r[6][2] = 3 <=> h[6][2]
  BY <1>1, <1>2, <1>20 DEF Rating
<1>9. /\ r[1][1] = h[1][1] /\ r[2][1] = h[2][1] /\ r[3][1] = h[3][1]
      /\ r[4][1] = h[4][1] /\ r[5][1] = h[5][1] /\ r[6][1] = h[6][1]
      /\ h[1][1] # OK /\ h[2][1] # OK /\ h[3][1] # OK
      /\ h[4][1] # OK /\ h[5][1] # OK /\ h[6][1] # OK
  BY DEF Rating, HardFailures, OK, h
<1>10. /\ r[4][1] = s[1][1] /\ r[5][1] = s[2][1] /\ r[6][1] = s[3][1] /\ r[7][1] = s[4][1]
       /\ s[1][1] # OK /\ s[2][1] # OK /\ s[3][1] # OK /\ s[4][1] # OK
  BY DEF Rating, Risks, OK, s
<1>11. /\ r[4][2] = 2 => s[1][2]
       /\ s[1][2] => r[4][2] # 1
       /\ r[5][2] = 2 => s[2][2]
       /\ s[2][2] => r[5][2] # 1
  BY <1>21 DEF Rating
<1>12. /\ r[6][2] = 2 => s[3][2]
       /\ s[3][2] => r[6][2] # 1
  BY <1>1, <1>2, <1>21 DEF Rating
<1>13. /\ r[7][2] = 2 => s[4][2]
       /\ s[4][2] => r[7][2] # 1
  BY <1>21 DEF Rating
<1> HIDE DEF r
<1>14. \A i \in 1..7 : r[i][2] \in 1..3
  <2>1. \A i \in 1..7 : i = 1 \/ i = 2 \/ i = 3 \/ i = 4 \/ i = 5 \/ i = 6 \/ i = 7
    OBVIOUS
  <2> QED BY <2>1, <1>4
<1>15. \A i \in 1..6 : r[i][2] = 3 <=> h[i][2]
  <2>1. \A i \in 1..6 : i = 1 \/ i = 2 \/ i = 3 \/ i = 4 \/ i = 5 \/ i = 6 OBVIOUS
  <2> QED BY <2>1, <1>5, <1>6, <1>7, <1>8
<1>16. \A i \in 1..6 : r[i][1] = h[i][1] /\ h[i][1] # OK
  <2>1. \A i \in 1..6 : i = 1 \/ i = 2 \/ i = 3 \/ i = 4 \/ i = 5 \/ i = 6 OBVIOUS
  <2> QED BY <2>1, <1>9
<1>17. \A i \in 1..3 : r[i][2] # 2
  <2>1. \A i \in 1..3 : i = 1 \/ i = 2 \/ i = 3 OBVIOUS
  <2> QED BY <2>1, <1>4
<1>18. \A i \in 1..4 : /\ r[i + 3][1] = s[i][1] /\ s[i][1] # OK
                       /\ r[i + 3][2] = 2 => s[i][2]
                       /\ s[i][2] => r[i + 3][2] # 1
  <2>1. \A i \in 1..4 : \/ (i = 1 /\ i + 3 = 4) \/ (i = 2 /\ i + 3 = 5)
                        \/ (i = 3 /\ i + 3 = 6) \/ (i = 4 /\ i + 3 = 7)
    OBVIOUS
  <2> QED BY <2>1, <1>10, <1>11, <1>12, <1>13
<1> QED BY <1>3, <1>4, <1>14, <1>15, <1>16, <1>17, <1>18 DEF r, h, s

\* evaluate() gives every photo the worst band of its measurements and the most
\* fundamental reason for it, whatever the thresholds (quality_gate.py).
THEOREM GateVerdict ==
  ASSUME input.rule = "gate" => input.m \in Metrics
  PROVE  GateIsWorstBand
<1> SUFFICES ASSUME NEW m \in Metrics, m = input.m, NEW r, r = Rating(m),
                    NEW w, w = WorstMark(r), NEW f, f = FirstWith(r, w)
             PROVE  Evaluate(m) = [verdict |-> Bands[w],
                                   reason |-> IF w = 1 THEN OK ELSE r[f][1]]
  BY DEF GateIsWorstBand, WorstMark, FirstWith
<1>1. /\ DOMAIN r = 1..7
      /\ \A i \in 1..7 : r[i][2] \in 1..3
  BY RatingFacts
<1> DEFINE h == HardFailures(m)
           s == Risks(m)
<1>2. /\ \A i \in 1..6 : (r[i][2] = 3 <=> h[i][2]) /\ r[i][1] = h[i][1] /\ h[i][1] # OK
      /\ r[7][2] # 3
      /\ \A i \in 1..3 : r[i][2] # 2
      /\ \A i \in 1..4 : /\ r[i + 3][1] = s[i][1] /\ s[i][1] # OK
                         /\ r[i + 3][2] = 2 => s[i][2]
                         /\ s[i][2] => r[i + 3][2] # 1
  BY RatingFacts
<1>3. \/ AllPass(h, 6) /\ FirstFailing(h) = OK
      \/ \E k \in 1..6 : FailsFirst(h, 6, k) /\ FirstFailing(h) = h[k][1]
  <2>1. Len(h) = 6 BY RatingFacts
  <2> HIDE DEF h
  <2> QED BY ONLY <2>1, FirstFailingFacts
<1>4. \/ AllPass(s, 4) /\ FirstFailing(s) = OK
      \/ \E k \in 1..4 : FailsFirst(s, 4, k) /\ FirstFailing(s) = s[k][1]
  <2>1. Len(s) = 4 BY RatingFacts
  <2> HIDE DEF s
  <2> QED BY ONLY <2>1, FirstFailingFacts
<1>5. Evaluate(m) =
        CASE FirstFailing(h) # OK -> [verdict |-> "below_floor", reason |-> FirstFailing(h)]
          [] FirstFailing(h) = OK /\ FirstFailing(s) # OK ->
                [verdict |-> "soft", reason |-> FirstFailing(s)]
          [] OTHER -> [verdict |-> "passed", reason |-> OK]
  BY DEF Evaluate
<1>6. Bands[1] = "passed" /\ Bands[2] = "soft" /\ Bands[3] = "below_floor" BY DEF Bands
<1> HIDE DEF h, s
<1>7. CASE \E k \in 1..6 : FailsFirst(h, 6, k) /\ FirstFailing(h) = h[k][1]
  <2>1. PICK k \in 1..6 : /\ h[k][2]
                          /\ \A i \in 1..6 : i < k => ~h[i][2]
                          /\ FirstFailing(h) = h[k][1]
    BY <1>7 DEF FailsFirst
  <2>2. /\ k \in 1..7 /\ r[k][2] = 3
        /\ \A i \in 1..7 : r[i][2] \in Nat /\ r[i][2] <= 3
    BY <2>1, <1>1, <1>2
  <2>3. \A i \in 1..7 : i < k => r[i][2] # 3
    <3>1. \A i \in 1..7 : i < k => i \in 1..6 OBVIOUS
    <3> QED BY <3>1, <2>1, <1>2
  <2>4. w = 3 /\ f = k
    <3>1. DOMAIN r = 1..7 BY <1>1
    <3>2. WorstMark(r) = 3 /\ FirstWith(r, 3) = k
      <4>1. WorstAt(r, 7, 3, k) BY <3>1, <2>2, <2>3 DEF WorstAt
      <4>2. k \in 1..7 BY <2>2
      <4> QED BY <4>1, <4>2, WorstFacts
    <3> QED BY <3>2
  <2>5. FirstFailing(h) # OK /\ FirstFailing(h) = r[k][1] BY <2>1, <1>2
  <2> QED BY <2>4, <2>5, <1>5, <1>6
<1>8. CASE AllPass(h, 6) /\ FirstFailing(h) = OK
  <2>1. \A i \in 1..7 : r[i][2] \in 1..2
    <3>1. \A i \in 1..7 : i \in 1..6 \/ i = 7 OBVIOUS
    <3>2. \A i \in 1..7 : r[i][2] # 3 BY <3>1, <1>2, <1>8 DEF AllPass
    <3> QED BY <3>2, <1>1
  <2>2. \A i \in 1..4 : i + 3 \in 1..7 /\ (r[i + 3][2] = 2 <=> s[i][2])
    <3>1. \A i \in 1..4 : i + 3 \in 1..7 OBVIOUS
    <3>2. \A i \in 1..4 : r[i + 3][2] = 1 \/ r[i + 3][2] = 2 BY <3>1, <2>1
    <3> QED BY <3>1, <3>2, <1>2
  <2>3. \A i \in 1..7 : i \in 1..3 \/ (i - 3 \in 1..4 /\ i = (i - 3) + 3) OBVIOUS
  <2>4. CASE \E k \in 1..4 : FailsFirst(s, 4, k) /\ FirstFailing(s) = s[k][1]
    <3>1. PICK k \in 1..4 : /\ s[k][2]
                            /\ \A i \in 1..4 : i < k => ~s[i][2]
                            /\ FirstFailing(s) = s[k][1]
      BY <2>4 DEF FailsFirst
    <3>2. /\ k + 3 \in 1..7 /\ r[k + 3][2] = 2
          /\ \A i \in 1..7 : r[i][2] \in Nat /\ r[i][2] <= 2
      BY <3>1, <2>1, <2>2
    <3>3. ASSUME NEW i \in 1..7, i < k + 3 PROVE r[i][2] # 2
      <4>1. CASE i \in 1..3 BY <4>1, <1>2
      <4>2. CASE i \notin 1..3
        <5>1. i - 3 \in 1..4 /\ i = (i - 3) + 3 /\ i - 3 < k BY <4>2, <2>3, <3>3
        <5>2. ~s[i - 3][2] BY <5>1, <3>1
        <5> QED BY <5>1, <5>2, <2>2
      <4> QED BY <4>1, <4>2
    <3>4. w = 2 /\ f = k + 3
      <4>1. DOMAIN r = 1..7 BY <1>1
      <4>2. WorstMark(r) = 2 /\ FirstWith(r, 2) = k + 3
        <5>1. WorstAt(r, 7, 2, k + 3) BY <4>1, <3>2, <3>3 DEF WorstAt
        <5>2. k + 3 \in 1..7 BY <3>2
        <5> QED BY <5>1, <5>2, WorstFacts
      <4> QED BY <4>2
    <3>5. FirstFailing(s) # OK /\ FirstFailing(s) = r[k + 3][1] BY <3>1, <1>2
    <3> QED BY <3>4, <3>5, <1>5, <1>6, <1>8
  <2>5. CASE AllPass(s, 4) /\ FirstFailing(s) = OK
    <3>1. \A i \in 1..7 : r[i][2] # 2
      <4>1. ASSUME NEW i \in 1..7 PROVE r[i][2] # 2
        <5>1. CASE i \in 1..3 BY <5>1, <1>2
        <5>2. CASE i \notin 1..3
          <6>1. i - 3 \in 1..4 /\ i = (i - 3) + 3 BY <5>2, <2>3
          <6> QED BY <6>1, <2>2, <2>5 DEF AllPass
        <5> QED BY <5>1, <5>2
      <4> QED BY <4>1
    <3>2. \A i \in 1..7 : r[i][2] = 1 BY <3>1, <2>1
    <3>3. w = 1
      <4>1. \A i \in 1..7 : r[i][2] \in Nat /\ r[i][2] <= 1 BY <3>2
      <4>2. \A i \in 1..7 : i < 1 => r[i][2] # 1 OBVIOUS
      <4>3. 1 \in 1..7 /\ r[1][2] = 1 BY <3>2
      <4>4. DOMAIN r = 1..7 BY <1>1
      <4>5. WorstAt(r, 7, 1, 1) BY <4>1, <4>2, <4>3, <4>4 DEF WorstAt
      <4>6. WorstMark(r) = 1
        <5>1. 1 \in 1..7 OBVIOUS
        <5> QED BY ONLY <4>5, <5>1, WorstFacts
      <4> QED BY <4>6
    <3> QED BY <3>3, <2>5, <1>5, <1>6, <1>8
  <2> QED BY <2>4, <2>5, <1>4
<1> QED BY <1>3, <1>7, <1>8

-----------------------------------------------------------------------------
(* The preset library.                                                     *)

File == [id : Ids, uses : SUBSET Tokens]

\* Match returns the first preset that admits the use case, and none only if none
\* does.
LEMMA MatchFacts ==
  ASSUME NEW files \in Seq(File), NEW use
  PROVE  \/ /\ \A i \in DOMAIN files : ~Admits(files[i], use)
            /\ Match(files, use) = NoPreset
         \/ \E k \in DOMAIN files : /\ Admits(files[k], use)
                                    /\ \A j \in DOMAIN files : Admits(files[j], use) => k <= j
                                    /\ Match(files, use) = files[k].id
<1> DEFINE I == {i \in 1..Len(files) : Admits(files[i], use)}
           first == IF I # {} THEN Min(I) ELSE 0
<1>1. Match(files, use) = IF first = 0 THEN NoPreset ELSE files[first].id
  BY DEF Match, SelectInSeq
<1>2. DOMAIN files = 1..Len(files) /\ Len(files) \in Nat OBVIOUS
<1>3. CASE I = {}
  BY <1>1, <1>2, <1>3
<1>4. CASE I # {}
  <2>1. I \subseteq Nat BY <1>2
  <2>2. Min(I) \in I /\ \A y \in I : Min(I) <= y
    <3> HIDE DEF I
    <3> QED BY <1>4, <2>1, MinFacts
  <2>3. PICK k \in I : k = Min(I) BY <2>2
  <2>4. /\ k \in DOMAIN files /\ Admits(files[k], use) /\ k # 0
        /\ \A j \in DOMAIN files : Admits(files[j], use) => k <= j
    <3>1. \A j \in DOMAIN files : Admits(files[j], use) => j \in I BY <1>2
    <3> QED BY <1>2, <2>2, <2>3, <3>1
  <2>5. Match(files, use) = files[k].id BY <1>1, <1>4, <2>3, <2>4
  <2> QED BY <2>4, <2>5
<1> QED BY <1>3, <1>4

\* In every library that load_library accepts, a token listed in the catalogue leads
\* to the first listed preset that claims it or the wildcard, a token offered to
\* the classifier to a preset that claims it, and the fallback is reached by
\* falling through only (preset_matcher.py).
THEOREM UseCasesAlwaysResolve ==
  ASSUME input.rule = "library" => input.files \in Seq(File)
  PROVE  UseCasesResolve
<1> SUFFICES ASSUME input.rule = "library", Loaded,
                    NEW files \in Seq(File), files = input.files
             PROVE  UseCasesResolve
  BY DEF UseCasesResolve, FallbackIsLast, OfferedTokensMatch
<1>1. /\ \A i \in DOMAIN files : ReservedTokenOk(files[i])
      /\ input.source = "package" => \E i \in DOMAIN files : files[i].id = FallbackId
  BY DEF Loaded, Loads
<1>2. FallbackId \in Ids /\ NoPreset \notin Ids BY LibraryAssumption
<1>3. \A i \in DOMAIN files : files[i].id \in Ids /\ files[i].uses \subseteq Tokens
  <2>1. \A i \in DOMAIN files : files[i] \in File OBVIOUS
  <2> QED BY <2>1 DEF File
<1>4. ASSUME NEW use
      PROVE  /\ Match(files, use) # FallbackId
             /\ (\E i \in DOMAIN files : Admits(files[i], use)) =>
                    Match(files, use) # NoPreset
  <2>1. \A k \in DOMAIN files : Admits(files[k], use) => files[k].id # FallbackId
    BY <1>1 DEF Admits, ReservedTokenOk
  <2> QED BY <2>1, <1>2, <1>3, MatchFacts
<1>5. FallbackIsLast
  <2>1. ASSUME NEW use
        PROVE  /\ Match(files, use) # FallbackId
               /\ Resolve(files, use) = FallbackId => Match(files, use) = NoPreset
               /\ input.source = "package" => Resolve(files, use) # NoPreset
    BY <1>1, <1>2, <1>4 DEF Resolve, Fallback
  <2> QED BY <2>1 DEF FallbackIsLast
<1>6. \A i \in DOMAIN files : Catalogue(files)[i].fallback <=> files[i].id = FallbackId
  BY DEF Catalogue
<1>7. ASSUME NEW i \in DOMAIN files, NEW use
      PROVE  Admits(files[i], use) <=> ~Catalogue(files)[i].fallback /\ Claims(files[i], use)
  BY <1>1, <1>6 DEF Admits, Claims, ReservedTokenOk
<1> DEFINE listed == {i \in DOMAIN files : ~Catalogue(files)[i].fallback}
<1>8. ASSUME NEW i \in listed, NEW use, use \in Catalogue(files)[i].tokens
      PROVE  \E k \in listed : /\ k <= i /\ Claims(files[k], use)
                               /\ \A j \in listed : j < k => ~Claims(files[j], use)
                               /\ Match(files, use) = files[k].id
  <2>1. Admits(files[i], use)
    BY <1>7, <1>8 DEF Catalogue, Claims
  <2>2. PICK k \in DOMAIN files : /\ Admits(files[k], use)
                                  /\ \A j \in DOMAIN files : Admits(files[j], use) => k <= j
                                  /\ Match(files, use) = files[k].id
    BY <2>1, MatchFacts
  <2>3. k \in listed /\ Claims(files[k], use) /\ k <= i BY <1>7, <2>1, <2>2
  <2>4. ASSUME NEW j \in listed, j < k PROVE ~Claims(files[j], use)
    <3>1. j \in Int /\ k \in Int OBVIOUS
    <3>2. ~Admits(files[j], use) BY <2>2, <2>4, <3>1
    <3> QED BY <1>7, <3>2
  <2> QED BY <2>2, <2>3, <2>4
<1>9. ASSUME NEW use \in UseCaseTokens(files)
      PROVE  \E k \in DOMAIN files : Claims(files[k], use) /\ Resolve(files, use) = files[k].id
  <2>1. PICK i \in DOMAIN files : use \in files[i].uses BY DEF UseCaseTokens
  <2>2. Claims(files[i], use) BY <2>1 DEF Claims
  <2>3. CASE \E k \in DOMAIN files : Admits(files[k], use)
    <3>1. PICK k \in DOMAIN files : Admits(files[k], use) /\ Match(files, use) = files[k].id
      BY <2>3, MatchFacts
    <3>2. Match(files, use) # NoPreset BY <3>1, <1>2, <1>3
    <3> QED BY <3>1, <3>2, <1>7 DEF Resolve
  <2>4. CASE \A k \in DOMAIN files : ~Admits(files[k], use)
    <3>1. files[i].id = FallbackId BY <2>2, <2>4, <1>6, <1>7
    <3>2. Match(files, use) = NoPreset BY <2>4, MatchFacts
    <3>3. Resolve(files, use) = files[i].id BY <3>1, <3>2 DEF Resolve, Fallback
    <3> QED BY <2>2, <3>3
  <2> QED BY <2>3, <2>4
<1>10. OfferedTokensMatch BY <1>8, <1>9 DEF OfferedTokensMatch
<1> QED BY <1>5, <1>10 DEF UseCasesResolve

-----------------------------------------------------------------------------
(* The forecast.                                                           *)

\* Products and quotients.
LEMMA MulMonotone ==
  ASSUME NEW a \in Int, NEW b \in Int, NEW c \in Nat, a <= b
  PROVE  /\ a * c \in Int /\ b * c \in Int
         /\ a * c <= b * c
         /\ c * a \in Int /\ c * b \in Int
         /\ c * a <= c * b
  OBVIOUS

LEMMA QuotientFacts ==
  ASSUME NEW a \in Nat, NEW b \in Nat \ {0}
  PROVE  /\ a \div b \in Nat
         /\ (a \div b) * b \in Nat
         /\ (a \div b) * b <= a
         /\ a < ((a \div b) + 1) * b
  OBVIOUS

\* Rounding to hundredths, half to even and up.
LEMMA HalfEvenFacts ==
  ASSUME NEW a \in Nat, NEW b \in Nat, a <= b
  PROVE  /\ HalfEven(a, 100) \in Nat
         /\ HalfEven(a, 100) <= HalfEven(b, 100)
         /\ a >= 100 => HalfEven(a, 100) >= 1
  BY DEF HalfEven

LEMMA CeilFacts ==
  ASSUME NEW a \in Nat, NEW b \in Nat, a <= b, NEW d \in Nat \ {0}
  PROVE  /\ CeilDiv(a, d) \in Nat
         /\ CeilDiv(a, d) <= CeilDiv(b, d)
  BY DEF CeilDiv

LEMMA CeilHundredth ==
  ASSUME NEW x \in Nat, NEW y \in Nat, y >= 100 * x
  PROVE  CeilDiv(y, 100) >= x
  BY DEF CeilDiv


\* What a generation is expected to cost is a positive amount, its reservation
\* covers it, and neither shrinks as the prompt grows.
LEMMA PriceFacts ==
  ASSUME NEW chars \in Nat, NEW longer \in Nat, chars <= longer,
         NEW size \in DOMAIN OutputTokens, NEW detail \in DOMAIN InputTokens
  PROVE  /\ PredictGenerationCost(chars, size, detail) \in Nat \ {0}
         /\ GenerationReserve(chars, size, detail) \in Nat \ {0}
         /\ GenerationReserve(chars, size, detail) >= PredictGenerationCost(chars, size, detail)
         /\ GenerationReserve(chars, size, detail) <= GenerationReserve(longer, size, detail)
<1> DEFINE in(c) == CeilDiv(c, CharsPerToken) + InputTokens["auto"] + InputTokens[detail]
           rest == TextTokens * Rate.text + OutputTokens[size] * Rate.image
           total(c) == in(c) * Rate.input + rest
           cost(c) == PredictGenerationCost(c, size, detail)
<1>1. /\ Rate.input \in Nat /\ Rate.text \in Nat /\ Rate.image \in Nat
      /\ CharsPerToken \in Nat \ {0} /\ TextTokens \in Nat
      /\ Safety \in Nat /\ Safety >= 100
      /\ InputTokens["auto"] \in Nat /\ InputTokens[detail] \in Nat
      /\ OutputTokens[size] \in Nat /\ OutputTokens[size] * Rate.image >= 100
  BY PricingAssumption
<1>2. in(chars) \in Nat /\ in(longer) \in Nat /\ in(chars) <= in(longer)
  <2>1. /\ CeilDiv(chars, CharsPerToken) \in Nat /\ CeilDiv(longer, CharsPerToken) \in Nat
        /\ CeilDiv(chars, CharsPerToken) <= CeilDiv(longer, CharsPerToken)
    BY <1>1, CeilFacts
  <2> QED BY <2>1, <1>1
<1>3. rest \in Nat /\ rest >= 100
  <2>1. TextTokens * Rate.text \in Nat /\ OutputTokens[size] * Rate.image \in Nat BY <1>1
  <2> QED BY <2>1, <1>1
<1>4. total(chars) \in Nat /\ total(longer) \in Nat
        /\ total(chars) <= total(longer) /\ total(chars) >= 100
  <2> HIDE DEF in, rest
  <2>1. /\ in(chars) * Rate.input \in Nat /\ in(longer) * Rate.input \in Nat
        /\ in(chars) * Rate.input <= in(longer) * Rate.input
    BY <1>1, <1>2, MulMonotone
  <2> QED BY <2>1, <1>3
<1>5. /\ cost(chars) = HalfEven(total(chars), 100)
      /\ cost(longer) = HalfEven(total(longer), 100)
  <2>1. ASSUME NEW c \in {chars, longer}
        PROVE  cost(c) = HalfEven(total(c), 100)
    <3>1. in(c) * Rate.input \in Nat /\ TextTokens * Rate.text \in Nat
            /\ OutputTokens[size] * Rate.image \in Nat
      BY <1>1, <1>2
    <3>2. (in(c) * Rate.input + TextTokens * Rate.text) + OutputTokens[size] * Rate.image
            = total(c)
      <4> HIDE DEF in
      <4> QED BY <3>1
    <3> QED BY <3>2 DEF PredictGenerationCost
  <2> QED BY <2>1
<1> HIDE DEF total
<1>6. /\ cost(chars) \in Nat /\ cost(longer) \in Nat
      /\ cost(chars) >= 1 /\ cost(chars) <= cost(longer)
  <2>1. total(longer) >= total(longer) BY <1>4
  <2> QED BY <1>4, <1>5, <2>1, HalfEvenFacts
<1> HIDE DEF cost
<1>7. /\ cost(chars) * Safety \in Nat /\ cost(longer) * Safety \in Nat
      /\ cost(chars) * Safety >= 100 * cost(chars)
      /\ cost(chars) * Safety <= cost(longer) * Safety
  BY <1>1, <1>6, MulMonotone
<1>8. /\ GenerationReserve(chars, size, detail) = CeilDiv(cost(chars) * Safety, 100)
      /\ GenerationReserve(longer, size, detail) = CeilDiv(cost(longer) * Safety, 100)
  BY DEF GenerationReserve, cost
<1> DEFINE a == cost(chars) * Safety
           b == cost(longer) * Safety
<1>9. /\ CeilDiv(a, 100) \in Nat /\ CeilDiv(a, 100) >= cost(chars)
      /\ CeilDiv(a, 100) <= CeilDiv(b, 100)
  <2> HIDE DEF a, b
  <2> QED BY <1>6, <1>7, CeilFacts, CeilHundredth DEF a, b
<1> QED BY <1>6, <1>8, <1>9 DEF cost

\* The ledger of a chain: it starts with the overhead and grows by each cost.
LEMMA SpentFacts ==
  ASSUME NEW n \in Nat, NEW cost \in [1..n -> Nat]
  PROVE  /\ Spent(n, cost) \in [0..n -> Nat]
         /\ Spent(n, cost)[0] = SlotFill
         /\ \A i \in 1..n : Spent(n, cost)[i] = Spent(n, cost)[i - 1] + cost[i]
<1> DEFINE Adds(f, k) == /\ f \in [0..k -> Nat]
                         /\ f[0] = SlotFill
                         /\ \A i \in 1..k : f[i] = f[i - 1] + cost[i]
           Begun(k) == \E f : Adds(f, k)
           S == {k \in Nat : k <= n => Begun(k)}
<1>1. SlotFill \in Nat BY PricingAssumption
<1>2. 0 \in S
  <2>1. Adds([i \in 0..0 |-> SlotFill], 0) BY <1>1
  <2> QED BY <2>1
<1>3. ASSUME NEW k \in Nat, k \in S PROVE k + 1 \in S
  <2> SUFFICES ASSUME k + 1 <= n PROVE Begun(k + 1)
    <3> HIDE DEF Begun
    <3> QED OBVIOUS
  <2>0. Begun(k)
    <3> HIDE DEF Begun
    <3>1. k <= n OBVIOUS
    <3> QED BY <1>3, <3>1
  <2>1. PICK f : Adds(f, k) BY <2>0
  <2> DEFINE g == [i \in 0..(k + 1) |-> IF i = k + 1 THEN f[k] + cost[k + 1] ELSE f[i]]
  <2>2. f[k] \in Nat /\ cost[k + 1] \in Nat BY <2>1
  <2>3. g \in [0..(k + 1) -> Nat] BY <2>1, <2>2
  <2>4. g[0] = SlotFill BY <2>1
  <2>5. ASSUME NEW i \in 1..(k + 1) PROVE g[i] = g[i - 1] + cost[i]
    <3>1. i - 1 \in 0..k /\ i - 1 # k + 1 /\ i \in 0..(k + 1) OBVIOUS
    <3>2. g[i - 1] = f[i - 1] BY <3>1
    <3>3. CASE i = k + 1 BY <3>1, <3>2, <3>3
    <3>4. CASE i # k + 1
      <4>1. i \in 1..k BY <3>4
      <4>2. g[i] = f[i] BY <3>1, <3>4
      <4> QED BY <4>1, <4>2, <3>2, <2>1
    <3> QED BY <3>3, <3>4
  <2>6. Adds(g, k + 1) BY <2>3, <2>4, <2>5
  <2> QED BY <2>6
<1>4. n \in S
  <2> HIDE DEF S
  <2> QED BY <1>2, <1>3, NatSetInduction
<1>5. PICK f : Adds(f, n) BY <1>4
<1>6. f = [i \in 0..n |-> IF i = 0 THEN SlotFill ELSE f[i - 1] + cost[i]]
  <2>1. \A i \in 0..n : f[i] = IF i = 0 THEN SlotFill ELSE f[i - 1] + cost[i]
    <3>1. \A i \in 0..n : i = 0 \/ i \in 1..n OBVIOUS
    <3> QED BY <3>1, <1>5
  <2> QED BY <2>1, <1>5
<1> DEFINE s == Spent(n, cost)
<1>7. s = [i \in 0..n |-> IF i = 0 THEN SlotFill ELSE s[i - 1] + cost[i]]
  BY <1>6 DEF Spent
<1> HIDE DEF s
<1>8. /\ DOMAIN s = 0..n
      /\ s[0] = SlotFill
      /\ \A i \in 1..n : s[i] = s[i - 1] + cost[i]
  BY <1>7
<1> DEFINE P == {k \in Nat : k <= n => s[k] \in Nat}
<1>9. n \in P /\ Nat \subseteq P
  <2>1. 0 \in P BY <1>1, <1>8
  <2>2. ASSUME NEW k \in Nat, k \in P PROVE k + 1 \in P
    <3>1. k + 1 <= n => /\ k + 1 \in 1..n
                        /\ s[k + 1] = s[k] + cost[k + 1]
                        /\ s[k] \in Nat /\ cost[k + 1] \in Nat
      <4>1. (k + 1) - 1 = k OBVIOUS
      <4> QED BY <4>1, <1>8, <2>2
    <3> QED BY <3>1
  <2> HIDE DEF P
  <2> QED BY <2>1, <2>2, NatSetInduction
<1>10. s \in [0..n -> Nat]
  <2>1. \A i \in 0..n : s[i] \in Nat BY <1>9
  <2> QED BY <2>1, <1>7
<1> QED BY <1>8, <1>10 DEF s

Within(cost, n, step) == \A i \in 1..(n - 1) : cost[i] <= step
Exactly(cost, n, step) == \A i \in 1..(n - 1) : cost[i] = step

\* Costs up to a step's reservation add up to that many reservations at most, and
\* costs at the reservation to exactly as many.
LEMMA SpentBounds ==
  ASSUME NEW n \in Nat \ {0}, NEW cost \in [1..n -> Nat], NEW step \in Nat,
         Within(cost, n, step)
  PROVE  \A i \in 0..(n - 1) : /\ Spent(n, cost)[i] \in Nat /\ i * step \in Nat
                               /\ Spent(n, cost)[i] <= SlotFill + i * step
                               /\ Exactly(cost, n, step) =>
                                     Spent(n, cost)[i] = SlotFill + i * step
<1> DEFINE s == Spent(n, cost)
           exact == Exactly(cost, n, step)
           Bound(i) == /\ s[i] <= SlotFill + i * step
                       /\ exact => s[i] = SlotFill + i * step
           P == {k \in Nat : k <= n - 1 => Bound(k)}
<1>1. SlotFill \in Nat BY PricingAssumption
<1>2. /\ s \in [0..n -> Nat]
      /\ s[0] = SlotFill
      /\ \A i \in 1..n : s[i] = s[i - 1] + cost[i]
  BY SpentFacts
<1> HIDE DEF s
<1>3. 0 \in P BY <1>1, <1>2
<1>4. ASSUME NEW k \in Nat, k \in P PROVE k + 1 \in P
  <2> SUFFICES ASSUME k + 1 <= n - 1 PROVE Bound(k + 1) OBVIOUS
  <2>1. Bound(k)
    <3> HIDE DEF Bound
    <3>1. k <= n - 1 OBVIOUS
    <3> QED BY <3>1, <1>4
  <2>2. /\ k + 1 \in 1..(n - 1) /\ k + 1 \in 1..n /\ (k + 1) - 1 = k
        /\ k \in 0..n
    OBVIOUS
  <2>3. s[k + 1] = s[k] + cost[k + 1] BY <2>2, <1>2
  <2>4. /\ s[k] \in Nat /\ cost[k + 1] \in Nat /\ cost[k + 1] <= step
        /\ exact => cost[k + 1] = step
    BY <2>2, <1>2 DEF Within, Exactly
  <2>5. (k + 1) * step = k * step + step /\ k * step \in Nat OBVIOUS
  <2> HIDE DEF exact
  <2> QED BY <2>1, <2>3, <2>4, <2>5, <1>1
<1>5. Nat \subseteq P
  <2> HIDE DEF P
  <2> QED BY <1>3, <1>4, NatSetInduction
<1>6. ASSUME NEW i \in 0..(n - 1) PROVE Bound(i) /\ s[i] \in Nat /\ i * step \in Nat
  <2>1. i \in P /\ i \in Nat /\ i <= n - 1 /\ i \in 0..n BY <1>5
  <2> QED BY <2>1, <1>2
<1> QED BY <1>6 DEF s

\* What the code was given.
ForecastInput ==
    /\ input.limit \in Int
    /\ input.frozen \in Nat
    /\ input.detail \in DOMAIN InputTokens
    /\ input.steps \in Nat /\ input.steps >= 2

\* The numbers of a forecast.
LEMMA ForecastNumbers ==
  ASSUME ForecastInput,
         NEW chars, chars = NominalPromptChars(input.frozen),
         NEW st, st = GenerationReserve(chars, "1K", input.detail),
         NEW en, en = GenerationReserve(chars, "4K", input.detail),
         NEW left, left = input.limit - SlotFill - en
  PROVE  /\ chars \in Nat /\ st \in Nat \ {0} /\ en \in Nat \ {0} /\ left \in Int
         /\ Forecasted.affordable = (IF left > 0 THEN left \div st ELSE 0) + 1
         /\ Forecasted.sufficient <=> Forecasted.affordable >= input.steps
         /\ Forecasted.minimum =
              PredictGenerationCost(chars, "1K", input.detail) * (input.steps - 1)
                + PredictGenerationCost(chars, "4K", input.detail) + SlotFill
<1>1. SlotFill \in Nat /\ Padding \in Nat /\ "1K" \in DOMAIN OutputTokens
        /\ "4K" \in DOMAIN OutputTokens
  BY PricingAssumption
<1>2. chars \in Nat BY <1>1 DEF NominalPromptChars, ForecastInput
<1>3. input.detail \in DOMAIN InputTokens BY DEF ForecastInput
<1>4. chars <= chars BY <1>2
<1>5. /\ st \in Nat \ {0} /\ en \in Nat \ {0}
      /\ PredictGenerationCost(chars, "1K", input.detail) \in Nat
      /\ PredictGenerationCost(chars, "4K", input.detail) \in Nat
  BY <1>1, <1>2, <1>3, <1>4, PriceFacts
<1>6. left \in Int BY <1>1, <1>5 DEF ForecastInput
<1>7. Spendable(input.limit, 1, en) = left BY <1>1, <1>5 DEF Spendable, ForecastInput
<1>8. Forecasted.affordable = Affordable(left, st, 1)
  BY <1>7 DEF Forecasted, EstimateCost
<1>9. /\ (IF input.steps > 1 THEN input.steps ELSE 1) = input.steps
      /\ (IF input.steps > 1 THEN input.steps - 1 ELSE 0) = input.steps - 1
  BY DEF ForecastInput
<1>10. Forecasted.sufficient <=> Forecasted.affordable >= input.steps
  BY <1>9 DEF Forecasted, EstimateCost
<1>11. Forecasted.minimum =
         PredictGenerationCost(chars, "1K", input.detail) * (input.steps - 1)
           + PredictGenerationCost(chars, "4K", input.detail) * 1 + SlotFill
  BY <1>9 DEF Forecasted, EstimateCost
<1> QED BY <1>2, <1>5, <1>6, <1>8, <1>10, <1>11 DEF Affordable

\* The chain is funded when every step's reservation fits, and only then if every
\* generation costs what was reserved.
LEMMA ChainFacts ==
  ASSUME ForecastInput,
         NEW chars, chars = NominalPromptChars(input.frozen),
         NEW st, st = GenerationReserve(chars, "1K", input.detail),
         NEW en, en = GenerationReserve(chars, "4K", input.detail),
         NEW n, n = input.steps, NEW full
  PROVE  /\ (n - 1) * st \in Nat
         /\ SlotFill + (n - 1) * st + en <= input.limit => ChainFunded(full)
         /\ full = 1..n /\ ChainFunded(full) => SlotFill + (n - 1) * st + en <= input.limit
<1> DEFINE left == input.limit - SlotFill - en
           size(i) == IF i = n THEN "4K" ELSE "1K"
           reserve(i) == GenerationReserve(chars, size(i), input.detail)
           cost == [i \in 1..n |-> IF i \in full THEN reserve(i)
                                   ELSE PredictGenerationCost(chars, size(i), input.detail)]
<1>1. /\ chars \in Nat /\ st \in Nat \ {0} /\ en \in Nat \ {0} BY ForecastNumbers
<1>2. /\ n \in Nat /\ n >= 2 /\ input.limit \in Int /\ input.detail \in DOMAIN InputTokens
      /\ SlotFill \in Nat
      /\ "1K" \in DOMAIN OutputTokens /\ "4K" \in DOMAIN OutputTokens
  BY PricingAssumption DEF ForecastInput
<1>3. ChainFunded(full) <=> \A i \in 1..n : Spent(n, cost)[i - 1] + reserve(i) <= input.limit
  BY DEF ChainFunded
<1>4. chars <= chars BY <1>1
<1>5. \A z \in {"1K", "4K"} :
         /\ PredictGenerationCost(chars, z, input.detail) \in Nat
         /\ GenerationReserve(chars, z, input.detail) \in Nat
         /\ PredictGenerationCost(chars, z, input.detail)
               <= GenerationReserve(chars, z, input.detail)
  BY <1>1, <1>2, <1>4, PriceFacts
<1>6. \A i \in 1..n : /\ reserve(i) = IF i = n THEN en ELSE st
                      /\ size(i) \in {"1K", "4K"}
  OBVIOUS
<1>7. /\ cost \in [1..n -> Nat]
      /\ \A i \in 1..(n - 1) : cost[i] <= st
      /\ full = 1..n => \A i \in 1..(n - 1) : cost[i] = st
  <2>1. \A i \in 1..n : cost[i] \in Nat /\ cost[i] <= reserve(i) BY <1>5, <1>6
  <2>2. \A i \in 1..(n - 1) : i \in 1..n /\ i # n BY <1>2
  <2>3. cost \in [1..n -> Nat] BY <2>1
  <2>4. \A i \in 1..(n - 1) : cost[i] <= st BY <2>1, <2>2, <1>6
  <2>5. full = 1..n => \A i \in 1..(n - 1) : cost[i] = st BY <2>2, <1>6
  <2> QED BY <2>3, <2>4, <2>5
<1> HIDE DEF cost, reserve
<1> DEFINE s == Spent(n, cost)
<1>8. \A i \in 0..(n - 1) : /\ s[i] \in Nat /\ i * st \in Nat
                            /\ s[i] <= SlotFill + i * st
                            /\ full = 1..n => s[i] = SlotFill + i * st
  <2>1. cost \in [1..n -> Nat] /\ Within(cost, n, st) BY <1>7 DEF Within
  <2>2. full = 1..n => Exactly(cost, n, st) BY <1>7 DEF Exactly
  <2>3. n \in Nat \ {0} /\ st \in Nat BY <1>1, <1>2
  <2> QED BY ONLY <2>1, <2>2, <2>3, SpentBounds
<1> HIDE DEF s
<1>9. n - 1 \in 0..(n - 1) /\ (n - 1) * st \in Nat /\ n \in 1..n BY <1>1, <1>2
<1>10. ASSUME SlotFill + (n - 1) * st + en <= input.limit PROVE ChainFunded(full)
  <2>1. ASSUME NEW i \in 1..n PROVE s[i - 1] + reserve(i) <= input.limit
    <3>1. i - 1 \in 0..(n - 1) /\ i - 1 <= n - 1 /\ i - 1 \in Nat BY <1>2
    <3>2. s[i - 1] \in Nat /\ (i - 1) * st \in Nat /\ s[i - 1] <= SlotFill + (i - 1) * st
      BY <3>1, <1>8
    <3>3. CASE i = n
      BY <3>2, <3>3, <1>1, <1>2, <1>6, <1>9, <1>10
    <3>4. CASE i # n
      <4>1. i <= n - 1 /\ i \in Nat BY <3>4, <1>2
      <4>2. i * st <= (n - 1) * st /\ i * st = (i - 1) * st + st /\ i * st \in Nat
        BY <4>1, <1>1, <1>2, MulMonotone
      <4>3. reserve(i) = st BY <3>4, <1>6
      <4> QED BY <3>2, <4>2, <4>3, <1>1, <1>2, <1>9, <1>10
    <3> QED BY <3>3, <3>4
  <2> QED BY <2>1, <1>3 DEF s
<1>11. ASSUME full = 1..n, ChainFunded(full)
       PROVE  SlotFill + (n - 1) * st + en <= input.limit
  <2>1. s[n - 1] + reserve(n) <= input.limit BY <1>3, <1>9, <1>11 DEF s
  <2>2. s[n - 1] = SlotFill + (n - 1) * st BY <1>8, <1>9, <1>11
  <2>3. reserve(n) = en BY <1>6, <1>9
  <2> QED BY <2>1, <2>2, <2>3
<1> QED BY <1>9, <1>10, <1>11

\* The budget forecast that goes with a plan is true of the chain that follows, for
\* every price table, preset and plan: "sufficient" funds it to the end, its absence
\* says that full prices do not, the ceiling is exact and a reservation covers its
\* forecast (estimator.py, pricing.py).
THEOREM ForecastAlwaysHolds ==
  ASSUME input.rule = "forecast" => ForecastInput
  PROVE  ForecastHolds
<1> SUFFICES ASSUME input.rule = "forecast", ForecastInput PROVE ForecastHolds
  BY DEF ForecastHolds, SufficientIsFunded, AffordableIsCeiling, ReserveCoversForecast
<1> DEFINE chars == NominalPromptChars(input.frozen)
           st == GenerationReserve(chars, "1K", input.detail)
           en == GenerationReserve(chars, "4K", input.detail)
           left == input.limit - SlotFill - en
           n == input.steps
           p1 == PredictGenerationCost(chars, "1K", input.detail)
           p4 == PredictGenerationCost(chars, "4K", input.detail)
<1>1. /\ chars \in Nat /\ st \in Nat \ {0} /\ en \in Nat \ {0} /\ left \in Int
      /\ Forecasted.affordable = (IF left > 0 THEN left \div st ELSE 0) + 1
      /\ Forecasted.sufficient <=> Forecasted.affordable >= n
      /\ Forecasted.minimum = p1 * (n - 1) + p4 + SlotFill
  BY ForecastNumbers
<1>2. /\ n \in Nat /\ n >= 2 /\ input.limit \in Int /\ input.detail \in DOMAIN InputTokens
      /\ SlotFill \in Nat
      /\ "1K" \in DOMAIN OutputTokens /\ "4K" \in DOMAIN OutputTokens
      /\ CharsPerToken \in Nat
  BY PricingAssumption DEF ForecastInput
<1>3. \A full : /\ (n - 1) * st \in Nat
                /\ SlotFill + (n - 1) * st + en <= input.limit => ChainFunded(full)
                /\ full = 1..n /\ ChainFunded(full) =>
                      SlotFill + (n - 1) * st + en <= input.limit
  BY ChainFacts
<1>4. p1 \in Nat /\ p4 \in Nat /\ p1 <= st /\ p4 <= en
  <2>1. chars <= chars BY <1>1
  <2> QED BY <2>1, <1>1, <1>2, PriceFacts
<1>5. left = input.limit - SlotFill - en OBVIOUS
<1> HIDE DEF chars, st, en, left, p1, p4
<1> DEFINE q == IF left > 0 THEN left \div st ELSE 0
<1>6. /\ q \in Nat
      /\ left >= 0 => q * st <= left /\ left < (q + 1) * st
      /\ left <= 0 => q = 0
  <2>1. CASE left > 0
    <3>1. left \in Nat BY <2>1, <1>1
    <3> QED BY <2>1, <3>1, <1>1, QuotientFacts
  <2>2. CASE ~(left > 0)
    <3>1. q = 0 BY <2>2
    <3>2. q * st = 0 /\ (q + 1) * st = st BY <3>1, <1>1
    <3> QED BY <2>2, <3>1, <3>2, <1>1
  <2> QED BY <2>1, <2>2
<1>7. Forecasted.sufficient <=> q >= n - 1 BY <1>1, <1>2, <1>6
<1>8. Forecasted.affordable = q + 1 BY <1>1
<1> HIDE DEF q
<1>9. SufficientIsFunded
  <2>1. CASE Forecasted.sufficient
    <3>1. q >= n - 1 BY <1>7, <2>1
    <3>2. left >= 0 BY <3>1, <1>1, <1>2, <1>6
    <3>3. (n - 1) * st <= q * st /\ q * st \in Int BY <3>1, <1>1, <1>2, <1>6, MulMonotone
    <3>4. (n - 1) * st \in Nat BY <1>3
    <3>5. (n - 1) * st <= left BY <3>2, <3>3, <3>4, <1>1, <1>6
    <3>6. SlotFill + (n - 1) * st + en <= input.limit BY <3>4, <3>5, <1>1, <1>2, <1>5
    <3>7. \A full : ChainFunded(full) BY <3>6, <1>3
    <3>8. p1 * (n - 1) <= (n - 1) * st /\ p1 * (n - 1) \in Int
      <4>1. p1 * (n - 1) <= st * (n - 1) /\ p1 * (n - 1) \in Int
        BY <1>1, <1>2, <1>4, MulMonotone
      <4>2. st * (n - 1) = (n - 1) * st BY <1>1, <1>2
      <4> QED BY <4>1, <4>2
    <3>9. Forecasted.minimum <= input.limit
      BY <3>4, <3>6, <3>8, <1>1, <1>2, <1>4
    <3> QED BY <2>1, <3>7, <3>9 DEF SufficientIsFunded
  <2>2. CASE ~Forecasted.sufficient
    <3>1. q + 1 <= n - 1 BY <1>2, <1>6, <1>7, <2>2
    <3>2. (q + 1) * st <= (n - 1) * st /\ (q + 1) * st \in Int
      BY <3>1, <1>1, <1>2, <1>6, MulMonotone
    <3>3. (n - 1) * st \in Nat BY <1>3
    <3>4. left < (n - 1) * st
      <4>1. CASE left >= 0 BY <4>1, <3>2, <3>3, <1>1, <1>6
      <4>2. CASE ~(left >= 0) BY <4>2, <3>3, <1>1
      <4> QED BY <4>1, <4>2
    <3>5. ~(SlotFill + (n - 1) * st + en <= input.limit)
      BY <3>3, <3>4, <1>1, <1>2, <1>5
    <3>6. ~ChainFunded(1..n) BY <3>5, <1>3
    <3> QED BY <2>2, <3>6 DEF SufficientIsFunded
  <2> QED BY <2>1, <2>2
<1>10. AffordableIsCeiling
  <2>1. (q + 1) - 1 = q BY <1>6
  <2>2. left >= 0 => q * st <= left /\ left < (q + 1) * st BY <1>6
  <2>3. left >= 0 => ((q + 1) - 1) * st <= left /\ left < (((q + 1) - 1) + 1) * st
    BY <2>1, <2>2
  <2> QED BY <2>3, <1>8 DEF AffordableIsCeiling, chars, st, en, left
<1>11. ReserveCoversForecast
  <2>1. ASSUME NEW size \in DOMAIN OutputTokens
        PROVE  /\ GenerationReserve(chars, size, input.detail)
                    >= PredictGenerationCost(chars, size, input.detail)
               /\ \A more \in 1..CharsPerToken :
                     GenerationReserve(chars, size, input.detail)
                        <= GenerationReserve(chars + more, size, input.detail)
    <3>1. chars <= chars BY <1>1
    <3>2. \A more \in 1..CharsPerToken : chars + more \in Nat /\ chars <= chars + more
      BY <1>1, <1>2
    <3> QED BY <3>1, <3>2, <1>1, <1>2, PriceFacts
  <2> QED BY <2>1 DEF ReserveCoversForecast, chars
<1> QED BY <1>9, <1>10, <1>11 DEF ForecastHolds

-----------------------------------------------------------------------------
(* The slots.                                                              *)

\* Max is the greatest element of a non-empty subset of 1..n.
LEMMA MaxFacts ==
  ASSUME NEW n \in Nat, NEW S \in SUBSET (1..n), S # {}
  PROVE  Max(S) \in S /\ \A y \in S : y <= Max(S)
<1> DEFINE U == {n - x : x \in S}
<1>0. \A x \in S : x \in 1..n /\ x \in Int /\ n - x \in Nat OBVIOUS
<1>1. U \subseteq Nat /\ U # {} BY <1>0
<1>2. PICK u \in U : \A v \in U : u <= v
  <2> HIDE DEF U
  <2> QED BY <1>1, LeastExists
<1>3. PICK m \in S : u = n - m OBVIOUS
<1>4. ASSUME NEW y \in S PROVE m >= y
  <2>1. n - y \in U OBVIOUS
  <2>2. n - m <= n - y BY <1>2, <1>3, <2>1
  <2>3. m \in Int /\ y \in Int BY <1>0
  <2> QED BY <2>2, <2>3
<1>5. \E x \in S : \A y \in S : x >= y BY <1>4
<1>6. Max(S) \in S /\ \A y \in S : Max(S) >= y BY <1>5 DEF Max
<1>7. Max(S) \in Int BY <1>0, <1>6
<1> QED BY <1>0, <1>6, <1>7

\* The loop of _match_option, run over the options with an index in s.
Matches(f, k, answer, options) ==
    /\ f = [s \in SUBSET (1..k) |-> f[s]]
    /\ \A s \in SUBSET (1..k) :
          f[s] = IF s = {} THEN NoValue
                 ELSE Better(f[s \ {Max(s)}], options[Max(s)], answer)

LEMMA MatchesExists ==
  ASSUME NEW answer, NEW options, NEW n \in Nat
  PROVE  \E f : Matches(f, n, answer, options)
<1> DEFINE Begun(k) == \E f : Matches(f, k, answer, options)
           P == {k \in Nat : Begun(k)}
<1>1. 0 \in P
  <2> DEFINE f == [s \in SUBSET (1..0) |-> NoValue]
  <2>1. \A s \in SUBSET (1..0) : s = {} OBVIOUS
  <2>2. Matches(f, 0, answer, options) BY <2>1 DEF Matches
  <2> QED BY <2>2
<1>2. ASSUME NEW k \in Nat, k \in P PROVE k + 1 \in P
  <2>1. Begun(k)
    <3> HIDE DEF Begun
    <3> QED BY <1>2
  <2>2. PICK f : Matches(f, k, answer, options) BY <2>1
  <2> DEFINE g == [s \in SUBSET (1..(k + 1)) |->
                     IF k + 1 \in s THEN Better(f[s \ {k + 1}], options[k + 1], answer)
                     ELSE f[s]]
  <2>3. ASSUME NEW s \in SUBSET (1..(k + 1))
        PROVE  g[s] = IF s = {} THEN NoValue
                      ELSE Better(g[s \ {Max(s)}], options[Max(s)], answer)
    <3>1. CASE s = {}
      BY <3>1, <2>2 DEF Matches
    <3>2. CASE k + 1 \in s
      <4>1. Max(s) \in s /\ \A y \in s : y <= Max(s) 
        <5>1. k + 1 \in Nat /\ s # {} BY <3>2
        <5> QED BY <5>1, MaxFacts
      <4>2. k + 1 <= Max(s) /\ Max(s) \in 1..(k + 1) BY <4>1, <3>2
      <4>3. Max(s) = k + 1 BY <4>2
      <4>4. s \ {k + 1} \in SUBSET (1..(k + 1)) /\ k + 1 \notin s \ {k + 1} OBVIOUS
      <4>5. g[s \ {k + 1}] = f[s \ {k + 1}] BY <4>4
      <4> HIDE DEF g
      <4>6. g[s] = Better(f[s \ {k + 1}], options[k + 1], answer) BY <3>2 DEF g
      <4> QED BY <3>2, <4>3, <4>5, <4>6
    <3>3. CASE s # {} /\ k + 1 \notin s
      <4>1. s \in SUBSET (1..k)
        <5>1. \A x \in s : x \in 1..k BY <3>3
        <5> QED BY <5>1
      <4>2. g[s] = f[s] BY <3>3
      <4>3. s \ {Max(s)} \in SUBSET (1..(k + 1)) /\ k + 1 \notin s \ {Max(s)} BY <3>3
      <4>4. g[s \ {Max(s)}] = f[s \ {Max(s)}] BY <4>3
      <4> HIDE DEF g
      <4> QED BY <3>3, <4>1, <4>2, <4>4, <2>2 DEF Matches
    <3> QED BY <3>1, <3>2, <3>3
  <2>4. Matches(g, k + 1, answer, options) BY <2>3 DEF Matches
  <2>5. Begun(k + 1) BY <2>4
  <2> HIDE DEF Begun
  <2> QED BY <2>5
<1>3. n \in P
  <2> HIDE DEF P
  <2> QED BY <1>1, <1>2, NatSetInduction
<1> QED BY <1>3

\* MatchOption is the last value of a loop over the options, in their order.
LEMMA MatchOptionLoop ==
  ASSUME NEW S, NEW options \in Seq(S), NEW answer
  PROVE  \E m : /\ m[0] = NoValue
                /\ \A k \in 1..Len(options) : m[k] = Better(m[k - 1], options[k], answer)
                /\ MatchOption(answer, options) = m[Len(options)]
<1> DEFINE n == Len(options)
           f == CHOOSE f : f = [s \in SUBSET (DOMAIN options) |->
                  IF s = {} THEN NoValue
                  ELSE Better(f[s \ {Max(s)}], options[Max(s)], answer)]
<1>1. n \in Nat /\ DOMAIN options = 1..n OBVIOUS
<1>2. MatchOption(answer, options) = f[DOMAIN options]
  BY DEF MatchOption, FoldLeft, MapThenFoldSet
<1>3. PICK g : Matches(g, n, answer, options) BY <1>1, MatchesExists
<1>4. \E h : h = [s \in SUBSET (DOMAIN options) |->
                  IF s = {} THEN NoValue
                  ELSE Better(h[s \ {Max(s)}], options[Max(s)], answer)]
  <2>1. g = [s \in SUBSET (DOMAIN options) |->
                  IF s = {} THEN NoValue
                  ELSE Better(g[s \ {Max(s)}], options[Max(s)], answer)]
    BY <1>1, <1>3 DEF Matches
  <2> QED BY <2>1
<1>5. f = [s \in SUBSET (DOMAIN options) |->
                  IF s = {} THEN NoValue
                  ELSE Better(f[s \ {Max(s)}], options[Max(s)], answer)]
  BY <1>4
<1> HIDE DEF f
<1>6. Matches(f, n, answer, options) BY <1>1, <1>5 DEF Matches
<1> DEFINE m == [k \in 0..n |-> f[1..k]]
<1>7. m[0] = NoValue
  <2>1. 1..0 = {} /\ 1..0 \in SUBSET (1..n) /\ 0 \in 0..n BY <1>1
  <2> QED BY <2>1, <1>6 DEF Matches
<1>8. ASSUME NEW k \in 1..n PROVE m[k] = Better(m[k - 1], options[k], answer)
  <2>0. k \in 1..k /\ k \in 0..n /\ k - 1 \in 0..n BY <1>1
  <2>1. 1..k \in SUBSET (1..n) /\ 1..k # {}
    <3>1. \A x \in 1..k : x \in 1..n BY <1>1
    <3> QED BY <3>1, <2>0
  <2>2. Max(1..k) = k
    <3>1. Max(1..k) \in 1..k /\ \A y \in 1..k : y <= Max(1..k) BY <1>1, <2>1, MaxFacts
    <3>2. k \in 1..k BY <1>1
    <3>3. k <= Max(1..k) BY <3>1, <3>2
    <3> QED BY <3>1, <3>3, <1>1
  <2>3. (1..k) \ {k} = 1..(k - 1) BY <1>1
  <2>4. f[1..k] = Better(f[(1..k) \ {Max(1..k)}], options[Max(1..k)], answer)
    BY <2>1, <1>6 DEF Matches
  <2>5. f[1..k] = Better(f[1..(k - 1)], options[k], answer) BY <2>2, <2>3, <2>4
  <2> QED BY <2>0, <2>5
<1>9. MatchOption(answer, options) = m[n] BY <1>1, <1>2
<1> QED BY <1>7, <1>8, <1>9

\* It returns one of the options or nothing.
LEMMA MatchOptionRange ==
  ASSUME NEW S, NEW options \in Seq(S), NEW answer
  PROVE  MatchOption(answer, options) \in ToSet(options) \cup {NoValue}
<1> DEFINE n == Len(options)
           V == ToSet(options) \cup {NoValue}
<1>1. n \in Nat /\ DOMAIN options = 1..n OBVIOUS
<1>2. PICK m : /\ m[0] = NoValue
               /\ \A k \in 1..n : m[k] = Better(m[k - 1], options[k], answer)
               /\ MatchOption(answer, options) = m[n]
  BY MatchOptionLoop
<1>3. \A k \in 1..n : options[k] \in V BY <1>1 DEF ToSet
<1> HIDE DEF V
<1> DEFINE P == {k \in Nat : k <= n => m[k] \in V}
<1>4. 0 \in P BY <1>2 DEF V
<1>5. ASSUME NEW k \in Nat, k \in P PROVE k + 1 \in P
  <2> SUFFICES ASSUME k + 1 <= n PROVE m[k + 1] \in V OBVIOUS
  <2>1. k + 1 \in 1..n /\ (k + 1) - 1 = k /\ m[k] \in V BY <1>1, <1>5
  <2>2. m[k + 1] = Better(m[k], options[k + 1], answer) BY <2>1, <1>2
  <2> QED BY <2>1, <2>2, <1>3 DEF Better
<1>6. n \in P
  <2> HIDE DEF P
  <2> QED BY <1>1, <1>4, <1>5, NatSetInduction
<1> QED BY <1>1, <1>2, <1>6 DEF V

\* The overlap with an option, as a number.
Score(options, answer, i) == Overlap(options[i], answer)

\* best is the first of the first k options with the most words in common.
BestOf(best, k, options, answer) ==
    IF best = NoValue THEN \A i \in 1..k : Score(options, answer, i) = 0
    ELSE \E i \in 1..k :
            /\ best = options[i] /\ Score(options, answer, i) > 0
            /\ \A j \in 1..k : /\ Score(options, answer, j) <= Score(options, answer, i)
                               /\ j < i => Score(options, answer, j) < Score(options, answer, i)

\* One turn of the loop keeps the best of the options so far.
LEMMA BetterKeeps ==
  ASSUME NEW S, NEW options \in Seq(S), NEW answer, NoValue \notin S,
         \A i \in DOMAIN options : Score(options, answer, i) \in Nat,
         NEW k \in Nat, k + 1 <= Len(options), NEW best,
         BestOf(best, k, options, answer)
  PROVE  BestOf(Better(best, options[k + 1], answer), k + 1, options, answer)
<1> DEFINE new == Better(best, options[k + 1], answer)
           score(i) == Score(options, answer, i)
<1>1. /\ k + 1 \in 1..(k + 1) /\ k + 1 \in DOMAIN options /\ options[k + 1] # NoValue
      /\ \A i \in 1..(k + 1) : i \in DOMAIN options /\ (i \in 1..k \/ i = k + 1)
      /\ \A i \in 1..k : i \in 1..(k + 1) /\ i < k + 1 /\ i \in Int
  OBVIOUS
<1>2. \A i \in 1..(k + 1) : score(i) \in Nat BY <1>1
<1>3. Overlap(options[k + 1], answer) = score(k + 1) BY DEF Score
<1>4. CASE best = NoValue
  <2>1. \A i \in 1..k : score(i) = 0 BY <1>4 DEF BestOf
  <2>2. new = IF score(k + 1) > 0 THEN options[k + 1] ELSE NoValue
    BY <1>3, <1>4 DEF Better
  <2> HIDE DEF new, score
  <2>3. CASE score(k + 1) > 0
    <3>1. \A j \in 1..(k + 1) : /\ score(j) <= score(k + 1)
                                /\ j < k + 1 => score(j) < score(k + 1)
      BY <2>1, <2>3, <1>1, <1>2
    <3> QED BY <2>2, <2>3, <3>1, <1>1 DEF BestOf, score, new
  <2>4. CASE ~(score(k + 1) > 0)
    <3>1. \A i \in 1..(k + 1) : score(i) = 0 BY <2>1, <2>4, <1>1, <1>2
    <3> QED BY <2>2, <2>4, <3>1 DEF BestOf, score, new
  <2> QED BY <2>3, <2>4
<1>5. CASE best # NoValue
  <2>1. PICK i \in 1..k :
            /\ best = options[i] /\ score(i) > 0
            /\ \A j \in 1..k : score(j) <= score(i) /\ (j < i => score(j) < score(i))
    BY <1>5 DEF BestOf
  <2>2. Overlap(best, answer) = score(i) BY <2>1 DEF Score
  <2>3. new = IF score(k + 1) > score(i) THEN options[k + 1] ELSE best
    BY <1>3, <1>5, <2>2 DEF Better
  <2> HIDE DEF new, score
  <2>4. CASE score(k + 1) > score(i)
    <3>1. \A j \in 1..(k + 1) : /\ score(j) <= score(k + 1)
                                /\ j < k + 1 => score(j) < score(k + 1)
      BY <2>1, <2>4, <1>1, <1>2
    <3>2. score(k + 1) > 0 BY <2>1, <2>4, <1>1, <1>2
    <3> QED BY <2>3, <2>4, <3>1, <3>2, <1>1 DEF BestOf, score, new
  <2>5. CASE ~(score(k + 1) > score(i))
    <3>1. \A j \in 1..(k + 1) : score(j) <= score(i) /\ (j < i => score(j) < score(i))
      BY <2>1, <2>5, <1>1, <1>2
    <3> QED BY <2>1, <2>3, <2>5, <3>1, <1>1, <1>5 DEF BestOf, score, new
  <2> QED BY <2>4, <2>5
<1> QED BY <1>4, <1>5

\* The option MatchOption returns shares most words with the answer, and is the
\* first that does.
LEMMA MatchOptionBest ==
  ASSUME NEW S, NEW options \in Seq(S), NEW answer, NoValue \notin S,
         \A i \in DOMAIN options : Score(options, answer, i) \in Nat
  PROVE  BestOf(MatchOption(answer, options), Len(options), options, answer)
<1> DEFINE n == Len(options)
<1>1. n \in Nat OBVIOUS
<1>2. PICK m : /\ m[0] = NoValue
               /\ \A k \in 1..n : m[k] = Better(m[k - 1], options[k], answer)
               /\ MatchOption(answer, options) = m[n]
  BY MatchOptionLoop
<1> DEFINE P == {k \in Nat : k <= n => BestOf(m[k], k, options, answer)}
<1>3. 0 \in P BY <1>2 DEF BestOf
<1>4. ASSUME NEW k \in Nat, k \in P PROVE k + 1 \in P
  <2> SUFFICES ASSUME k + 1 <= n PROVE BestOf(m[k + 1], k + 1, options, answer) OBVIOUS
  <2>1. k + 1 \in 1..n /\ (k + 1) - 1 = k /\ BestOf(m[k], k, options, answer)
    BY <1>1, <1>4
  <2>2. m[k + 1] = Better(m[k], options[k + 1], answer) BY <2>1, <1>2
  <2> QED BY <2>1, <2>2, BetterKeeps
<1>5. n \in P
  <2> HIDE DEF P
  <2> QED BY <1>1, <1>3, <1>4, NatSetInduction
<1> QED BY <1>1, <1>2, <1>5

\* A slot, over the names and the texts of the library.
Slot(names, texts) ==
    [name : names, enum : Seq(texts), default : texts \cup {NoValue},
     ask : BOOLEAN, locked : BOOLEAN]

\* What the fillers are given: a preset of the library, whose slots are a mapping,
\* and an answer if the preset asks for one.
SlotInput(names, texts) ==
    /\ input.preset.slots \in Seq(Slot(names, texts))
    /\ \A i, j \in DOMAIN input.preset.slots :
          input.preset.slots[i].name = input.preset.slots[j].name => i = j
    /\ WellFormed(input.preset)
    /\ input.answer \in texts \cup {NoValue}
    /\ (\E i \in DOMAIN input.preset.slots : input.preset.slots[i].ask) =>
          input.answer # NoValue

\* A name stands for its slot.
LEMMA NamedFacts ==
  ASSUME NEW names, NEW texts, SlotInput(names, texts), NEW p, p = input.preset
  PROVE  /\ \A name \in Names(p) : /\ Named(p, name) \in Slot(names, texts)
                                   /\ Named(p, name).name = name
                                   /\ Named(p, name) \in ToSet(p.slots)
                                   /\ \E i \in DOMAIN p.slots : Named(p, name) = p.slots[i]
         /\ \A i \in DOMAIN p.slots : /\ p.slots[i].name \in Names(p)
                                      /\ Named(p, p.slots[i].name) = p.slots[i]
<1>1. /\ p.slots \in Seq(Slot(names, texts))
      /\ \A i, j \in DOMAIN p.slots : p.slots[i].name = p.slots[j].name => i = j
  BY DEF SlotInput
<1>2. \A i \in DOMAIN p.slots : p.slots[i] \in Slot(names, texts) BY <1>1
<1>3. ASSUME NEW name \in Names(p)
      PROVE  \E i \in DOMAIN p.slots : p.slots[i].name = name /\ Named(p, name) = p.slots[i]
  <2>1. \E i \in DOMAIN p.slots : p.slots[i].name = name BY DEF Names
  <2> QED BY <2>1 DEF Named
<1>4. \A i \in DOMAIN p.slots : p.slots[i].name \in Names(p) BY DEF Names
<1>5. ASSUME NEW i \in DOMAIN p.slots PROVE Named(p, p.slots[i].name) = p.slots[i]
  <2>1. PICK j \in DOMAIN p.slots : /\ p.slots[j].name = p.slots[i].name
                                    /\ Named(p, p.slots[i].name) = p.slots[j]
    BY <1>3, <1>4
  <2>2. j = i BY <2>1, <1>1
  <2> QED BY <2>1, <2>2
<1>6. \A i \in DOMAIN p.slots : p.slots[i] \in ToSet(p.slots) BY DEF ToSet
<1> QED BY <1>2, <1>3, <1>4, <1>5, <1>6

\* The default of a slot is in its vocabulary, and is missing only where the answer
\* stands in for it.
LEMMA WellFormedFacts ==
  ASSUME NEW names, NEW texts, SlotInput(names, texts), NEW p, p = input.preset,
         NEW name \in Names(p), NEW slot, slot = Named(p, name)
  PROVE  /\ ~FreeForm(slot) => slot.default \in ToSet(slot.enum)
         /\ slot.default = NoValue => slot.ask /\ input.answer # NoValue
<1>1. PICK i \in DOMAIN p.slots : slot = p.slots[i] BY NamedFacts
<1>2. WellFormed(p) BY DEF SlotInput
<1>3. /\ ~FreeForm(slot) => slot.default \in ToSet(slot.enum)
      /\ slot.default = NoValue => slot.ask /\ FreeForm(slot)
  BY <1>1, <1>2 DEF WellFormed
<1>4. slot.ask => input.answer # NoValue BY <1>1 DEF SlotInput
<1> QED BY <1>3, <1>4

\* What Fill returns: a value for each slot, from its vocabulary if it has one, and
\* the answer or the default if it has none.
LEMMA FilledFacts ==
  ASSUME NEW names, NEW texts, SlotInput(names, texts), NEW p, p = input.preset
  PROVE  /\ DOMAIN Filled = Names(p)
         /\ \A name \in Names(p) :
              /\ ~FreeForm(Named(p, name)) => Filled[name] \in ToSet(Named(p, name).enum)
              /\ FreeForm(Named(p, name)) =>
                    /\ Filled[name] \in {input.answer, Named(p, name).default}
                    /\ ~Named(p, name).ask => Filled[name] = Named(p, name).default
<1> DEFINE ans == input.answer
<1>1. CASE Parses(p, input.raw)
  <2>1. Filled = VerbatimFreeform(p, input.raw, ans) BY <1>1 DEF Filled, Fill
  <2>2. DOMAIN input.raw = Names(p) BY <1>1 DEF Parses
  <2>3. DOMAIN Filled = Names(p) BY <2>1, <2>2 DEF VerbatimFreeform
  <2>4. ASSUME NEW name \in Names(p), NEW slot, slot = Named(p, name)
        PROVE  /\ ~FreeForm(slot) => Filled[name] \in ToSet(slot.enum)
               /\ FreeForm(slot) => /\ Filled[name] \in {ans, slot.default}
                                    /\ ~slot.ask => Filled[name] = slot.default
    <3>1. Filled[name] =
            CASE ~FreeForm(slot) -> input.raw[name]
              [] FreeForm(slot) /\ slot.ask /\ ans # NoValue -> ans
              [] OTHER -> IF slot.default # NoValue THEN slot.default ELSE input.raw[name]
      BY <2>1, <2>2, <2>4 DEF VerbatimFreeform
    <3>2. ~FreeForm(slot) => input.raw[name] \in ToSet(slot.enum)
      BY <1>1, <2>2, <2>4 DEF Parses
    <3>3. slot.default = NoValue => slot.ask /\ ans # NoValue BY <2>4, WellFormedFacts
    <3> QED BY <3>1, <3>2, <3>3
  <2> QED BY <2>3, <2>4
<1>2. CASE ~Parses(p, input.raw)
  <2>1. Filled = DefaultFill(p, ans) BY <1>2 DEF Filled, Fill
  <2>2. DOMAIN Filled = Names(p) BY <2>1 DEF DefaultFill
  <2>3. ASSUME NEW name \in Names(p), NEW slot, slot = Named(p, name)
        PROVE  /\ ~FreeForm(slot) => Filled[name] \in ToSet(slot.enum)
               /\ FreeForm(slot) => /\ Filled[name] \in {ans, slot.default}
                                    /\ ~slot.ask => Filled[name] = slot.default
    <3>1. Filled[name] = DefaultValue(slot, ans) BY <2>1, <2>3 DEF DefaultFill
    <3>2. slot.enum \in Seq(texts)
      <4>1. slot \in Slot(names, texts) BY <2>3, NamedFacts
      <4> QED BY <4>1 DEF Slot
    <3>3. MatchOption(ans, slot.enum) \in ToSet(slot.enum) \cup {NoValue}
      BY <3>2, MatchOptionRange
    <3>4. ~FreeForm(slot) => slot.default \in ToSet(slot.enum) BY <2>3, WellFormedFacts
    <3> QED BY <3>1, <3>3, <3>4 DEF DefaultValue
  <2> QED BY <2>2, <2>3
<1> QED BY <1>1, <1>2

\* Values in their vocabularies stay there under a step's instruction.
LEMMA StepKeepsValid ==
  ASSUME NEW names, NEW texts, SlotInput(names, texts), NEW p, p = input.preset,
         NEW slots, Validates(p, slots), DOMAIN slots = Names(p),
         slots = [name \in DOMAIN slots |-> slots[name]], NEW instruction
  PROVE  Validates(p, SlotsForStep(p, slots, instruction))
<1> DEFINE I == {i \in 1..Len(p.slots) : FreeForm(p.slots[i])}
           free == IF I # {} THEN Min(I) ELSE 0
<1>1. SlotsForStep(p, slots, instruction) =
        IF instruction = {} \/ free = 0 THEN slots
        ELSE [slots EXCEPT ![p.slots[free].name] = instruction]
  BY DEF SlotsForStep, SelectInSeq
<1>2. CASE instruction = {} \/ free = 0 BY <1>1, <1>2
<1>3. CASE ~(instruction = {} \/ free = 0)
  <2>1. I # {} /\ I \subseteq Nat BY <1>3
  <2>2. free \in I
    <3> HIDE DEF I
    <3>1. Min(I) \in I BY <2>1, MinFacts
    <3> QED BY <2>1, <3>1
  <2>3. free \in DOMAIN p.slots /\ FreeForm(p.slots[free])
    <3>1. DOMAIN p.slots = 1..Len(p.slots) BY DEF SlotInput
    <3> QED BY <2>2, <3>1
  <2> HIDE DEF free
  <2>4. PICK f : f = p.slots[free].name OBVIOUS
  <2>5. f \in Names(p) /\ FreeForm(Named(p, f)) BY <2>3, <2>4, NamedFacts
  <2>6. SlotsForStep(p, slots, instruction) = [slots EXCEPT ![f] = instruction]
    BY <1>1, <1>3, <2>4
  <2>7. PICK new : new = [slots EXCEPT ![f] = instruction] OBVIOUS
  <2>8. /\ DOMAIN new = DOMAIN slots
        /\ \A name \in DOMAIN slots : name # f => new[name] = slots[name]
    BY <2>7
  <2>9. Validates(p, new) BY <2>5, <2>8 DEF Validates
  <2> QED BY <2>6, <2>7, <2>9
<1> QED BY <1>2, <1>3

\* What the fillers make of any raw fill and any answer.
LEMMA FillsAreSound ==
  ASSUME NEW names, NEW texts, NoValue \notin texts,
         \A t \in texts : IsFiniteSet(t),
         input.rule = "slots" => SlotInput(names, texts)
  PROVE  FillsStayValid /\ FillsFollowAnswer
<1> SUFFICES ASSUME input.rule = "slots", SlotInput(names, texts)
             PROVE  FillsStayValid /\ FillsFollowAnswer
  BY DEF FillsStayValid, FillsFollowAnswer, FreeFormIsVerbatim,
     VocabularyIsChosen
<1> DEFINE p == input.preset
           filled == Filled
           overlaid == ApplyComposition(p, Filled)
<1>1. /\ DOMAIN filled = Names(p)
      /\ \A name \in Names(p) :
           /\ ~FreeForm(Named(p, name)) => filled[name] \in ToSet(Named(p, name).enum)
           /\ FreeForm(Named(p, name)) =>
                 /\ filled[name] \in {input.answer, Named(p, name).default}
                 /\ ~Named(p, name).ask => filled[name] = Named(p, name).default
  BY FilledFacts
<1>2. filled = [name \in DOMAIN filled |-> filled[name]]
  BY DEF Filled, Fill, VerbatimFreeform, DefaultFill
<1>3. /\ p.placeholders \subseteq Names(p)
      /\ DOMAIN p.overrides \subseteq Names(p)
      /\ \A name \in DOMAIN p.overrides :
            FreeForm(Named(p, name)) \/ p.overrides[name] \in ToSet(Named(p, name).enum)
  <2>1. WellFormed(p) BY DEF SlotInput
  <2> QED BY <2>1 DEF WellFormed
<1>4. Validates(p, filled) BY <1>1, <1>3 DEF Validates
<1>5. /\ DOMAIN overlaid = Names(p)
      /\ overlaid = [name \in DOMAIN overlaid |-> overlaid[name]]
      /\ \A name \in Names(p) : overlaid[name] = IF name \in DOMAIN p.overrides
                                                 THEN p.overrides[name] ELSE filled[name]
  <2>1. DOMAIN filled \cup DOMAIN p.overrides = Names(p) BY <1>1, <1>3
  <2> QED BY <2>1 DEF ApplyComposition
<1> HIDE DEF filled, overlaid
<1>6. Validates(p, overlaid) BY <1>1, <1>3, <1>5 DEF Validates
<1>7. FillsStayValid
  <2>1. /\ Validates(p, SlotsForStep(p, filled, input.instruction))
        /\ Validates(p, SlotsForStep(p, overlaid, input.instruction))
    BY <1>1, <1>2, <1>4, <1>5, <1>6, StepKeepsValid
  <2> QED BY <2>1, <1>4, <1>6 DEF FillsStayValid, filled, overlaid
<1>8. FreeFormIsVerbatim
  <2>1. ASSUME NEW name \in Names(p), Named(p, name).locked
        PROVE  LockedValues(p, filled)[name] = filled[name]
    BY <2>1, <1>1 DEF LockedValues
  <2> QED BY <2>1, <1>1 DEF FreeFormIsVerbatim, filled
<1>9. ASSUME NEW name \in Names(p), NEW slot, slot = Named(p, name), ~FreeForm(slot),
             Parses(p, input.raw)
      PROVE  filled[name] = input.raw[name]
  <2>1. DOMAIN input.raw = Names(p) BY <1>9 DEF Parses
  <2>2. filled = VerbatimFreeform(p, input.raw, input.answer) BY <1>9 DEF filled, Filled, Fill
  <2> QED BY <1>9, <2>1, <2>2 DEF VerbatimFreeform
<1>10. ASSUME NEW name \in Names(p), NEW slot, slot = Named(p, name), ~FreeForm(slot),
              ~Parses(p, input.raw), NEW options, options = slot.enum
       PROVE  \/ /\ slot.ask /\ input.answer # NoValue
                 /\ \E i \in DOMAIN options :
                      /\ filled[name] = options[i] /\ Overlap(options[i], input.answer) > 0
                      /\ \A j \in DOMAIN options :
                          /\ Overlap(options[j], input.answer)
                                <= Overlap(options[i], input.answer)
                          /\ j < i => Overlap(options[j], input.answer)
                                         < Overlap(options[i], input.answer)
              \/ /\ filled[name] = slot.default
                 /\ slot.ask /\ input.answer # NoValue =>
                      \A i \in DOMAIN options : Overlap(options[i], input.answer) = 0
  <2>1. filled[name] = DefaultValue(slot, input.answer)
    BY <1>10 DEF filled, Filled, Fill, DefaultFill
  <2>2. CASE ~(slot.ask /\ input.answer # NoValue)
    BY <2>1, <2>2 DEF DefaultValue
  <2>3. CASE slot.ask /\ input.answer # NoValue
    <3>1. slot \in Slot(names, texts) BY <1>10, NamedFacts
    <3>2. options \in Seq(texts) BY <1>10, <3>1 DEF Slot
    <3>3. IsFiniteSet(input.answer) BY <2>3 DEF SlotInput
    <3>4. ASSUME NEW i \in DOMAIN options PROVE Score(options, input.answer, i) \in Nat
      <4>1. (options[i] \ Stop) \cap (input.answer \ Stop) \subseteq input.answer OBVIOUS
      <4>2. IsFiniteSet((options[i] \ Stop) \cap (input.answer \ Stop))
        BY <3>3, <4>1, FS_Subset
      <4> QED BY <4>2, FS_CardinalityType DEF Score, Overlap
    <3>5. PICK best : best = MatchOption(input.answer, options) OBVIOUS
    <3>6. BestOf(best, Len(options), options, input.answer)
      BY <3>2, <3>4, <3>5, MatchOptionBest
    <3>7. DOMAIN options = 1..Len(options) BY <3>2
    <3>8. filled[name] = IF best = NoValue THEN slot.default ELSE best
      BY <1>10, <2>1, <2>3, <3>5 DEF DefaultValue
    <3>9. CASE best = NoValue
      BY <2>3, <3>6, <3>7, <3>8, <3>9 DEF BestOf, Score
    <3>10. CASE best # NoValue
      BY <2>3, <3>6, <3>7, <3>8, <3>10 DEF BestOf, Score
    <3> QED BY <3>9, <3>10
  <2> QED BY <2>2, <2>3
<1>11. VocabularyIsChosen
  BY <1>9, <1>10 DEF VocabularyIsChosen, filled
<1> QED BY <1>7, <1>8, <1>11 DEF FillsFollowAnswer

\* Whatever the model returned and the user answered, the slots pass the validation
\* of resolve_constraints, under the composition and in every step as well
\* (slot_filler.py, openrouter_slot_filler.py, prompt_builder.py).
THEOREM FillsAreValid ==
  ASSUME NEW names, NEW texts, NoValue \notin texts,
         \A t \in texts : IsFiniteSet(t),
         input.rule = "slots" => SlotInput(names, texts)
  PROVE  FillsStayValid
  BY FillsAreSound

\* The slots say what the user said verbatim where the preset leaves the text free.
\* A slot with a vocabulary holds the model's option if its fill parses, and else
\* the option closest to the answer or the default (VerbatimFreeform, MatchOption).
THEOREM FillsAnswer ==
  ASSUME NEW names, NEW texts, NoValue \notin texts,
         \A t \in texts : IsFiniteSet(t),
         input.rule = "slots" => SlotInput(names, texts)
  PROVE  FillsFollowAnswer
  BY FillsAreSound

-----------------------------------------------------------------------------
(* Loops over a list, and the elements they take.                          *)

\* What holds before a loop of n turns and is kept by each turn holds throughout.
LEMMA LoopInduction ==
  ASSUME NEW n \in Nat, NEW S, 0 \in S, \A k \in 1..n : k - 1 \in S => k \in S
  PROVE  0..n \subseteq S
<1> DEFINE P == {k \in Nat : k <= n => k \in S}
<1>1. 0 \in P OBVIOUS
<1>2. ASSUME NEW k \in Nat, k \in P PROVE k + 1 \in P
  <2> SUFFICES ASSUME k + 1 <= n PROVE k + 1 \in S OBVIOUS
  <2>1. k + 1 \in 1..n /\ (k + 1) - 1 = k /\ k \in S BY <1>2
  <2> QED BY <2>1
<1>3. Nat \subseteq P
  <2> HIDE DEF P
  <2> QED BY <1>1, <1>2, NatSetInduction
<1> QED BY <1>3

\* f has the values of a loop over V after each of its n turns.
Loops(f, n, V, base, step) ==
    /\ f \in [0..n -> V]
    /\ f[0] = base
    /\ \A i \in 1..n : f[i] = step[<<i, f[i - 1]>>]

LEMMA LoopExists ==
  ASSUME NEW n \in Nat, NEW V, NEW base \in V, NEW step \in [(1..n) \X V -> V]
  PROVE  \E f : Loops(f, n, V, base, step)
<1> DEFINE Runs(f, k) == /\ f \in [0..k -> V]
                         /\ f[0] = base
                         /\ \A i \in 1..k : f[i] = step[<<i, f[i - 1]>>]
           Begun(k) == \E f : Runs(f, k)
           S == {k \in 0..n : Begun(k)}
<1>1. 0 \in S
  <2>1. Runs([i \in 0..0 |-> base], 0) OBVIOUS
  <2>2. Begun(0) BY <2>1
  <2> HIDE DEF Begun
  <2> QED BY <2>2
<1>2. ASSUME NEW k \in 1..n, k - 1 \in S PROVE k \in S
  <2>1. Begun(k - 1)
    <3> HIDE DEF Begun
    <3> QED BY <1>2
  <2>2. PICK f : Runs(f, k - 1) BY <2>1
  <2> DEFINE v == step[<<k, f[k - 1]>>]
             g == [i \in 0..k |-> IF i = k THEN v ELSE f[i]]
  <2>3. f[k - 1] \in V BY <2>2
  <2>4. v \in V BY <2>3
  <2>5. g \in [0..k -> V] /\ g[0] = base
    <3>1. \A i \in 0..k : i = k \/ i \in 0..(k - 1) OBVIOUS
    <3> HIDE DEF v
    <3> QED BY <2>2, <2>4, <3>1
  <2>6. ASSUME NEW i \in 1..k PROVE g[i] = step[<<i, g[i - 1]>>]
    <3>1. i - 1 \in 0..k /\ i - 1 # k /\ i \in 0..k OBVIOUS
    <3>2. g[i - 1] = f[i - 1] BY <3>1
    <3>3. CASE i = k BY <3>1, <3>2, <3>3
    <3>4. CASE i # k
      <4>1. i \in 1..(k - 1) BY <3>4
      <4>2. g[i] = f[i] BY <3>1, <3>4
      <4> QED BY <4>1, <4>2, <3>2, <2>2
    <3> QED BY <3>3, <3>4
  <2>7. Begun(k)
    <3>1. Runs(g, k) BY <2>5, <2>6
    <3> QED BY <3>1
  <2> HIDE DEF Begun
  <2> QED BY <2>7
<1>3. n \in S
  <2> HIDE DEF S
  <2>1. 0..n \subseteq S BY <1>1, <1>2, LoopInduction
  <2> QED BY <2>1
<1>4. PICK f : Runs(f, n)
  <2>1. Begun(n)
    <3> HIDE DEF Begun
    <3> QED BY <1>3
  <2> QED BY <2>1
<1>5. Loops(f, n, V, base, step) BY <1>4 DEF Loops
<1> QED BY <1>5

\* Turn by turn, a comprehension takes the element at a position it keeps.
LEMMA KeptSteps ==
  ASSUME NEW S, NEW list \in Seq(S), NEW at
  PROVE  /\ Kept(list, at) \in [0..Len(list) -> Seq(S)]
         /\ Kept(list, at)[0] = <<>>
         /\ \A i \in 1..Len(list) :
               Kept(list, at)[i] = IF i \in at THEN Append(Kept(list, at)[i - 1], list[i])
                                   ELSE Kept(list, at)[i - 1]
<1> DEFINE n == Len(list)
           V == Seq(S)
           step == [p \in (1..n) \X V |-> IF p[1] \in at THEN Append(p[2], list[p[1]])
                                          ELSE p[2]]
           kept == Kept(list, at)
<1>1. n \in Nat /\ <<>> \in V /\ \A i \in 1..n : list[i] \in S OBVIOUS
<1>2. \A p \in (1..n) \X V : p[1] \in 1..n /\ p[2] \in V OBVIOUS
<1>3. \A s \in V, x \in S : Append(s, x) \in V OBVIOUS
<1>4. step \in [(1..n) \X V -> V]
  <2> HIDE DEF V
  <2> QED BY <1>1, <1>2, <1>3
<1>l. PICK f : Loops(f, n, V, <<>>, step)
  <2> HIDE DEF step, V, n
  <2> QED BY <1>1, <1>4, LoopExists
<1>5. f \in [0..n -> V] /\ f[0] = <<>> /\ \A i \in 1..n : f[i] = step[<<i, f[i - 1]>>]
  <2> HIDE DEF step, V, n
  <2> QED BY <1>l DEF Loops
<1>6. \A i \in 1..n : f[i] = IF i \in at THEN Append(f[i - 1], list[i]) ELSE f[i - 1]
  <2> SUFFICES ASSUME NEW i \in 1..n
               PROVE  f[i] = IF i \in at THEN Append(f[i - 1], list[i]) ELSE f[i - 1]
    OBVIOUS
  <2>1. i - 1 \in 0..n BY <1>1
  <2>2. <<i, f[i - 1]>> \in (1..n) \X V
    <3> HIDE DEF V
    <3> QED BY <2>1, <1>5
  <2>3. step[<<i, f[i - 1]>>] = IF i \in at THEN Append(f[i - 1], list[i]) ELSE f[i - 1]
    <3> HIDE DEF V
    <3> QED BY <2>2
  <2> QED BY <1>5, <2>3
<1>7. f = [i \in 0..n |-> IF i = 0 THEN <<>>
                          ELSE IF i \in at THEN Append(f[i - 1], list[i]) ELSE f[i - 1]]
  <2>1. \A i \in 0..n : i = 0 \/ i \in 1..n OBVIOUS
  <2> HIDE DEF V, step
  <2>2. \A i \in 0..n : f[i] = IF i = 0 THEN <<>>
                               ELSE IF i \in at THEN Append(f[i - 1], list[i]) ELSE f[i - 1]
    BY <2>1, <1>5, <1>6
  <2> QED BY <2>2, <1>5
<1>8. kept = [i \in 0..n |-> IF i = 0 THEN <<>>
                             ELSE IF i \in at THEN Append(kept[i - 1], list[i])
                             ELSE kept[i - 1]]
  BY <1>7 DEF Kept
<1> HIDE DEF kept
<1>9. /\ DOMAIN kept = 0..n
      /\ kept[0] = <<>>
      /\ \A i \in 1..n : kept[i] = IF i \in at THEN Append(kept[i - 1], list[i])
                                   ELSE kept[i - 1]
  <2> DEFINE turn(i) == IF i \in at THEN Append(kept[i - 1], list[i]) ELSE kept[i - 1]
  <2>1. kept = [i \in 0..n |-> IF i = 0 THEN <<>> ELSE turn(i)] BY <1>8
  <2> HIDE DEF turn
  <2>2. \A i \in 1..n : i \in 0..n /\ i # 0 BY <1>1
  <2>3. DOMAIN kept = 0..n /\ kept[0] = <<>> /\ \A i \in 1..n : kept[i] = turn(i)
    BY <1>1, <2>1, <2>2
  <2> QED BY <2>3 DEF turn
<1> DEFINE Q == {k \in 0..n : kept[k] \in V}
<1>10. 0..n \subseteq Q
  <2> HIDE DEF V
  <2>1. 0 \in Q BY <1>1, <1>9
  <2>2. ASSUME NEW k \in 1..n, k - 1 \in Q PROVE k \in Q
    BY <2>2, <1>1, <1>3, <1>9
  <2> HIDE DEF Q
  <2> QED BY <1>1, <2>1, <2>2, LoopInduction
<1>11. kept \in [0..n -> V]
  <2> HIDE DEF V
  <2>1. \A k \in 0..n : kept[k] \in V BY <1>10
  <2> QED BY <2>1, <1>8
<1> QED BY <1>9, <1>11 DEF kept


\* taken are the elements of the list at the first k positions that are in at, in
\* their order; pos says where each comes from.
Picks(pos, taken, list, at, k) ==
    /\ pos \in [1..Len(taken) -> at \cap (1..k)]
    /\ \A i, j \in 1..Len(taken) : i < j => pos[i] < pos[j]
    /\ \A i \in 1..Len(taken) : taken[i] = list[pos[i]]
    /\ \A p \in at \cap (1..k) : \E i \in 1..Len(taken) : pos[i] = p

\* A comprehension takes every position it keeps once, in order, and no other.
LEMMA OnlyPicks ==
  ASSUME NEW S, NEW list \in Seq(S), NEW at
  PROVE  /\ Only(list, at) \in Seq(S)
         /\ \E pos : Picks(pos, Only(list, at), list, at, Len(list))
<1> DEFINE n == Len(list)
           kept == Kept(list, at)
           Begun(k) == \E pos : Picks(pos, kept[k], list, at, k)
           Q == {k \in 0..n : Begun(k)}
<1>1. n \in Nat /\ \A i \in 1..n : list[i] \in S OBVIOUS
<1>2. /\ \A k \in 0..n : kept[k] \in Seq(S)
      /\ kept[0] = <<>>
      /\ \A k \in 1..n : kept[k] = IF k \in at THEN Append(kept[k - 1], list[k])
                                   ELSE kept[k - 1]
  BY KeptSteps
<1> HIDE DEF kept
<1>3. 0 \in Q
  <2> DEFINE none == [i \in 1..0 |-> 0]
  <2>1. Len(kept[0]) = 0 BY <1>2
  <2>2. Picks(none, kept[0], list, at, 0) BY <2>1 DEF Picks
  <2>3. Begun(0) BY <2>2
  <2> HIDE DEF Begun
  <2> QED BY <1>1, <2>3
<1>4. ASSUME NEW k \in 1..n, k - 1 \in Q PROVE k \in Q
  <2>0. Begun(k - 1)
    <3> HIDE DEF Begun
    <3> QED BY <1>4
  <2> DEFINE old == kept[k - 1]
             m == Len(old)
  <2>1. PICK pos : Picks(pos, old, list, at, k - 1) BY <2>0
  <2>2. /\ k - 1 \in 0..n /\ k \in 0..n /\ k \in 1..k
        /\ \A p \in 1..(k - 1) : p \in 1..k /\ p < k
        /\ \A p \in 1..k : p = k \/ p \in 1..(k - 1)
    BY <1>1
  <2>3. old \in Seq(S) /\ m \in Nat BY <1>2, <2>2
  <2>4. /\ pos \in [1..m -> at \cap (1..(k - 1))]
        /\ \A i, j \in 1..m : i < j => pos[i] < pos[j]
        /\ \A i \in 1..m : old[i] = list[pos[i]]
        /\ \A p \in at \cap (1..(k - 1)) : \E i \in 1..m : pos[i] = p
    BY <2>1 DEF Picks
  <2>5. CASE k \notin at
    <3>1. kept[k] = old BY <1>2, <2>5
    <3>2. at \cap (1..k) = at \cap (1..(k - 1)) BY <2>2, <2>5
    <3>3. Picks(pos, kept[k], list, at, k) BY <2>1, <3>1, <3>2 DEF Picks
    <3>4. Begun(k) BY <3>3
    <3> HIDE DEF Begun
    <3> QED BY <2>2, <3>4
  <2>6. CASE k \in at
    <3> DEFINE new == kept[k]
               here == [i \in 1..(m + 1) |-> IF i = m + 1 THEN k ELSE pos[i]]
    <3>1. new = Append(old, list[k]) BY <1>2, <2>6
    <3>2. /\ Len(new) = m + 1
          /\ new[m + 1] = list[k]
          /\ \A i \in 1..m : new[i] = old[i]
      BY <3>1, <2>3, <1>1
    <3> HIDE DEF old, m, new
    <3>3. /\ \A i \in 1..(m + 1) : i = m + 1 \/ i \in 1..m
          /\ \A i \in 1..m : i \in 1..(m + 1) /\ i # m + 1
          /\ m + 1 \in 1..(m + 1)
      BY <2>3
    <3>4. here[m + 1] = k /\ \A i \in 1..m : here[i] = pos[i] BY <3>3
    <3>5. here \in [1..(m + 1) -> at \cap (1..k)]
      <4>1. \A i \in 1..m : pos[i] \in at \cap (1..k) BY <2>2, <2>4
      <4>2. \A i \in 1..(m + 1) : here[i] \in at \cap (1..k)
        BY <4>1, <3>3, <3>4, <2>2, <2>6
      <4> QED BY <4>2
    <3> HIDE DEF here
    <3>6. ASSUME NEW i \in 1..(m + 1), NEW j \in 1..(m + 1), i < j PROVE here[i] < here[j]
      <4>1. i \in 1..m BY <3>6, <2>3
      <4>2. here[i] = pos[i] /\ pos[i] \in 1..(k - 1) BY <4>1, <3>4, <2>4
      <4>3. CASE j = m + 1 BY <4>2, <4>3, <3>4, <2>2
      <4>4. CASE j \in 1..m BY <4>1, <4>2, <4>4, <3>4, <3>6, <2>4
      <4> QED BY <4>3, <4>4, <3>3
    <3>7. \A i \in 1..(m + 1) : new[i] = list[here[i]] BY <3>2, <3>3, <3>4, <2>4
    <3>8. ASSUME NEW p \in at \cap (1..k) PROVE \E i \in 1..(m + 1) : here[i] = p
      <4>1. CASE p = k BY <4>1, <3>3, <3>4
      <4>2. CASE p \in 1..(k - 1)
        <5>1. PICK i \in 1..m : pos[i] = p BY <4>2, <2>4
        <5> QED BY <5>1, <3>3, <3>4
      <4> QED BY <4>1, <4>2, <2>2
    <3>9. Picks(here, new, list, at, k) BY <3>2, <3>5, <3>6, <3>7, <3>8 DEF Picks
    <3>10. Begun(k) BY <3>9 DEF new
    <3> HIDE DEF Begun
    <3> QED BY <2>2, <3>10
  <2> QED BY <2>5, <2>6
<1>5. n \in Q
  <2> HIDE DEF Q
  <2>1. 0..n \subseteq Q BY <1>1, <1>3, <1>4, LoopInduction
  <2> QED BY <1>1, <2>1
<1>6. Begun(n)
  <2> HIDE DEF Begun
  <2> QED BY <1>5
<1>7. Only(list, at) = kept[n] BY DEF Only, kept
<1>8. kept[n] \in Seq(S) BY <1>1, <1>2
<1> QED BY <1>6, <1>7, <1>8

\* What a comprehension holds, and what it begins with.
LEMMA OnlyFacts ==
  ASSUME NEW S, NEW list \in Seq(S), NEW at, at \subseteq 1..Len(list)
  PROVE  /\ Only(list, at) \in Seq(S)
         /\ ToSet(Only(list, at)) = {list[p] : p \in at}
         /\ 1 \in at => Only(list, at) # <<>> /\ Only(list, at)[1] = list[1]
<1> DEFINE n == Len(list)
           r == Only(list, at)
<1>1. r \in Seq(S) BY OnlyPicks
<1>2. PICK pos : Picks(pos, r, list, at, n) BY OnlyPicks
<1>3. at \cap (1..n) = at OBVIOUS
<1>4. n \in Nat OBVIOUS
<1> HIDE DEF r, n
<1>5. /\ pos \in [1..Len(r) -> at]
      /\ \A i, j \in 1..Len(r) : i < j => pos[i] < pos[j]
      /\ \A i \in 1..Len(r) : r[i] = list[pos[i]]
      /\ \A p \in at : \E i \in 1..Len(r) : pos[i] = p
  BY <1>2, <1>3 DEF Picks
<1>6. DOMAIN r = 1..Len(r) /\ Len(r) \in Nat BY <1>1
<1>7. ToSet(r) = {list[p] : p \in at}
  <2>1. \A x \in ToSet(r) : \E p \in at : x = list[p]
    <3> SUFFICES ASSUME NEW i \in 1..Len(r) PROVE \E p \in at : r[i] = list[p]
      BY <1>6 DEF ToSet
    <3> QED BY <1>5
  <2>2. \A p \in at : list[p] \in ToSet(r)
    <3> SUFFICES ASSUME NEW p \in at PROVE list[p] \in ToSet(r) OBVIOUS
    <3>1. PICK i \in 1..Len(r) : pos[i] = p BY <1>5
    <3>2. r[i] = list[p] BY <1>5, <3>1
    <3> QED BY <1>6, <3>2 DEF ToSet
  <2> QED BY <2>1, <2>2
<1>8. ASSUME 1 \in at PROVE r # <<>> /\ r[1] = list[1]
  <2>1. PICK i \in 1..Len(r) : pos[i] = 1 BY <1>5, <1>8
  <2>2. 1 \in 1..Len(r) BY <1>6
  <2>3. pos[1] \in 1..n BY <1>5, <2>2 DEF n
  <2>4. i = 1
    <3> SUFFICES ASSUME 1 < i PROVE FALSE BY <1>6
    <3>1. pos[1] < pos[i] BY <1>5, <2>2
    <3> QED BY <3>1, <2>1, <2>3, <1>4
  <2>5. r[1] = list[1] BY <1>5, <2>1, <2>2, <2>4
  <2>6. r # <<>> BY <2>2
  <2> QED BY <2>5, <2>6
<1> QED BY <1>1, <1>7, <1>8 DEF r


-----------------------------------------------------------------------------
(* The plan.                                                               *)

WithRank(changes, rank) == {i \in DOMAIN changes : Rank(changes[i]) = rank}

\* Every change falls under exactly one rank.
LEMMA RanksPartition ==
  ASSUME NEW S, NEW changes \in Seq(S)
  PROVE  /\ \A rank : /\ OfRank(changes, rank) = Only(changes, WithRank(changes, rank))
                      /\ WithRank(changes, rank) \subseteq 1..Len(changes)
                      /\ OfRank(changes, rank) \in Seq(S)
         /\ \A t : Rank(t) \in {0, 1, 2}
         /\ Len(OfRank(changes, 0)) + Len(OfRank(changes, 1)) + Len(OfRank(changes, 2))
              = Len(changes)
<1> DEFINE n == Len(changes)
           kept(rank) == Kept(changes, WithRank(changes, rank))
           Q == {k \in 0..n : Len(kept(0)[k]) + Len(kept(1)[k]) + Len(kept(2)[k]) = k}
<1>1. \A rank : /\ OfRank(changes, rank) = Only(changes, WithRank(changes, rank))
                /\ WithRank(changes, rank) \subseteq 1..n
  BY DEF OfRank, WithRank
<1>2. \A t : Rank(t) \in {0, 1, 2} BY DEF Rank
<1>3. \A rank : OfRank(changes, rank) \in Seq(S) BY <1>1, OnlyPicks
<1>4. n \in Nat /\ DOMAIN changes = 1..n /\ \A i \in 1..n : changes[i] \in S OBVIOUS
<1>5. ASSUME NEW rank
      PROVE  /\ \A k \in 0..n : kept(rank)[k] \in Seq(S)
             /\ kept(rank)[0] = <<>>
             /\ \A k \in 1..n : kept(rank)[k] = IF Rank(changes[k]) = rank
                                                THEN Append(kept(rank)[k - 1], changes[k])
                                                ELSE kept(rank)[k - 1]
  <2>1. \A k \in 1..n : k \in WithRank(changes, rank) <=> Rank(changes[k]) = rank
    BY <1>4 DEF WithRank
  <2> QED BY <2>1, KeptSteps
<1> DEFINE len(rank, k) == Len(kept(rank)[k])
<1>6. ASSUME NEW rank
      PROVE  /\ \A k \in 0..n : len(rank, k) \in Nat
             /\ len(rank, 0) = 0
             /\ \A k \in 1..n : len(rank, k) = len(rank, k - 1)
                                    + IF Rank(changes[k]) = rank THEN 1 ELSE 0
  <2> HIDE DEF kept
  <2>1. \A k \in 0..n : len(rank, k) \in Nat BY <1>5
  <2>2. len(rank, 0) = 0 BY <1>5
  <2>3. ASSUME NEW k \in 1..n
        PROVE  len(rank, k) = len(rank, k - 1) + IF Rank(changes[k]) = rank THEN 1 ELSE 0
    <3>1. k - 1 \in 0..n BY <1>4
    <3>2. kept(rank)[k - 1] \in Seq(S) /\ len(rank, k - 1) \in Nat BY <1>5, <2>1, <3>1
    <3>3. CASE Rank(changes[k]) = rank
      <4>1. kept(rank)[k] = Append(kept(rank)[k - 1], changes[k]) BY <1>5, <3>3
      <4> QED BY <1>4, <3>2, <3>3, <4>1
    <3>4. CASE Rank(changes[k]) # rank
      <4>1. kept(rank)[k] = kept(rank)[k - 1] BY <1>5, <3>4
      <4> QED BY <3>2, <3>4, <4>1
    <3> QED BY <3>3, <3>4
  <2> QED BY <2>1, <2>2, <2>3
<1>7. n \in Q
  <2>0. \A k : k \in Q <=> k \in 0..n /\ len(0, k) + len(1, k) + len(2, k) = k OBVIOUS
  <2> HIDE DEF len, kept, Q
  <2>1. 0 \in Q BY <2>0, <1>4, <1>6
  <2>2. ASSUME NEW k \in 1..n, k - 1 \in Q PROVE k \in Q
    <3>1. k - 1 \in 0..n /\ k \in 0..n BY <1>4
    <3>2. Rank(changes[k]) \in {0, 1, 2} BY <1>2
    <3>3. /\ len(0, k - 1) \in Nat /\ len(1, k - 1) \in Nat /\ len(2, k - 1) \in Nat
          /\ len(0, k) = len(0, k - 1) + (IF Rank(changes[k]) = 0 THEN 1 ELSE 0)
          /\ len(1, k) = len(1, k - 1) + (IF Rank(changes[k]) = 1 THEN 1 ELSE 0)
          /\ len(2, k) = len(2, k - 1) + (IF Rank(changes[k]) = 2 THEN 1 ELSE 0)
      BY <1>6, <3>1
    <3>4. len(0, k) + len(1, k) + len(2, k) = len(0, k - 1) + len(1, k - 1) + len(2, k - 1) + 1
      BY <3>2, <3>3
    <3>5. len(0, k - 1) + len(1, k - 1) + len(2, k - 1) = k - 1 BY <2>0, <2>2
    <3>6. len(0, k) + len(1, k) + len(2, k) = k BY <3>4, <3>5
    <3> QED BY <2>0, <3>1, <3>6
  <2>3. 0..n \subseteq Q BY <1>4, <2>1, <2>2, LoopInduction
  <2> QED BY <1>4, <2>3
<1>8. \A rank : OfRank(changes, rank) = kept(rank)[n] BY <1>1 DEF Only
<1> QED BY <1>1, <1>2, <1>3, <1>7, <1>8


\* The i-th of the sorted changes comes from position order[i] of the brief: each
\* change once, by rank, and in the brief's order within a rank.
Sorts(order, ordered, changes, n) ==
    /\ order \in [1..n -> 1..n]
    /\ \A i \in 1..n : ordered[i] = changes[order[i]]
    /\ \A i, j \in 1..n : i < j =>
          \/ Rank(ordered[i]) < Rank(ordered[j])
          \/ Rank(ordered[i]) = Rank(ordered[j]) /\ order[i] < order[j]
    /\ \A p \in 1..n : \E i \in 1..n : order[i] = p

LEMMA SortedFacts ==
  ASSUME NEW S, NEW changes \in Seq(S)
  PROVE  /\ SortedByRank(changes) \in Seq(S)
         /\ Len(SortedByRank(changes)) = Len(changes)
         /\ \E order : Sorts(order, SortedByRank(changes), changes, Len(changes))
<1> DEFINE n == Len(changes)
           a == OfRank(changes, 0)
           b == OfRank(changes, 1)
           c == OfRank(changes, 2)
           la == Len(a)
           lb == Len(b)
           lc == Len(c)
           o == SortedByRank(changes)
<1>1. /\ a \in Seq(S) /\ b \in Seq(S) /\ c \in Seq(S)
      /\ la + lb + lc = n
      /\ \A t : Rank(t) \in {0, 1, 2}
  BY RanksPartition
<1>2. n \in Nat /\ la \in Nat /\ lb \in Nat /\ lc \in Nat BY <1>1
<1>3. o = (a \o b) \o c BY DEF SortedByRank
<1> HIDE DEF o, a, b, c
<1>4. /\ o \in Seq(S) /\ Len(o) = n
      /\ \A i \in 1..la : o[i] = a[i]
      /\ \A i \in 1..lb : o[la + i] = b[i]
      /\ \A i \in 1..lc : o[la + lb + i] = c[i]
  <2> DEFINE ab == a \o b
  <2>1. /\ ab \in Seq(S) /\ Len(ab) = la + lb
        /\ \A i \in 1..la : ab[i] = a[i]
        /\ \A i \in 1..lb : ab[la + i] = b[i]
    BY <1>1
  <2>2. o = ab \o c BY <1>3
  <2> HIDE DEF ab
  <2>3. o \in Seq(S) /\ Len(o) = Len(ab) + lc
    <3>1. ab \in Seq(S) /\ c \in Seq(S) BY <1>1, <2>1
    <3>2. ab \o c \in Seq(S) BY <3>1
    <3>3. Len(ab \o c) = Len(ab) + Len(c) BY <3>1
    <3> QED BY <2>2, <3>2, <3>3
  <2>4. \A i \in 1..(la + lb) : o[i] = ab[i] BY <1>1, <2>1, <2>2
  <2>5. \A i \in 1..lc : o[Len(ab) + i] = c[i]
    <3> SUFFICES ASSUME NEW i \in 1..lc PROVE o[Len(ab) + i] = c[i] OBVIOUS
    <3> QED BY <1>1, <2>1, <2>2
  <2> HIDE DEF la, lb, lc
  <2>6. /\ \A i \in 1..la : i \in 1..(la + lb)
        /\ \A i \in 1..lb : la + i \in 1..(la + lb)
    BY <1>2
  <2> QED BY <1>1, <1>2, <2>1, <2>3, <2>4, <2>5, <2>6
<1>5. ASSUME NEW rank
      PROVE  \E pos : Picks(pos, OfRank(changes, rank), changes, WithRank(changes, rank), n)
  <2>1. OfRank(changes, rank) = Only(changes, WithRank(changes, rank)) BY RanksPartition
  <2>2. \E pos : Picks(pos, Only(changes, WithRank(changes, rank)), changes,
                     WithRank(changes, rank), Len(changes))
    BY OnlyPicks
  <2> QED BY <2>1, <2>2
<1>6. \A rank : WithRank(changes, rank) \cap (1..n)
                  = {p \in 1..n : Rank(changes[p]) = rank}
  BY DEF WithRank
<1>7. ASSUME NEW rank, NEW pos,
             Picks(pos, OfRank(changes, rank), changes, WithRank(changes, rank), n),
             NEW l, l = Len(OfRank(changes, rank))
      PROVE  /\ \A i \in 1..l : pos[i] \in 1..n /\ Rank(changes[pos[i]]) = rank
             /\ \A i, j \in 1..l : i < j => pos[i] < pos[j]
             /\ \A i \in 1..l : OfRank(changes, rank)[i] = changes[pos[i]]
             /\ \A p \in 1..n : Rank(changes[p]) = rank => \E i \in 1..l : pos[i] = p
  BY <1>6, <1>7 DEF Picks
<1>8. PICK pa : Picks(pa, a, changes, WithRank(changes, 0), n) BY <1>5 DEF a
<1>9. PICK pb : Picks(pb, b, changes, WithRank(changes, 1), n) BY <1>5 DEF b
<1>10. PICK pc : Picks(pc, c, changes, WithRank(changes, 2), n) BY <1>5 DEF c
<1>a. /\ \A i \in 1..la : pa[i] \in 1..n /\ Rank(changes[pa[i]]) = 0
      /\ \A i, j \in 1..la : i < j => pa[i] < pa[j]
      /\ \A i \in 1..la : a[i] = changes[pa[i]]
      /\ \A p \in 1..n : Rank(changes[p]) = 0 => \E i \in 1..la : pa[i] = p
  BY <1>7, <1>8 DEF a
<1>b. /\ \A i \in 1..lb : pb[i] \in 1..n /\ Rank(changes[pb[i]]) = 1
      /\ \A i, j \in 1..lb : i < j => pb[i] < pb[j]
      /\ \A i \in 1..lb : b[i] = changes[pb[i]]
      /\ \A p \in 1..n : Rank(changes[p]) = 1 => \E i \in 1..lb : pb[i] = p
  BY <1>7, <1>9 DEF b
<1>c. /\ \A i \in 1..lc : pc[i] \in 1..n /\ Rank(changes[pc[i]]) = 2
      /\ \A i, j \in 1..lc : i < j => pc[i] < pc[j]
      /\ \A i \in 1..lc : c[i] = changes[pc[i]]
      /\ \A p \in 1..n : Rank(changes[p]) = 2 => \E i \in 1..lc : pc[i] = p
  BY <1>7, <1>10 DEF c
<1> HIDE DEF la, lb, lc, n
<1>s. /\ \A i \in 1..n : \/ i \in 1..la
                         \/ i - la \in 1..lb /\ i > la
                         \/ i - (la + lb) \in 1..lc /\ i > la + lb
      /\ \A i \in 1..la : i \in 1..n
      /\ \A i \in 1..lb : la + i \in 1..n /\ ~(la + i <= la) /\ (la + i) - la = i
      /\ \A i \in 1..lc : /\ la + lb + i \in 1..n /\ ~(la + lb + i <= la + lb)
                          /\ ~(la + lb + i <= la) /\ (la + lb + i) - (la + lb) = i
  BY <1>1, <1>2
<1> DEFINE from(i) == IF i <= la THEN pa[i]
                      ELSE IF i <= la + lb THEN pb[i - la] ELSE pc[i - (la + lb)]
           order == [i \in 1..n |-> from(i)]
           InA(i) == i <= la /\ order[i] = pa[i] /\ Rank(o[i]) = 0 /\ i \in 1..la
           InB(i) == /\ la < i /\ i <= la + lb /\ order[i] = pb[i - la]
                     /\ Rank(o[i]) = 1 /\ i - la \in 1..lb
           InC(i) == /\ la + lb < i /\ order[i] = pc[i - (la + lb)]
                     /\ Rank(o[i]) = 2 /\ i - (la + lb) \in 1..lc
<1>11. ASSUME NEW i \in 1..n
       PROVE  /\ order[i] \in 1..n /\ o[i] = changes[order[i]]
              /\ InA(i) \/ InB(i) \/ InC(i)
  <2>0. order[i] = from(i) OBVIOUS
  <2>1. CASE i \in 1..la
    <3>1. i <= la BY <2>1, <1>2
    <3>2. order[i] = pa[i] BY <2>0, <3>1
    <3> QED BY <2>1, <3>1, <3>2, <1>4, <1>a
  <2>2. CASE i - la \in 1..lb /\ i > la
    <3>1. ~(i <= la) /\ i <= la + lb /\ la < i /\ la + (i - la) = i BY <2>2, <1>2
    <3>2. order[i] = pb[i - la] BY <2>0, <3>1
    <3>3. o[i] = b[i - la] BY <2>2, <3>1, <1>4
    <3> QED BY <2>2, <3>1, <3>2, <3>3, <1>b
  <2>3. CASE i - (la + lb) \in 1..lc /\ i > la + lb
    <3>1. /\ ~(i <= la) /\ ~(i <= la + lb) /\ la + lb < i
          /\ la + lb + (i - (la + lb)) = i
      BY <2>3, <1>2
    <3>2. order[i] = pc[i - (la + lb)] BY <2>0, <3>1
    <3>3. o[i] = c[i - (la + lb)] BY <2>3, <3>1, <1>4
    <3> QED BY <2>3, <3>1, <3>2, <3>3, <1>c
  <2> QED BY <2>1, <2>2, <2>3, <1>s
<1>12. order \in [1..n -> 1..n]
  <2>1. \A i \in 1..n : order[i] \in 1..n BY <1>11
  <2> QED BY <2>1
<1>13. ASSUME NEW p \in 1..n PROVE \E i \in 1..n : order[i] = p
  <2>1. CASE Rank(changes[p]) = 0
    <3>1. PICK i \in 1..la : pa[i] = p BY <2>1, <1>a
    <3>2. i \in 1..n /\ i <= la BY <1>s, <1>2
    <3>3. order[i] = p BY <3>1, <3>2
    <3> QED BY <3>2, <3>3
  <2>2. CASE Rank(changes[p]) = 1
    <3>1. PICK i \in 1..lb : pb[i] = p BY <2>2, <1>b
    <3>2. la + i \in 1..n /\ ~(la + i <= la) /\ la + i <= la + lb /\ (la + i) - la = i
      BY <1>s, <1>2
    <3>3. order[la + i] = p BY <3>1, <3>2
    <3> QED BY <3>2, <3>3
  <2>3. CASE Rank(changes[p]) = 2
    <3>1. PICK i \in 1..lc : pc[i] = p BY <2>3, <1>c
    <3>2. /\ la + lb + i \in 1..n /\ ~(la + lb + i <= la) /\ ~(la + lb + i <= la + lb)
          /\ (la + lb + i) - (la + lb) = i
      BY <1>s, <1>2
    <3>3. order[la + lb + i] = p BY <3>1, <3>2
    <3> QED BY <3>2, <3>3
  <2> QED BY <2>1, <2>2, <2>3, <1>1
<1> HIDE DEF order
<1>14. ASSUME NEW i \in 1..n, NEW j \in 1..n, i < j
       PROVE  \/ Rank(o[i]) < Rank(o[j])
              \/ Rank(o[i]) = Rank(o[j]) /\ order[i] < order[j]
  <2>1. (InA(i) \/ InB(i) \/ InC(i)) /\ (InA(j) \/ InB(j) \/ InC(j)) BY <1>11
  <2>2. i \in Nat /\ j \in Nat BY <1>2
  <2>3. CASE InA(i) /\ InA(j)
    BY <2>3, <1>14, <1>a
  <2>4. CASE InB(i) /\ InB(j)
    <3>1. i - la < j - la BY <2>2, <1>2, <1>14
    <3> QED BY <2>4, <3>1, <1>b
  <2>5. CASE InC(i) /\ InC(j)
    <3>1. i - (la + lb) < j - (la + lb) BY <2>2, <1>2, <1>14
    <3> QED BY <2>5, <3>1, <1>c
  <2>6. CASE InA(i) /\ (InB(j) \/ InC(j)) BY <2>6
  <2>7. CASE InB(i) /\ InC(j) BY <2>7
  <2>8. ~(InB(i) /\ InA(j)) /\ ~(InC(i) /\ InA(j)) /\ ~(InC(i) /\ InB(j))
    BY <2>2, <1>2, <1>14
  <2> QED BY <2>1, <2>3, <2>4, <2>5, <2>6, <2>7, <2>8
<1>15. Sorts(order, o, changes, n) BY <1>11, <1>12, <1>13, <1>14 DEF Sorts
<1> QED BY <1>4, <1>15 DEF o, n


\* A brief, and an answer of the model that has the shape of a plan.
PlanInput ==
    /\ input.changes \in Seq(Targets)
    /\ input.answer \in Seq([targets : Seq(Targets \cup {Blank}), worded : BOOLEAN])

\* The numbered steps are a list of the same length.
LEMMA NumberedFacts ==
  ASSUME NEW m \in Nat, NEW T1, DOMAIN T1 = 1..m
  PROVE  /\ DOMAIN Numbered(T1) = 1..m
         /\ \A i \in 1..m : Numbered(T1)[i] = [n |-> i, targets |-> T1[i], enhance |-> FALSE]
         /\ \E R : Numbered(T1) \in Seq(R)
         /\ Len(Numbered(T1)) = m
         /\ Numbered(T1) = <<>> <=> m = 0
<1> DEFINE step(i) == [n |-> i, targets |-> T1[i], enhance |-> FALSE]
           f == Numbered(T1)
           R == {step(i) : i \in 1..m}
<1>1. f = [i \in 1..m |-> step(i)] BY DEF Numbered
<1> HIDE DEF f, step
<1>2. DOMAIN f = 1..m /\ (\A i \in 1..m : f[i] = step(i)) /\ f \in [1..m -> R] BY <1>1
<1> HIDE DEF R
<1>3. f \in Seq(R) BY <1>2
<1>4. Len(f) = m BY <1>2, <1>3
<1>5. f = <<>> <=> m = 0 BY <1>3, <1>4
<1> QED BY <1>2, <1>3, <1>4, <1>5 DEF f, step

\* The plan is m numbered steps with these targets, and the enhance step.
Planned(plan, m, T1) ==
    /\ Len(plan) = m + 1 /\ DOMAIN plan = 1..(m + 1)
    /\ \A i \in 1..(m + 1) : plan[i].n = i /\ (plan[i].enhance <=> i = m + 1)
    /\ \A i \in 1..m : plan[i].targets = T1[i]
    /\ UNION {ToSet(plan[i].targets) : i \in DOMAIN plan} = UNION {ToSet(T1[i]) : i \in 1..m}

LEMMA PlanShape ==
  ASSUME NEW m \in Nat \ {0}, NEW T1, DOMAIN T1 = 1..m, NEW plan,
         plan = Append(Numbered(T1), EnhanceStep(Len(Numbered(T1)) + 1))
  PROVE  Planned(plan, m, T1)
<1> DEFINE f == Numbered(T1)
           e == EnhanceStep(m + 1)
<1>1. /\ \A i \in 1..m : f[i] = [n |-> i, targets |-> T1[i], enhance |-> FALSE]
      /\ \E R : f \in Seq(R)
      /\ Len(f) = m
  BY NumberedFacts
<1>2. e.n = m + 1 /\ e.targets = <<>> /\ e.enhance = TRUE BY DEF EnhanceStep
<1>3. plan = Append(f, e) BY <1>1
<1> HIDE DEF f, e
<1>4. PICK R : f \in Seq(R) BY <1>1
<1>5. /\ Len(plan) = m + 1 /\ DOMAIN plan = 1..(m + 1) /\ plan[m + 1] = e
      /\ \A i \in 1..m : plan[i] = f[i]
  <2> DEFINE R1 == R \cup {e}
  <2>1. f \in Seq(R1) /\ e \in R1
    <3>1. f \in [1..m -> R] BY <1>1, <1>4
    <3>2. f \in [1..m -> R1] BY <3>1
    <3> QED BY <3>2
  <2> HIDE DEF R1
  <2>2. plan \in Seq(R1) /\ Len(plan) = m + 1
    <3>1. Len(f) = m BY <1>1
    <3>2. Append(f, e) \in Seq(R1) /\ Len(Append(f, e)) = Len(f) + 1 BY <2>1
    <3> QED BY <1>3, <3>1, <3>2
  <2>3. plan[m + 1] = e /\ \A i \in 1..m : plan[i] = f[i] BY <1>1, <1>3, <2>1
  <2> QED BY <2>2, <2>3
<1>6. \A i \in 1..(m + 1) : i = m + 1 \/ (i \in 1..m /\ i # m + 1) OBVIOUS
<1>7. \A i \in 1..m : /\ plan[i].n = i /\ plan[i].targets = T1[i] /\ plan[i].enhance = FALSE
  BY <1>1, <1>5
<1>8. \A i \in 1..(m + 1) : plan[i].n = i /\ (plan[i].enhance <=> i = m + 1)
  BY <1>2, <1>5, <1>6, <1>7
<1>9. ToSet(plan[m + 1].targets) = {} BY <1>2, <1>5 DEF ToSet
<1>10. UNION {ToSet(plan[i].targets) : i \in 1..(m + 1)} = UNION {ToSet(T1[i]) : i \in 1..m}
  <2>1. \A i \in 1..m : i \in 1..(m + 1) /\ ToSet(plan[i].targets) = ToSet(T1[i])
    <3>1. \A i \in 1..m : i \in 1..(m + 1) OBVIOUS
    <3>2. \A i \in 1..m : plan[i].targets = T1[i] BY <1>7
    <3> QED BY <3>1, <3>2, Zenon
  <2>2. \A i \in 1..(m + 1) : ToSet(plan[i].targets) = {} \/
                              (i \in 1..m /\ ToSet(plan[i].targets) = ToSet(T1[i]))
    BY <1>6, <1>9, <2>1
  <2> QED BY <2>1, <2>2
<1> QED BY <1>5, <1>7, <1>8, <1>10 DEF Planned

\* What the plan is made of: the validated answer, the sorted changes, or one
\* empty step.
LEMMA PlanCases ==
  ASSUME PlanInput
  PROVE  \E m \in Nat \ {0} : \E T1 :
           /\ DOMAIN T1 = 1..m
           /\ Plan = Append(Numbered(T1), EnhanceStep(Len(Numbered(T1)) + 1))
           /\ \/ /\ Valid(input.answer, input.changes, input.inventory)
                 /\ m = Len(input.answer)
                 /\ \A i \in 1..m : ToSet(T1[i]) = Covers(input.answer[i])
              \/ /\ input.changes # <<>> /\ m = Len(input.changes)
                 /\ \A i \in 1..m : T1[i] = <<SortedByRank(input.changes)[i]>>
              \/ /\ input.changes = <<>> /\ m = 1 /\ T1[1] = <<>>
<1> DEFINE answer == input.answer
           changes == input.changes
           steps == PlanResult(answer, changes, input.inventory, input.preserve)
           main == IF steps = <<>> THEN Numbered(<< <<>> >>) ELSE steps
           ordered == SortedByRank(changes)
           TA == [i \in DOMAIN answer |-> Clean(answer[i].targets)]
           TD == [i \in DOMAIN ordered |-> <<ordered[i]>>]
           TE == << <<>> >>
<1>1. Plan = Append(main, EnhanceStep(Len(main) + 1)) BY DEF Plan, Proposed
<1>2. answer \in Seq([targets : Seq(Targets \cup {Blank}), worded : BOOLEAN])
  BY DEF PlanInput
<1>3. changes \in Seq(Targets) BY DEF PlanInput
<1>4. ordered \in Seq(Targets) /\ Len(ordered) = Len(changes) BY <1>3, SortedFacts
<1>5. \/ Valid(answer, changes, input.inventory) /\ steps = Numbered(TA)
      \/ steps = Numbered(TD)
  BY DEF PlanResult, ParseSteps, DeterministicSteps
<1> HIDE DEF answer, changes, steps, ordered
<1>6. CASE Valid(answer, changes, input.inventory) /\ steps = Numbered(TA)
  <2> DEFINE m == Len(answer)
  <2>1. answer # <<>> BY <1>6 DEF Valid
  <2>2. m \in Nat \ {0} /\ DOMAIN answer = 1..m BY <1>2, <2>1
  <2>3. DOMAIN TA = 1..m /\ \A i \in 1..m : TA[i] = Clean(answer[i].targets) BY <2>2
  <2> HIDE DEF TA
  <2>4. \A i \in 1..m : ToSet(TA[i]) = Covers(answer[i]) BY <2>3 DEF Covers
  <2>5. steps # <<>> BY <1>6, <2>2, <2>3, NumberedFacts
  <2>6. Plan = Append(Numbered(TA), EnhanceStep(Len(Numbered(TA)) + 1)) BY <1>1, <1>6, <2>5
  <2> QED BY <1>6, <2>2, <2>3, <2>4, <2>6 DEF answer, changes
<1>7. CASE steps = Numbered(TD) /\ changes # <<>>
  <2> DEFINE m == Len(changes)
  <2>1. m \in Nat \ {0} BY <1>3, <1>7
  <2>2. DOMAIN TD = 1..m /\ \A i \in 1..m : TD[i] = <<ordered[i]>> BY <1>4, <2>1
  <2> HIDE DEF TD
  <2>3. steps # <<>> BY <1>7, <2>1, <2>2, NumberedFacts
  <2>4. Plan = Append(Numbered(TD), EnhanceStep(Len(Numbered(TD)) + 1)) BY <1>1, <1>7, <2>3
  <2> QED BY <1>7, <2>1, <2>2, <2>4 DEF changes, ordered
<1>8. CASE steps = Numbered(TD) /\ changes = <<>>
  <2>1. Len(changes) = 0 BY <1>8
  <2>2. DOMAIN TD = 1..0 BY <1>4, <2>1
  <2> HIDE DEF TD
  <2>3. steps = <<>> BY <1>8, <2>2, NumberedFacts
  <2>4. Plan = Append(Numbered(TE), EnhanceStep(Len(Numbered(TE)) + 1)) BY <1>1, <2>3
  <2>5. 1 \in Nat \ {0} /\ DOMAIN TE = 1..1 /\ TE[1] = <<>> OBVIOUS
  <2> HIDE DEF TE
  <2> QED BY <1>8, <2>4, <2>5 DEF changes
<1> QED BY <1>5, <1>6, <1>7, <1>8


\* The list <<x>> holds x.
LEMMA Singleton ==
  ASSUME NEW x
  PROVE  ToSet(<<x>>) = {x} /\ <<x>>[1] = x
  BY DEF ToSet

\* Whatever the model answers, the plan edits everything the brief names and, with
\* no inventory to suggest more, nothing else; it is numbered, with one enhance
\* step, the last; and planned without a model it takes the changes of the brief
\* each once, the safest first (planner.py, openrouter_planner.py, plan_steps).
THEOREM PlanAlwaysFollowsBrief ==
  ASSUME input.rule = "plan" => PlanInput
  PROVE  PlanFollowsBrief
<1> SUFFICES ASSUME input.rule = "plan", PlanInput PROVE PlanCoversBrief /\ SafestFirst
  BY DEF PlanFollowsBrief, PlanCoversBrief, SafestFirst
<1> DEFINE answer == input.answer
           changes == input.changes
           ordered == SortedByRank(changes)
<1>0. changes \in Seq(Targets) BY DEF PlanInput
<1>1. PICK m \in Nat \ {0} : \E T1 :
           /\ DOMAIN T1 = 1..m
           /\ Plan = Append(Numbered(T1), EnhanceStep(Len(Numbered(T1)) + 1))
           /\ \/ /\ Valid(answer, changes, input.inventory)
                 /\ m = Len(answer)
                 /\ \A i \in 1..m : ToSet(T1[i]) = Covers(answer[i])
              \/ /\ changes # <<>> /\ m = Len(changes)
                 /\ \A i \in 1..m : T1[i] = <<ordered[i]>>
              \/ /\ changes = <<>> /\ m = 1 /\ T1[1] = <<>>
  BY PlanCases
<1>2. PICK T1 :
           /\ DOMAIN T1 = 1..m
           /\ Plan = Append(Numbered(T1), EnhanceStep(Len(Numbered(T1)) + 1))
           /\ \/ /\ Valid(answer, changes, input.inventory)
                 /\ m = Len(answer)
                 /\ \A i \in 1..m : ToSet(T1[i]) = Covers(answer[i])
              \/ /\ changes # <<>> /\ m = Len(changes)
                 /\ \A i \in 1..m : T1[i] = <<ordered[i]>>
              \/ /\ changes = <<>> /\ m = 1 /\ T1[1] = <<>>
  BY <1>1
<1>3. /\ Len(Plan) = m + 1 /\ DOMAIN Plan = 1..(m + 1)
      /\ \A i \in 1..(m + 1) : Plan[i].n = i /\ (Plan[i].enhance <=> i = m + 1)
      /\ \A i \in 1..m : Plan[i].targets = T1[i]
      /\ UNION {ToSet(Plan[i].targets) : i \in DOMAIN Plan} = UNION {ToSet(T1[i]) : i \in 1..m}
  <2>1. /\ DOMAIN T1 = 1..m
        /\ Plan = Append(Numbered(T1), EnhanceStep(Len(Numbered(T1)) + 1))
    BY <1>2
  <2>2. Planned(Plan, m, T1) BY <2>1, PlanShape
  <2> QED BY <2>2 DEF Planned
<1>4. Covered = UNION {ToSet(T1[i]) : i \in 1..m} BY <1>3 DEF Covered
<1>5. PICK order : Sorts(order, ordered, changes, Len(changes)) BY <1>0, SortedFacts
<1>6. DOMAIN changes = 1..Len(changes) /\ Len(changes) \in Nat BY <1>0
<1>7. /\ Explicit(changes) \subseteq Covered
      /\ ~input.inventory => Covered \subseteq Explicit(changes)
  <2>1. CASE /\ Valid(answer, changes, input.inventory)
             /\ m = Len(answer)
             /\ \A i \in 1..m : ToSet(T1[i]) = Covers(answer[i])
    <3>1. DOMAIN answer = 1..m BY <2>1 DEF PlanInput
    <3>2. Covered = UNION {Covers(answer[i]) : i \in DOMAIN answer}
      <4> HIDE DEF answer
      <4> QED BY <1>4, <2>1, <3>1
    <3> HIDE DEF answer, changes
    <3>3. Explicit(changes) \subseteq Covered BY <2>1, <3>2 DEF Valid
    <3>4. ~input.inventory => \A i \in DOMAIN answer : Covers(answer[i]) \subseteq Explicit(changes)
      BY <2>1 DEF Valid
    <3> QED BY <3>2, <3>3, <3>4
  <2>2. CASE /\ changes # <<>> /\ m = Len(changes)
             /\ \A i \in 1..m : T1[i] = <<ordered[i]>>
    <3> HIDE DEF ordered, changes
    <3>1. /\ \A i \in 1..m : order[i] \in 1..m /\ ordered[i] = changes[order[i]]
          /\ \A p \in 1..m : \E i \in 1..m : order[i] = p
      BY <1>5, <2>2 DEF Sorts
    <3>2. \A i \in 1..m : ToSet(T1[i]) = {ordered[i]} BY <2>2, Singleton
    <3>3. Explicit(changes) = {changes[p] : p \in 1..m} BY <1>6, <2>2 DEF Explicit, ToSet
    <3> DEFINE held(i) == ToSet(T1[i])
    <3>4. ASSUME NEW i \in 1..m PROVE held(i) \subseteq Explicit(changes)
      <4>1. order[i] \in 1..m /\ held(i) = {changes[order[i]]} BY <3>1, <3>2
      <4> QED BY <3>3, <4>1
    <3>5. ASSUME NEW p \in 1..m PROVE \E i \in 1..m : changes[p] \in held(i)
      <4>1. PICK i \in 1..m : order[i] = p BY <3>1
      <4>2. held(i) = {changes[p]} BY <3>1, <3>2, <4>1
      <4> QED BY <4>2
    <3>6. Covered = UNION {held(i) : i \in 1..m} BY <1>4
    <3> HIDE DEF held
    <3> QED BY <3>3, <3>4, <3>5, <3>6
  <2>3. CASE changes = <<>> /\ m = 1 /\ T1[1] = <<>>
    <3>1. Explicit(changes) = {} BY <2>3 DEF Explicit, ToSet
    <3>2. ToSet(T1[1]) = {} BY <2>3 DEF ToSet
    <3>3. \A i \in 1..m : i = 1 BY <2>3
    <3> QED BY <1>4, <3>1, <3>2, <3>3
  <2> QED BY <1>2, <2>1, <2>2, <2>3
<1>8. PlanCoversBrief
  <2>1. Len(Plan) >= 2 BY <1>3
  <2> QED BY <1>3, <1>7, <2>1 DEF PlanCoversBrief
<1>9. ASSUME answer = <<>>, changes # <<>> PROVE SafestFirst
  <2> DEFINE n == Len(changes)
             step(i) == Plan[i].targets[1]
  <2>1. ~Valid(answer, changes, input.inventory) BY <1>9 DEF Valid
  <2>2. m = n /\ \A i \in 1..m : T1[i] = <<ordered[i]>> BY <1>2, <1>9, <2>1
  <2>3. Len(Plan) = n + 1 BY <1>3, <2>2
  <2> HIDE DEF changes, ordered
  <2>4. \A i \in 1..n : step(i) = ordered[i]
    <3> SUFFICES ASSUME NEW i \in 1..n PROVE step(i) = ordered[i] OBVIOUS
    <3>1. Plan[i].targets = <<ordered[i]>> BY <1>3, <2>2
    <3> QED BY <3>1, Singleton
  <2>5. /\ order \in [1..n -> 1..n]
        /\ \A i \in 1..n : ordered[i] = changes[order[i]]
        /\ \A i, j \in 1..n : i < j =>
              \/ Rank(ordered[i]) < Rank(ordered[j])
              \/ Rank(ordered[i]) = Rank(ordered[j]) /\ order[i] < order[j]
    BY <1>5 DEF Sorts
  <2> HIDE DEF n, step
  <2>6. ASSUME NEW i \in 1..n, NEW j \in 1..n, i < j PROVE order[i] # order[j]
    <3> SUFFICES ASSUME order[i] = order[j] PROVE FALSE OBVIOUS
    <3>1. ordered[i] = ordered[j] BY <2>5
    <3>2. Rank(ordered[i]) \in {0, 1, 2} BY DEF Rank
    <3>3. order[i] < order[j] BY <2>5, <2>6, <3>1, <3>2
    <3>4. order[i] \in 1..n /\ n \in Nat BY <2>5, <1>6 DEF n
    <3> QED BY <3>3, <3>4
  <2>7. \A i, j \in 1..n : i # j => order[i] # order[j]
    <3>1. n \in Nat BY <1>6 DEF n
    <3>2. \A i, j \in 1..n : i # j => i < j \/ j < i BY <3>1
    <3> QED BY <2>6, <3>2
  <2>8. \E o \in [1..n -> 1..n] :
          /\ \A i, j \in 1..n : i # j => o[i] # o[j]
          /\ \A i \in 1..n : step(i) = changes[o[i]]
          /\ \A i, j \in 1..n : i < j =>
              \/ Rank(step(i)) < Rank(step(j))
              \/ Rank(step(i)) = Rank(step(j)) /\ o[i] < o[j]
    <3>1. \A i \in 1..n : step(i) = changes[order[i]] BY <2>4, <2>5
    <3>2. \A i, j \in 1..n : i < j =>
              \/ Rank(step(i)) < Rank(step(j))
              \/ Rank(step(i)) = Rank(step(j)) /\ order[i] < order[j]
      <4> SUFFICES ASSUME NEW i \in 1..n, NEW j \in 1..n, i < j
                   PROVE  \/ Rank(step(i)) < Rank(step(j))
                          \/ Rank(step(i)) = Rank(step(j)) /\ order[i] < order[j]
        OBVIOUS
      <4>1. step(i) = ordered[i] /\ step(j) = ordered[j] BY <2>4
      <4> QED BY <2>5, <4>1
    <3>3. order \in [1..n -> 1..n] BY <2>5
    <3> WITNESS order \in [1..n -> 1..n]
    <3> QED BY <3>1, <3>2, <2>7
  <2> QED BY <2>3, <2>8 DEF SafestFirst, n, step, changes
<1> QED BY <1>8, <1>9 DEF SafestFirst


-----------------------------------------------------------------------------
(* The ledger of completed steps.                                          *)

\* A step of the chain that has not run, over a set of words.
LockStep(words) ==
    [n : Nat, targets : SUBSET words, words : SUBSET words, applied : SUBSET words,
     status : {"pending", "completed"}]

\* The phrase that locks what a step has done.
Entry(step) == [n |-> step.n, text |-> IF step.applied = {} THEN step.words
                                       ELSE step.applied]

\* What the ledger has to hold after the first k steps.
LedgerOf(steps, k) ==
    [applied |-> [j \in 1..k |-> Entry(steps[j])],
     targets |-> UNION {steps[j].targets : j \in 1..k},
     words |-> UNION {steps[j].words : j \in 1..k}]

\* The same edit, whatever its status.
SameEdit(s, t) == /\ s.n = t.n /\ s.targets = t.targets /\ s.words = t.words
                  /\ s.applied = t.applied

LEMMA LedgerTypes ==
  ASSUME NEW W, NEW steps \in Seq(LockStep(W)), NEW k \in 0..Len(steps)
  PROVE  /\ LedgerOf(steps, k).applied \in Seq([n : Nat, text : SUBSET W])
         /\ Len(LedgerOf(steps, k).applied) = k
         /\ \A j \in 1..k : LedgerOf(steps, k).applied[j] = Entry(steps[j])
<1> DEFINE E == [n : Nat, text : SUBSET W]
           e == [j \in 1..k |-> Entry(steps[j])]
<1>1. k \in Nat /\ \A j \in 1..k : j \in 1..Len(steps) OBVIOUS
<1>2. ASSUME NEW j \in 1..k PROVE Entry(steps[j]) \in E
  <2>1. steps[j] \in LockStep(W) BY <1>1
  <2>2. /\ steps[j].n \in Nat /\ steps[j].words \in SUBSET W
        /\ steps[j].applied \in SUBSET W
    BY <2>1 DEF LockStep
  <2> QED BY <2>2 DEF Entry
<1> HIDE DEF E
<1>3. e \in [1..k -> E] BY <1>2
<1>4. e \in Seq(E) /\ Len(e) = k /\ \A j \in 1..k : e[j] = Entry(steps[j]) BY <1>1, <1>3
<1>5. LedgerOf(steps, k).applied = e BY DEF LedgerOf
<1> QED BY <1>4, <1>5 DEF E

\* absorb() takes the ledger of k steps to that of the next.
LEMMA AbsorbNext ==
  ASSUME NEW W, NEW steps \in Seq(LockStep(W)), NEW k \in 1..Len(steps), NEW step,
         SameEdit(step, steps[k])
  PROVE  Absorb(LedgerOf(steps, k - 1), step) = LedgerOf(steps, k)
<1> DEFINE old == LedgerOf(steps, k - 1)
           new == LedgerOf(steps, k)
           e == [j \in 1..k |-> Entry(steps[j])]
<1>1. k - 1 \in 0..Len(steps) /\ k \in 0..Len(steps) /\ k - 1 \in Nat OBVIOUS
<1>2. /\ old.applied \in Seq([n : Nat, text : SUBSET W]) /\ Len(old.applied) = k - 1
      /\ \A j \in 1..(k - 1) : old.applied[j] = Entry(steps[j])
  BY <1>1, LedgerTypes
<1>3. /\ new.applied \in Seq([n : Nat, text : SUBSET W]) /\ Len(new.applied) = k
      /\ \A j \in 1..k : new.applied[j] = Entry(steps[j])
  BY <1>1, LedgerTypes
<1>4. Entry(step) = Entry(steps[k]) BY DEF Entry, SameEdit
<1>5. Append(old.applied, Entry(step)) = new.applied
  <2> DEFINE E == [n : Nat, text : SUBSET W]
             a == old.applied
             b == new.applied
             x == Entry(steps[k])
  <2>1. a \in Seq(E) /\ b \in Seq(E) /\ Len(a) = k - 1 /\ Len(b) = k BY <1>2, <1>3
  <2>2. x = b[k] BY <1>3
  <2>3. \A j \in 1..(k - 1) : a[j] = b[j] BY <1>2, <1>3
  <2> HIDE DEF a, b, x, E
  <2>4. x \in E BY <2>1, <2>2
  <2>5. Append(a, x) \in Seq(E) /\ Len(Append(a, x)) = k BY <2>1, <2>4
  <2>6. ASSUME NEW j \in 1..k PROVE Append(a, x)[j] = b[j]
    <3>1. CASE j = k BY <2>1, <2>2, <2>4, <3>1
    <3>2. CASE j # k
      <4>1. j \in 1..(k - 1) BY <3>2
      <4> QED BY <2>1, <2>3, <2>4, <4>1
    <3> QED BY <3>1, <3>2
  <2>7. Append(a, x) = b BY <2>1, <2>5, <2>6
  <2> QED BY <2>7, <1>4 DEF a, b, x
<1>6. /\ old.targets = UNION {steps[j].targets : j \in 1..(k - 1)}
      /\ old.words = UNION {steps[j].words : j \in 1..(k - 1)}
      /\ new.targets = UNION {steps[j].targets : j \in 1..k}
      /\ new.words = UNION {steps[j].words : j \in 1..k}
  BY DEF LedgerOf
<1>7. \A j : j \in 1..k <=> j \in 1..(k - 1) \/ j = k OBVIOUS
<1>8. old.targets \cup step.targets = new.targets
  <2>1. old.targets \cup steps[k].targets = new.targets BY <1>6, <1>7
  <2> QED BY <2>1 DEF SameEdit
<1>9. old.words \cup step.words = new.words
  <2>1. old.words \cup steps[k].words = new.words BY <1>6, <1>7
  <2> QED BY <2>1 DEF SameEdit
<1>10. Absorb(old, step) = [applied |-> Append(old.applied, Entry(step)),
                            targets |-> old.targets \cup step.targets,
                            words |-> old.words \cup step.words]
  BY DEF Absorb, Entry
<1>11. new = [applied |-> new.applied, targets |-> new.targets, words |-> new.words]
  BY DEF LedgerOf
<1> HIDE DEF old, new
<1>12. Absorb(old, step) = new BY <1>5, <1>8, <1>9, <1>10, <1>11
<1> QED BY <1>12 DEF old, new


\* Absorbing the steps after the first a one by one gives the ledger of them all.
LEMMA AbsorbedFacts ==
  ASSUME NEW W, NEW steps \in Seq(LockStep(W)), NEW a \in Nat, NEW n \in Nat,
         a + n <= Len(steps), NEW list, Len(list) = n,
         \A i \in 1..n : SameEdit(list[i], steps[a + i])
  PROVE  Absorbed(LedgerOf(steps, a), list) = LedgerOf(steps, a + n)
<1> DEFINE base == LedgerOf(steps, a)
           f == [i \in 0..n |-> LedgerOf(steps, a + i)]
           g == CHOOSE g : g = [i \in 0..n |-> IF i = 0 THEN base ELSE Absorb(g[i - 1], list[i])]
<1>1. ASSUME NEW i \in 1..n PROVE Absorb(LedgerOf(steps, a + (i - 1)), list[i])
                                    = LedgerOf(steps, a + i)
  <2>1. a + i \in 1..Len(steps) /\ (a + i) - 1 = a + (i - 1) OBVIOUS
  <2>2. SameEdit(list[i], steps[a + i]) OBVIOUS
  <2>3. Absorb(LedgerOf(steps, (a + i) - 1), list[i]) = LedgerOf(steps, a + i)
    BY <2>1, <2>2, AbsorbNext
  <2> QED BY <2>1, <2>3
<1>2. f[0] = base
  <2>1. a + 0 = a /\ 0 \in 0..n OBVIOUS
  <2> QED BY <2>1
<1>3. \A i \in 1..n : i \in 0..n /\ i - 1 \in 0..n /\ i # 0 OBVIOUS
<1>4. \A i \in 1..n : f[i] = Absorb(f[i - 1], list[i])
  <2> SUFFICES ASSUME NEW i \in 1..n PROVE f[i] = Absorb(f[i - 1], list[i]) OBVIOUS
  <2>1. f[i] = LedgerOf(steps, a + i) /\ f[i - 1] = LedgerOf(steps, a + (i - 1)) BY <1>3
  <2> QED BY <1>1, <2>1
<1>5. DOMAIN f = 0..n /\ f = [i \in 0..n |-> f[i]] OBVIOUS
<1> HIDE DEF f, base
<1>6. f = [i \in 0..n |-> IF i = 0 THEN base ELSE Absorb(f[i - 1], list[i])]
  <2>1. \A i \in 0..n : i = 0 \/ i \in 1..n OBVIOUS
  <2>2. \A i \in 0..n : f[i] = IF i = 0 THEN base ELSE Absorb(f[i - 1], list[i])
    BY <1>2, <1>4, <2>1
  <2> QED BY <1>5, <2>2
<1>7. g = [i \in 0..n |-> IF i = 0 THEN base ELSE Absorb(g[i - 1], list[i])]
  BY <1>6
<1>8. Absorbed(base, list) = g[n] BY DEF Absorbed
<1> HIDE DEF g
<1>9. g[0] = base /\ \A i \in 1..n : g[i] = Absorb(g[i - 1], list[i])
  <2>1. 0 \in 0..n OBVIOUS
  <2> QED BY <1>3, <1>7, <2>1
<1> DEFINE Q == {i \in 0..n : g[i] = f[i]}
<1>10. n \in Q
  <2>1. 0 \in Q BY <1>2, <1>9
  <2>2. ASSUME NEW i \in 1..n, i - 1 \in Q PROVE i \in Q
    BY <1>3, <1>4, <1>9, <2>2
  <2> HIDE DEF Q
  <2>3. 0..n \subseteq Q BY <2>1, <2>2, LoopInduction
  <2> QED BY <2>3
<1> QED BY <1>8, <1>10 DEF f, base

\* A comprehension that keeps the first d positions gives the first d elements.
LEMMA PrefixKept ==
  ASSUME NEW S, NEW list \in Seq(S), NEW at, NEW d \in 0..Len(list),
         \A i \in 1..Len(list) : i \in at <=> i <= d
  PROVE  Len(Only(list, at)) = d /\ \A i \in 1..d : Only(list, at)[i] = list[i]
<1> DEFINE n == Len(list)
           kept == Kept(list, at)
           least(k) == IF k <= d THEN k ELSE d
           Same(k) == Len(kept[k]) = least(k) /\ \A i \in 1..least(k) : kept[k][i] = list[i]
           Q == {k \in 0..n : Same(k)}
<1>1. n \in Nat /\ d \in Nat /\ \A i \in 1..n : list[i] \in S OBVIOUS
<1>2. /\ \A k \in 0..n : kept[k] \in Seq(S)
      /\ kept[0] = <<>>
      /\ \A k \in 1..n : kept[k] = IF k \in at THEN Append(kept[k - 1], list[k])
                                   ELSE kept[k - 1]
  BY KeptSteps
<1> HIDE DEF kept
<1>3. 0 \in Q BY <1>1, <1>2
<1>4. ASSUME NEW k \in 1..n, k - 1 \in Q PROVE k \in Q
  <2>1. Same(k - 1) /\ k - 1 \in 0..n /\ k \in 0..n BY <1>1, <1>4
  <2>2. kept[k - 1] \in Seq(S) BY <1>2, <2>1
  <2>3. CASE k <= d
    <3>1. kept[k] = Append(kept[k - 1], list[k]) BY <1>2, <2>3
    <3>2. Len(kept[k - 1]) = k - 1 /\ \A i \in 1..(k - 1) : kept[k - 1][i] = list[i]
      BY <1>1, <2>1, <2>3
    <3>3. Len(kept[k]) = k /\ kept[k][k] = list[k] BY <1>1, <2>2, <3>1, <3>2
    <3>4. \A i \in 1..(k - 1) : kept[k][i] = list[i] BY <1>1, <2>2, <3>1, <3>2
    <3>5. \A i \in 1..k : i = k \/ i \in 1..(k - 1) OBVIOUS
    <3>6. \A i \in 1..k : kept[k][i] = list[i] BY <3>3, <3>4, <3>5
    <3>7. least(k) = k BY <2>3
    <3>8. Same(k) BY <3>3, <3>6, <3>7
    <3> HIDE DEF Same
    <3> QED BY <2>1, <3>8
  <2>4. CASE ~(k <= d)
    <3>1. kept[k] = kept[k - 1] BY <1>2, <2>4
    <3>2. least(k) = least(k - 1) BY <1>1, <2>4
    <3>3. Same(k) BY <2>1, <3>1, <3>2
    <3> HIDE DEF Same
    <3> QED BY <2>1, <3>3
  <2> QED BY <2>3, <2>4
<1>5. n \in Q
  <2> HIDE DEF Q
  <2>1. 0..n \subseteq Q BY <1>1, <1>3, <1>4, LoopInduction
  <2> QED BY <1>1, <2>1
<1>6. least(n) = d BY <1>1
<1>7. Only(list, at) = kept[n] BY DEF Only, kept
<1> QED BY <1>5, <1>6, <1>7

\* The ledger before a step does not depend on how many of the steps before it
\* the run found completed.
LEMMA LedgerBeforeFacts ==
  ASSUME NEW W, NEW steps \in Seq(LockStep(W)),
         \A i \in DOMAIN steps : steps[i].status = "pending",
         NEW k \in 1..(Len(steps) + 1), NEW done \in 0..(k - 1)
  PROVE  LedgerBefore(steps, done, k) = LedgerOf(steps, k - 1)
<1> DEFINE N == Len(steps)
           record == [i \in DOMAIN steps |->
                        [steps[i] EXCEPT !.status = IF i <= done THEN "completed" ELSE @]]
           at == {i \in DOMAIN record : record[i].status = "completed"}
           first == Only(record, at)
           rest == SubSeq(steps, done + 1, k - 1)
<1>1. N \in Nat /\ DOMAIN steps = 1..N /\ done \in Nat /\ done <= N /\ done <= k - 1
      /\ k - 1 \in Nat
  OBVIOUS
<1>2. ASSUME NEW i \in 1..N
      PROVE  /\ record[i] \in LockStep(W) /\ SameEdit(record[i], steps[i])
             /\ record[i].status = "completed" <=> i <= done
  <2>1. steps[i] \in LockStep(W) /\ steps[i].status = "pending" BY <1>1
  <2>2. record[i] = [steps[i] EXCEPT !.status = IF i <= done THEN "completed" ELSE "pending"]
    BY <1>1, <2>1
  <2> HIDE DEF record
  <2> QED BY <2>1, <2>2 DEF LockStep, SameEdit
<1>3. DOMAIN record = 1..N BY <1>1
<1> HIDE DEF record
<1>4. record \in Seq(LockStep(W)) /\ Len(record) = N
  <2> DEFINE L == LockStep(W)
  <2>1. \A i \in 1..N : record[i] \in L BY <1>2
  <2>2. record = [i \in 1..N |-> record[i]] BY <1>3 DEF record
  <2> HIDE DEF L
  <2>3. record \in [1..N -> L] BY <2>1, <2>2
  <2>4. record \in Seq(L) BY <1>1, <2>3
  <2>5. Len(record) = N BY <1>1, <1>3, <2>4
  <2> QED BY <2>4, <2>5 DEF L
<1>5. \A i \in 1..N : i \in at <=> i <= done BY <1>2, <1>3
<1> HIDE DEF at
<1>6. Len(first) = done /\ \A i \in 1..done : first[i] = record[i]
  <2>1. done \in 0..Len(record) /\ \A i \in 1..Len(record) : i \in at <=> i <= done
    BY <1>1, <1>4, <1>5
  <2> QED BY <1>4, <2>1, PrefixKept
<1> HIDE DEF first
<1>7. Absorbed(LedgerOf(steps, 0), first) = LedgerOf(steps, done)
  <2>1. \A i \in 1..done : i \in 1..N /\ 0 + i = i BY <1>1
  <2>2. \A i \in 1..done : SameEdit(first[i], steps[0 + i]) BY <1>2, <1>6, <2>1
  <2>3. 0 + done <= Len(steps) /\ 0 + done = done /\ 0 \in Nat BY <1>1
  <2>4. Absorbed(LedgerOf(steps, 0), first) = LedgerOf(steps, 0 + done)
    BY <1>1, <1>6, <2>2, <2>3, AbsorbedFacts
  <2> QED BY <2>3, <2>4
<1>8. NoLedger = LedgerOf(steps, 0)
  <2>1. 1..0 = {} /\ [j \in 1..0 |-> Entry(steps[j])] = <<>> OBVIOUS
  <2> QED BY <2>1 DEF NoLedger, LedgerOf
<1>9. LedgerAtStart(record) = LedgerOf(steps, done)
  BY <1>7, <1>8 DEF LedgerAtStart, first, at
<1>10. /\ Len(rest) = k - 1 - done
       /\ \A i \in 1..(k - 1 - done) : rest[i] = steps[done + i]
  <2>1. done + 1 \in 1..(N + 1) /\ k - 1 \in (done + 1 - 1)..N BY <1>1
  <2> QED BY <1>1, <2>1
<1> HIDE DEF rest
<1>11. Absorbed(LedgerOf(steps, done), rest) = LedgerOf(steps, k - 1)
  <2> DEFINE n == k - 1 - done
  <2>1. n \in Nat /\ done + n = k - 1 /\ done + n <= Len(steps) BY <1>1
  <2>2. \A i \in 1..n : SameEdit(rest[i], steps[done + i]) BY <1>10 DEF SameEdit
  <2>3. Len(rest) = n BY <1>10
  <2> HIDE DEF n
  <2>4. Absorbed(LedgerOf(steps, done), rest) = LedgerOf(steps, done + n)
    BY <1>1, <2>1, <2>2, <2>3, AbsorbedFacts
  <2> QED BY <2>1, <2>4
<1>12. LedgerBefore(steps, done, k) = Absorbed(LedgerAtStart(record), rest)
  BY DEF LedgerBefore, record, rest
<1> QED BY <1>9, <1>11, <1>12

-----------------------------------------------------------------------------
(* The lock items.                                                         *)

\* The list with a value at each of its m positions.
Fills(f, m) == f = [i \in 1..m |-> f[i]]
Values(f, m) == {f[i] : i \in 1..m}

\* A mapped list: one element for each position.
LEMMA MappedList ==
  ASSUME NEW S, NEW m \in Nat, NEW f, Fills(f, m), \A i \in 1..m : f[i] \in S
  PROVE  f \in Seq(S) /\ Len(f) = m /\ ToSet(f) = Values(f, m)
<1>1. f \in [1..m -> S] /\ DOMAIN f = 1..m BY DEF Fills
<1>2. f \in Seq(S) BY <1>1
<1>3. Len(f) = m BY <1>1, <1>2
<1>4. ToSet(f) = Values(f, m) BY <1>1 DEF ToSet, Values
<1> QED BY <1>2, <1>3, <1>4

\* Two lists, one after the other.
LEMMA ConcatFacts ==
  ASSUME NEW S, NEW s \in Seq(S), NEW t \in Seq(S)
  PROVE  /\ s \o t \in Seq(S)
         /\ ToSet(s \o t) = ToSet(s) \cup ToSet(t)
         /\ s # <<>> => s \o t # <<>> /\ (s \o t)[1] = s[1]
<1> DEFINE m == Len(s)
           n == Len(t)
           c == s \o t
<1>1. /\ m \in Nat /\ n \in Nat /\ c \in Seq(S) /\ Len(c) = m + n
      /\ DOMAIN s = 1..m /\ DOMAIN t = 1..n /\ DOMAIN c = 1..(m + n)
  OBVIOUS
<1>2. \A i \in 1..m : i \in 1..(m + n) /\ c[i] = s[i] BY <1>1
<1>3. \A i \in 1..n : m + i \in 1..(m + n) /\ c[m + i] = t[i]
  <2> SUFFICES ASSUME NEW i \in 1..n PROVE m + i \in 1..(m + n) /\ c[m + i] = t[i] OBVIOUS
  <2>1. m + i \in 1..(m + n) /\ ~(m + i <= m) /\ (m + i) - m = i BY <1>1
  <2> QED BY <1>1, <2>1
<1>4. \A i \in 1..(m + n) : i \in 1..m \/ (i - m \in 1..n /\ m + (i - m) = i) BY <1>1
<1> HIDE DEF c, m, n
<1>5. \A x \in ToSet(c) : x \in ToSet(s) \cup ToSet(t)
  <2> SUFFICES ASSUME NEW i \in 1..(m + n) PROVE c[i] \in ToSet(s) \cup ToSet(t)
    BY <1>1 DEF ToSet
  <2>1. CASE i \in 1..m BY <1>1, <1>2, <2>1 DEF ToSet
  <2>2. CASE i - m \in 1..n /\ m + (i - m) = i
    <3>1. c[i] = t[i - m] BY <1>3, <2>2
    <3> QED BY <1>1, <2>2, <3>1 DEF ToSet
  <2> QED BY <1>4, <2>1, <2>2
<1>6. ToSet(s) \subseteq ToSet(c) BY <1>1, <1>2 DEF ToSet
<1>7. ToSet(t) \subseteq ToSet(c) BY <1>1, <1>3 DEF ToSet
<1>8. ASSUME s # <<>> PROVE c # <<>> /\ c[1] = s[1]
  <2>1. 1 \in 1..m BY <1>1, <1>8 DEF m
  <2>2. 1 \in 1..(m + n) /\ c[1] = s[1] BY <1>2, <2>1
  <2>3. c # <<>> BY <1>1, <2>2
  <2> QED BY <2>2, <2>3
<1> QED BY <1>1, <1>5, <1>6, <1>7, <1>8 DEF c

\* The items over a set of words.
ItemOver(words) ==
    [what : {"person", "field", "accessory", "preserve", "applied"},
     name : ToSet(Fields) \cup {"person", "accessory", "preserve"} \cup Nat,
     text : SUBSET words]

\* An inventory of a photo, and the phrases of the steps before.
InventoryOver(words) ==
    [fields : [ToSet(Fields) -> SUBSET words], accessories : Seq(SUBSET words)]
AppliedOver(words) == [n : Nat, text : SUBSET words]

\* The fields of a photo that a step holds as they were.
FieldsHeld(inventory, targets) ==
    {f \in ToSet(Fields) : f \notin EditedRegions(targets) /\ inventory.fields[f] # {}}

\* Everything a step has to lock, before the injection guard.
FieldLocks(inventory, targets) ==
    IF inventory = NoInventory THEN {}
    ELSE {Item("field", f, inventory.fields[f]) : f \in FieldsHeld(inventory, targets)}
AppliedLocks(applied) ==
    {Item("applied", applied[i].n, applied[i].text) : i \in DOMAIN applied}

\* A field is locked as it was iff the photo shows it and no target names it.
LEMMA LockedFieldsFacts ==
  ASSUME NEW W, NEW inventory \in InventoryOver(W), NEW targets
  PROVE  /\ LockedFields(inventory, targets) \in Seq(ToSet(Fields))
         /\ ToSet(LockedFields(inventory, targets)) = FieldsHeld(inventory, targets)
<1> DEFINE at == {i \in DOMAIN Fields : /\ Fields[i] \notin EditedRegions(targets)
                                        /\ inventory.fields[Fields[i]] # {}}
           S == ToSet(Fields)
<1>1. Fields \in Seq(S) BY RegionsAssumption
<1>2. LockedFields(inventory, targets) = Only(Fields, at) BY DEF LockedFields
<1>3. at \subseteq 1..Len(Fields) BY <1>1
<1>4. {Fields[p] : p \in at} = FieldsHeld(inventory, targets)
  BY DEF FieldsHeld, ToSet
<1> HIDE DEF at, S
<1>5. /\ Only(Fields, at) \in Seq(S)
      /\ ToSet(Only(Fields, at)) = {Fields[p] : p \in at}
  BY <1>1, <1>3, OnlyFacts
<1> QED BY <1>2, <1>4, <1>5 DEF S

\* The accessories that stay locked are some of the inventory's.
LEMMA LockedAccessoriesFacts ==
  ASSUME NEW W, NEW inventory \in InventoryOver(W), NEW targets, NEW words
  PROVE  LockedAccessories(inventory, targets, words) \in Seq(SUBSET W)
<1> DEFINE list == inventory.accessories
           unlock == ContentTokens(words) \cup ContentTokens(targets)
           at == {i \in DOMAIN list : ContentTokens(list[i]) \cap unlock = {}}
           S == SUBSET W
<1>1. list \in Seq(S) BY DEF InventoryOver
<1>2. LockedAccessories(inventory, targets, words) = Only(list, at) BY DEF LockedAccessories
<1>3. at \subseteq DOMAIN list OBVIOUS
<1> HIDE DEF at, S, list
<1>4. at \subseteq 1..Len(list) BY <1>1, <1>3
<1>5. Only(list, at) \in Seq(S) BY <1>1, <1>4, OnlyFacts
<1> QED BY <1>2, <1>5 DEF S

\* The inventory's items: the fields that are held, and accessories.
LEMMA InventoryItemsFacts ==
  ASSUME NEW W, NEW inventory, inventory = NoInventory \/ inventory \in InventoryOver(W),
         NEW targets, NEW words
  PROVE  LET r == InventoryItems(inventory, targets, words)
         IN  /\ r \in Seq(ItemOver(W))
             /\ FieldLocks(inventory, targets) \subseteq ToSet(r)
             /\ \A x \in ToSet(r) : x \in FieldLocks(inventory, targets)
                                    \/ x.what = "accessory"
<1> DEFINE r == InventoryItems(inventory, targets, words)
           I == ItemOver(W)
<1>1. CASE inventory = NoInventory
  <2>1. r = <<>> BY <1>1 DEF InventoryItems
  <2>2. r \in Seq(I) /\ ToSet(r) = {} BY <2>1 DEF ToSet
  <2>3. FieldLocks(inventory, targets) = {} BY <1>1 DEF FieldLocks
  <2> QED BY <2>2, <2>3
<1>2. CASE inventory # NoInventory
  <2> DEFINE fields == LockedFields(inventory, targets)
             kept == LockedAccessories(inventory, targets, words)
             a == [i \in DOMAIN fields |->
                      Item("field", fields[i], inventory.fields[fields[i]])]
             b == [i \in DOMAIN kept |-> Item("accessory", "accessory", kept[i])]
  <2>1. inventory \in InventoryOver(W) BY <1>2
  <2>2. r = a \o b BY <1>2 DEF InventoryItems
  <2>3. /\ fields \in Seq(ToSet(Fields))
        /\ ToSet(fields) = FieldsHeld(inventory, targets)
    BY <2>1, LockedFieldsFacts
  <2>4. kept \in Seq(SUBSET W) BY <2>1, LockedAccessoriesFacts
  <2> HIDE DEF fields, kept
  <2>5. DOMAIN fields = 1..Len(fields) /\ Len(fields) \in Nat BY <2>3
  <2>6. DOMAIN kept = 1..Len(kept) /\ Len(kept) \in Nat BY <2>4
  <2>7. a \in Seq(I) /\ ToSet(a) = FieldLocks(inventory, targets)
    <3>1. \A i \in 1..Len(fields) : fields[i] \in ToSet(Fields) BY <2>3
    <3>2. \A f \in ToSet(Fields) : inventory.fields[f] \in SUBSET W
      BY <2>1 DEF InventoryOver
    <3>3. ASSUME NEW i \in 1..Len(fields) PROVE a[i] \in I
      <4>1. a[i] = Item("field", fields[i], inventory.fields[fields[i]]) BY <2>5
      <4>2. fields[i] \in ToSet(Fields) /\ inventory.fields[fields[i]] \in SUBSET W
        BY <3>1, <3>2
      <4> QED BY <4>1, <4>2 DEF Item, ItemOver
    <3>4. Fills(a, Len(fields)) BY <2>5 DEF Fills
    <3>5. \A i \in 1..Len(fields) :
              a[i] = Item("field", fields[i], inventory.fields[fields[i]])
      BY <2>5
    <3> HIDE DEF a, I
    <3>6. a \in Seq(I) /\ ToSet(a) = Values(a, Len(fields))
      BY <2>5, <3>3, <3>4, MappedList
    <3>7. ToSet(fields) = {fields[i] : i \in 1..Len(fields)} BY <2>5 DEF ToSet
    <3>8. FieldLocks(inventory, targets)
            = {Item("field", f, inventory.fields[f]) : f \in ToSet(fields)}
      BY <1>2, <2>3 DEF FieldLocks
    <3> DEFINE lock(f) == Item("field", f, inventory.fields[f])
    <3>9. Values(a, Len(fields)) = {lock(f) : f \in ToSet(fields)}
      <4>1. Values(a, Len(fields)) = {lock(fields[i]) : i \in 1..Len(fields)}
        BY <3>5 DEF Values
      <4> HIDE DEF lock
      <4> QED BY <3>7, <4>1
    <3> QED BY <3>6, <3>8, <3>9
  <2>8. b \in Seq(I) /\ \A x \in ToSet(b) : x.what = "accessory"
    <3>1. ASSUME NEW i \in 1..Len(kept) PROVE b[i] \in I /\ b[i].what = "accessory"
      <4>1. b[i] = Item("accessory", "accessory", kept[i]) BY <2>6
      <4>2. kept[i] \in SUBSET W BY <2>4
      <4> QED BY <4>1, <4>2 DEF Item, ItemOver
    <3>2. Fills(b, Len(kept)) BY <2>6 DEF Fills
    <3> HIDE DEF b, I
    <3>3. b \in Seq(I) /\ ToSet(b) = Values(b, Len(kept))
      BY <2>6, <3>1, <3>2, MappedList
    <3> QED BY <3>1, <3>3 DEF Values
  <2> HIDE DEF a, b, r, I
  <2>9. r \in Seq(I) /\ ToSet(r) = ToSet(a) \cup ToSet(b)
    BY <2>2, <2>7, <2>8, ConcatFacts
  <2> QED BY <2>7, <2>8, <2>9 DEF r, I
<1> QED BY <1>1, <1>2

\* Locks(r, ...): a list of items as a step needs it.  The person comes first, a
\* field that is held and the phrase of each step before are in it unless they
\* read as an injection, no other field is, and nothing in it reads as one.
Locks(r, inventory, targets, applied) ==
    /\ r # <<>> /\ r[1] = PersonLock
    /\ \A x \in FieldLocks(inventory, targets) \cup AppliedLocks(applied) :
          ~IsInjection(x.text) => x \in ToSet(r)
    /\ \A x \in ToSet(r) : x.what = "field" => x \in FieldLocks(inventory, targets)
    /\ \A i \in DOMAIN r : ~IsInjection(r[i].text)

LEMMA EditLockFacts ==
  ASSUME NEW W, NEW inventory, inventory = NoInventory \/ inventory \in InventoryOver(W),
         NEW preserve \in Seq(SUBSET W), NEW applied \in Seq(AppliedOver(W)),
         NEW targets, NEW words
  PROVE  Locks(EditLockItems(inventory, preserve, applied, targets, words),
               inventory, targets, applied)
<1> DEFINE I == ItemOver(W)
           p == <<PersonLock>>
           v == InventoryItems(inventory, targets, words)
           asked == Only(preserve, {i \in DOMAIN preserve : preserve[i] # {}})
           s == [i \in DOMAIN asked |-> Item("preserve", "preserve", asked[i])]
           a == [i \in DOMAIN applied |-> Item("applied", applied[i].n, applied[i].text)]
           items == ((p \o v) \o s) \o a
           at == {i \in DOMAIN items : ~IsInjection(items[i].text)}
           r == Only(items, at)
<1>1. EditLockItems(inventory, preserve, applied, targets, words) = r BY DEF EditLockItems
<1>2. p \in Seq(I) /\ ToSet(p) = {PersonLock} /\ p # <<>> /\ p[1] = PersonLock
  <2>1. PersonLock \in I BY DEF PersonLock, Item, ItemOver
  <2> HIDE DEF I
  <2>2. p \in Seq(I) /\ p # <<>> /\ p[1] = PersonLock /\ DOMAIN p = 1..1 BY <2>1
  <2>3. ToSet(p) = {p[i] : i \in 1..1} BY <2>2 DEF ToSet
  <2>4. ToSet(p) = {PersonLock} BY <2>2, <2>3
  <2> QED BY <2>2, <2>4
<1>3. /\ v \in Seq(I) /\ FieldLocks(inventory, targets) \subseteq ToSet(v)
      /\ \A x \in ToSet(v) : x \in FieldLocks(inventory, targets) \/ x.what = "accessory"
  BY InventoryItemsFacts
<1>4. s \in Seq(I) /\ \A x \in ToSet(s) : x.what = "preserve"
  <2> DEFINE P == SUBSET W
             at1 == {i \in DOMAIN preserve : preserve[i] # {}}
  <2>0. asked \in Seq(P)
    <3>1. asked = Only(preserve, at1) OBVIOUS
    <3>2. preserve \in Seq(P) /\ at1 \subseteq DOMAIN preserve OBVIOUS
    <3> HIDE DEF asked, P, at1
    <3>3. at1 \subseteq 1..Len(preserve) BY <3>2
    <3> QED BY <3>1, <3>2, <3>3, OnlyFacts
  <2> HIDE DEF asked
  <2>1. DOMAIN asked = 1..Len(asked) /\ Len(asked) \in Nat BY <2>0
  <2>2. ASSUME NEW i \in 1..Len(asked) PROVE s[i] \in I /\ s[i].what = "preserve"
    <3>1. s[i] = Item("preserve", "preserve", asked[i]) BY <2>1
    <3>2. asked[i] \in SUBSET W BY <2>0
    <3> QED BY <3>1, <3>2 DEF Item, ItemOver
  <2>3. Fills(s, Len(asked)) BY <2>1 DEF Fills
  <2> HIDE DEF s, I
  <2>4. s \in Seq(I) /\ ToSet(s) = Values(s, Len(asked))
    BY <2>1, <2>2, <2>3, MappedList
  <2> QED BY <2>2, <2>4 DEF Values
<1>5. a \in Seq(I) /\ ToSet(a) = AppliedLocks(applied)
      /\ \A x \in ToSet(a) : x.what = "applied"
  <2>1. DOMAIN applied = 1..Len(applied) /\ Len(applied) \in Nat OBVIOUS
  <2>2. ASSUME NEW i \in 1..Len(applied) PROVE a[i] \in I /\ a[i].what = "applied"
    <3>1. a[i] = Item("applied", applied[i].n, applied[i].text) BY <2>1
    <3>2. applied[i] \in AppliedOver(W) OBVIOUS
    <3>3. applied[i].n \in Nat /\ applied[i].text \in SUBSET W BY <3>2 DEF AppliedOver
    <3> QED BY <3>1, <3>3 DEF Item, ItemOver
  <2>3. Fills(a, Len(applied)) BY <2>1 DEF Fills
  <2>4. AppliedLocks(applied) = Values(a, Len(applied)) BY <2>1 DEF AppliedLocks, Values
  <2> HIDE DEF a, I
  <2>5. a \in Seq(I) /\ ToSet(a) = Values(a, Len(applied))
    BY <2>1, <2>2, <2>3, MappedList
  <2> QED BY <2>2, <2>4, <2>5 DEF Values
<1>6. /\ items \in Seq(I)
      /\ ToSet(items) = {PersonLock} \cup ToSet(v) \cup ToSet(s) \cup ToSet(a)
      /\ items # <<>> /\ items[1] = PersonLock
  <2> DEFINE pv == p \o v
             pvs == pv \o s
  <2> HIDE DEF I, p, v, s, a
  <2>1. pv \in Seq(I) /\ ToSet(pv) = {PersonLock} \cup ToSet(v) /\ pv # <<>>
        /\ pv[1] = PersonLock
    BY <1>2, <1>3, ConcatFacts
  <2> HIDE DEF pv
  <2>2. pvs \in Seq(I) /\ ToSet(pvs) = ToSet(pv) \cup ToSet(s) /\ pvs # <<>>
        /\ pvs[1] = pv[1]
    BY <1>4, <2>1, ConcatFacts
  <2> HIDE DEF pvs
  <2>3. /\ pvs \o a \in Seq(I) /\ ToSet(pvs \o a) = ToSet(pvs) \cup ToSet(a)
        /\ pvs \o a # <<>> /\ (pvs \o a)[1] = pvs[1]
    BY <1>5, <2>2, ConcatFacts
  <2>4. items = pvs \o a BY DEF pvs, pv
  <2> QED BY <2>1, <2>2, <2>3, <2>4
<1>7. /\ at \subseteq DOMAIN items
      /\ \A i \in DOMAIN items : i \in at <=> ~IsInjection(items[i].text)
  OBVIOUS
<1> HIDE DEF I, p, v, s, a, items, at
<1>8. DOMAIN items = 1..Len(items) /\ 1 \in DOMAIN items BY <1>6
<1>9. 1 \in at BY <1>6, <1>7, <1>8 DEF IsInjection, PersonLock, Item
<1>10. ToSet(r) = {items[i] : i \in at} /\ r # <<>> /\ r[1] = items[1]
  BY <1>6, <1>7, <1>8, <1>9, OnlyFacts
<1> HIDE DEF r
<1>11. \A x \in ToSet(items) : ~IsInjection(x.text) => x \in ToSet(r)
  BY <1>7, <1>10 DEF ToSet
<1>12. \A x \in ToSet(r) : x \in ToSet(items) BY <1>7, <1>10 DEF ToSet
<1>13. \A x \in FieldLocks(inventory, targets) \cup AppliedLocks(applied) : x \in ToSet(items)
  BY <1>3, <1>5, <1>6
<1>14. PersonLock.what = "person" BY DEF PersonLock, Item
<1>15. ASSUME NEW x \in ToSet(r), x.what = "field" PROVE x \in FieldLocks(inventory, targets)
  <2>1. x \in {PersonLock} \cup ToSet(v) \cup ToSet(s) \cup ToSet(a) BY <1>6, <1>12
  <2>2. x # PersonLock BY <1>14, <1>15
  <2>3. x \notin ToSet(s) BY <1>4, <1>15
  <2>4. x \notin ToSet(a) BY <1>5, <1>15
  <2>5. x \in ToSet(v) BY <2>1, <2>2, <2>3, <2>4
  <2> QED BY <1>3, <1>15, <2>5
<1>16. \A i \in DOMAIN r : ~IsInjection(r[i].text)
  <2>1. \A i \in DOMAIN r : r[i] \in ToSet(r) BY DEF ToSet
  <2> QED BY <2>1, <1>7, <1>10
<1>17. Locks(r, inventory, targets, applied)
  BY <1>6, <1>10, <1>11, <1>13, <1>15, <1>16 DEF Locks
<1> QED BY <1>1, <1>17

\* A chain before its first step, over a set of words: the approved steps are
\* numbered from one, and the photo may have no inventory.
ChainInput(words) ==
    /\ input.steps \in Seq(LockStep(words))
    /\ \A i \in DOMAIN input.steps : input.steps[i].n = i /\ input.steps[i].status = "pending"
    /\ input.preserve \in Seq(SUBSET words)
    /\ input.inventory = NoInventory \/ input.inventory \in InventoryOver(words)

\* A list holds what one of its elements says.
LEMMA HoldsFacts ==
  ASSUME NEW items, NEW what, NEW name
  PROVE  Holds(items, what, name) <=> \E x \in ToSet(items) : x.what = what /\ x.name = name
BY DEF Holds, ToSet

\* A region is edited by the ledger's targets and a step's iff by one of the steps.
LEMMA EditedUnion ==
  ASSUME NEW steps, NEW k \in Nat \ {0}, NEW f
  PROVE  f \in EditedRegions(LedgerOf(steps, k - 1).targets \cup steps[k].targets)
            <=> \E j \in 1..k : f \in EditedRegions(steps[j].targets)
<1> DEFINE T1 == LedgerOf(steps, k - 1).targets
<1>1. T1 = UNION {steps[j].targets : j \in 1..(k - 1)} BY DEF LedgerOf
<1>2. \A j : j \in 1..k <=> j \in 1..(k - 1) \/ j = k OBVIOUS
<1> HIDE DEF T1
<1>3. \A x : x \in T1 \cup steps[k].targets <=> \E j \in 1..k : x \in steps[j].targets
  BY <1>1, <1>2
<1>4. \A targets : f \in EditedRegions(targets)
                     <=> f \in DOMAIN Regions /\ \E x \in Regions[f] : x \in targets
  BY DEF EditedRegions
<1>5. ASSUME f \in EditedRegions(T1 \cup steps[k].targets)
      PROVE  \E j \in 1..k : f \in EditedRegions(steps[j].targets)
  <2>1. PICK x \in Regions[f] : x \in T1 \cup steps[k].targets BY <1>4, <1>5
  <2>2. PICK j \in 1..k : x \in steps[j].targets BY <1>3, <2>1
  <2> QED BY <1>4, <1>5, <2>1, <2>2
<1>6. ASSUME NEW j \in 1..k, f \in EditedRegions(steps[j].targets)
      PROVE  f \in EditedRegions(T1 \cup steps[k].targets)
  <2>1. PICK x \in Regions[f] : x \in steps[j].targets BY <1>4, <1>6
  <2>2. x \in T1 \cup steps[k].targets BY <1>3, <2>1
  <2> QED BY <1>4, <1>6, <2>1, <2>2
<1> QED BY <1>5, <1>6 DEF T1

\* The items of a step, whatever the run found completed, are those of the ledger
\* of all the steps before it, and they are the locks that the step needs.
LEMMA StepItemsFacts ==
  ASSUME NEW W, ChainInput(W), NEW k \in DOMAIN input.steps, NEW done \in 0..(k - 1)
  PROVE  LET L == LedgerOf(input.steps, k - 1)
         IN  /\ Items(done, k) = EditLockItems(input.inventory, input.preserve, L.applied,
                                               L.targets \cup input.steps[k].targets,
                                               L.words \cup input.steps[k].words)
             /\ Locks(Items(done, k), input.inventory,
                      L.targets \cup input.steps[k].targets, L.applied)
<1> DEFINE steps == input.steps
           L == LedgerOf(steps, k - 1)
           A == AppliedOver(W)
<1>1. /\ steps \in Seq(LockStep(W)) /\ \A i \in DOMAIN steps : steps[i].status = "pending"
      /\ input.preserve \in Seq(SUBSET W)
      /\ input.inventory = NoInventory \/ input.inventory \in InventoryOver(W)
  BY DEF ChainInput
<1>2. k \in 1..Len(steps) BY <1>1
<1>3. k \in 1..(Len(steps) + 1) /\ k - 1 \in 0..Len(steps) BY <1>1, <1>2
<1>4. LedgerBefore(steps, done, k) = L BY <1>1, <1>3, LedgerBeforeFacts
<1>5. L.applied \in Seq(A) BY <1>1, <1>3, LedgerTypes DEF AppliedOver
<1> HIDE DEF L
<1>6. Items(done, k) = EditLockItems(input.inventory, input.preserve, L.applied,
                                     L.targets \cup steps[k].targets,
                                     L.words \cup steps[k].words)
  BY <1>4 DEF Items, StepLockItems
<1>7. Locks(EditLockItems(input.inventory, input.preserve, L.applied,
                          L.targets \cup steps[k].targets, L.words \cup steps[k].words),
            input.inventory, L.targets \cup steps[k].targets, L.applied)
  BY <1>1, <1>5, EditLockFacts
<1> QED BY <1>6, <1>7 DEF L

\* RegionsStayHeld for every chain and every table of regions: what a step does not
\* edit is locked as it was or as an earlier step left it.
LEMMA RegionsHeld ==
  ASSUME NEW W, input.rule = "locks" => ChainInput(W)
  PROVE  RegionsStayHeld
<1> SUFFICES ASSUME input.rule = "locks", input.inventory # NoInventory,
                    NEW k \in DOMAIN input.steps
             PROVE  LET items == Items(0, k)
                        editing(j) == EditedRegions(input.steps[j].targets)
                        poisoned(j) == IsInjection(IF input.steps[j].applied = {}
                                                   THEN input.steps[j].words
                                                   ELSE input.steps[j].applied)
                    IN  /\ Head(items) = PersonLock
                        /\ \A f \in ToSet(Fields) : input.inventory.fields[f] # {} =>
                            IF \E j \in 1..k : f \in editing(j)
                            THEN /\ ~Holds(items, "field", f)
                                 /\ \A j \in 1..(k - 1) : f \in editing(j) =>
                                       Holds(items, "applied", j) \/ poisoned(j)
                            ELSE \/ Holds(items, "field", f)
                                 \/ IsInjection(input.inventory.fields[f])
  BY DEF RegionsStayHeld
<1> DEFINE steps == input.steps
           inv == input.inventory
           items == Items(0, k)
           editing(j) == EditedRegions(steps[j].targets)
           L == LedgerOf(steps, k - 1)
           T1 == L.targets \cup steps[k].targets
           phrase(j) == IF steps[j].applied = {} THEN steps[j].words ELSE steps[j].applied
<1>1. ChainInput(W) OBVIOUS
<1>2. steps \in Seq(LockStep(W)) /\ \A i \in DOMAIN steps : steps[i].n = i
  BY <1>1 DEF ChainInput
<1>3. k \in Nat \ {0} /\ k \in 1..Len(steps) /\ DOMAIN steps = 1..Len(steps) BY <1>2
<1>4. 0 \in 0..(k - 1) /\ k - 1 \in 0..Len(steps) BY <1>3
<1>5. Locks(items, inv, T1, L.applied) BY <1>1, <1>4, StepItemsFacts
<1>6. /\ items # <<>> /\ items[1] = PersonLock
      /\ \A x \in FieldLocks(inv, T1) \cup AppliedLocks(L.applied) :
            ~IsInjection(x.text) => x \in ToSet(items)
      /\ \A x \in ToSet(items) : x.what = "field" => x \in FieldLocks(inv, T1)
  BY <1>5 DEF Locks
<1>7. FieldLocks(inv, T1) = {Item("field", f, inv.fields[f]) : f \in FieldsHeld(inv, T1)}
  BY DEF FieldLocks
<1>8. \A f : f \in EditedRegions(T1) <=> \E j \in 1..k : f \in editing(j)
  BY <1>3, EditedUnion
<1>9. \A j \in 1..(k - 1) : L.applied[j] = Entry(steps[j]) /\ j \in DOMAIN L.applied
  <2>1. /\ L.applied \in Seq([n : Nat, text : SUBSET W]) /\ Len(L.applied) = k - 1
        /\ \A j \in 1..(k - 1) : L.applied[j] = Entry(steps[j])
    BY <1>2, <1>4, LedgerTypes
  <2>2. DOMAIN L.applied = 1..(k - 1) BY <2>1
  <2> QED BY <2>1, <2>2
<1> HIDE DEF items, L, T1
<1>10. Head(items) = PersonLock BY <1>6
<1>11. ASSUME NEW f \in ToSet(Fields), inv.fields[f] # {}
       PROVE  IF \E j \in 1..k : f \in editing(j)
              THEN /\ ~Holds(items, "field", f)
                   /\ \A j \in 1..(k - 1) : f \in editing(j) =>
                         Holds(items, "applied", j) \/ IsInjection(phrase(j))
              ELSE Holds(items, "field", f) \/ IsInjection(inv.fields[f])
  <2>1. ASSUME \E j \in 1..k : f \in editing(j), Holds(items, "field", f) PROVE FALSE
    <3>1. PICK x \in ToSet(items) : x.what = "field" /\ x.name = f BY <2>1, HoldsFacts
    <3>2. x \in FieldLocks(inv, T1) BY <1>6, <3>1
    <3>3. PICK g \in FieldsHeld(inv, T1) : x = Item("field", g, inv.fields[g])
      BY <1>7, <3>2
    <3>4. g = f BY <3>1, <3>3 DEF Item
    <3>5. f \notin EditedRegions(T1) BY <3>3, <3>4 DEF FieldsHeld
    <3> QED BY <1>8, <2>1, <3>5
  <2>2. ASSUME NEW j \in 1..(k - 1), ~IsInjection(phrase(j)) PROVE Holds(items, "applied", j)
    <3> DEFINE x == Item("applied", L.applied[j].n, L.applied[j].text)
    <3>1. j \in DOMAIN steps /\ steps[j].n = j BY <1>2, <1>3
    <3>2. L.applied[j].n = j /\ L.applied[j].text = phrase(j)
      <4>1. Entry(steps[j]) = [n |-> steps[j].n, text |-> phrase(j)] BY DEF Entry
      <4>2. L.applied[j] = Entry(steps[j]) BY <1>9
      <4> HIDE DEF phrase
      <4> QED BY <3>1, <4>1, <4>2
    <3>3. x \in AppliedLocks(L.applied) BY <1>9 DEF AppliedLocks
    <3>4. x.what = "applied" /\ x.name = j /\ x.text = phrase(j) BY <3>2 DEF Item
    <3> HIDE DEF x, phrase
    <3>5. x \in ToSet(items) BY <1>6, <2>2, <3>3, <3>4
    <3> QED BY <3>4, <3>5, HoldsFacts
  <2>3. ASSUME ~(\E j \in 1..k : f \in editing(j)), ~IsInjection(inv.fields[f])
        PROVE  Holds(items, "field", f)
    <3> DEFINE x == Item("field", f, inv.fields[f])
    <3>1. f \in FieldsHeld(inv, T1) BY <1>8, <1>11, <2>3 DEF FieldsHeld
    <3>2. x \in FieldLocks(inv, T1) BY <1>7, <3>1
    <3>3. x.what = "field" /\ x.name = f /\ x.text = inv.fields[f] BY DEF Item
    <3> HIDE DEF x
    <3>4. x \in ToSet(items) BY <1>6, <2>3, <3>2, <3>3
    <3> QED BY <3>3, <3>4, HoldsFacts
  <2> HIDE DEF phrase, editing
  <2> QED BY <2>1, <2>2, <2>3
<1> QED BY <1>10, <1>11 DEF items

\* ResumeKeepsLocks for every chain: the ledger that is rebuilt from the completed
\* steps is the one the uninterrupted loop kept.
LEMMA LocksResumed ==
  ASSUME NEW W, input.rule = "locks" => ChainInput(W)
  PROVE  ResumeKeepsLocks
<1> SUFFICES ASSUME input.rule = "locks", ChainInput(W) PROVE ResumeKeepsLocks
  BY DEF ResumeKeepsLocks
<1> DEFINE steps == input.steps
           N == Len(steps)
<1>1. steps \in Seq(LockStep(W)) /\ \A i \in DOMAIN steps : steps[i].status = "pending"
  BY DEF ChainInput
<1>2. N \in Nat /\ DOMAIN steps = 1..N BY <1>1
<1>3. ASSUME NEW k \in DOMAIN steps, NEW done \in 0..(k - 1) PROVE Items(done, k) = Items(0, k)
  <2>1. 0 \in 0..(k - 1) BY <1>2
  <2> DEFINE whole == EditLockItems(input.inventory, input.preserve,
                         LedgerOf(steps, k - 1).applied,
                         LedgerOf(steps, k - 1).targets \cup steps[k].targets,
                         LedgerOf(steps, k - 1).words \cup steps[k].words)
  <2>2. Items(done, k) = whole BY StepItemsFacts
  <2>3. Items(0, k) = whole BY <2>1, StepItemsFacts
  <2> QED BY <2>2, <2>3
<1>4. ASSUME NEW done \in 0..N PROVE EnhanceLockItems(steps, done) = EnhanceLockItems(steps, 0)
  <2>1. N + 1 \in 1..(Len(steps) + 1) /\ done \in 0..((N + 1) - 1) /\ 0 \in 0..((N + 1) - 1)
    BY <1>2
  <2>2. LedgerBefore(steps, done, N + 1) = LedgerOf(steps, (N + 1) - 1)
    BY <1>1, <2>1, LedgerBeforeFacts
  <2>3. LedgerBefore(steps, 0, N + 1) = LedgerOf(steps, (N + 1) - 1)
    BY <1>1, <2>1, LedgerBeforeFacts
  <2> QED BY <2>2, <2>3 DEF EnhanceLockItems
<1> QED BY <1>3, <1>4 DEF ResumeKeepsLocks

\* The locks of edit_lock_items and of the loop's ledger, for any chain, inventory,
\* table of regions and point at which the chain is entered again.
THEOREM LocksAlwaysHeld ==
  ASSUME NEW W, input.rule = "locks" => ChainInput(W)
  PROVE  LocksAreHeld
BY RegionsHeld, LocksResumed DEF LocksAreHeld

\* What _assemble hands to the generator: no poisoned body, change or lock item,
\* always the preset's locks, and in the edit mode the person first.
THEOREM PromptsKeepLocks ==
  ASSUME NEW W, input.rule = "locks" => ChainInput(W)
  PROVE  PromptKeepsLocks
<1> SUFFICES ASSUME input.rule = "locks", NEW k \in DOMAIN input.steps,
                    NEW body \in {{"scene"}, {"scene", Poison}}
             PROVE  LET prompt == Assemble(input.steps[k], body, Items(0, k), {"white"},
                                           LightingOf(input.inventory))
                    IN  /\ prompt = Raised <=> IsInjection(body)
                        /\ prompt # Raised => prompt.locks = {"white"}
                        /\ prompt # Raised /\ prompt.mode = "edit" =>
                              /\ ~IsInjection(input.steps[k].words)
                              /\ Head(prompt.items) = PersonLock
                              /\ \A i \in DOMAIN prompt.items :
                                    ~IsInjection(prompt.items[i].text)
  BY DEF PromptKeepsLocks
<1> DEFINE step == input.steps[k]
           items == Items(0, k)
           locks == {"white"}
           light == LightingOf(input.inventory)
           edit == AssembleEditPrompt(body, step.words, items, locks, light)
           plain == AssemblePrompt(body, locks)
           prompt == Assemble(step, body, items, locks, light)
           L == LedgerOf(input.steps, k - 1)
<1>1. ChainInput(W) OBVIOUS
<1>2. 0 \in 0..(k - 1)
  <2>1. k \in 1..Len(input.steps) BY <1>1 DEF ChainInput
  <2> QED BY <2>1
<1>3. Locks(items, input.inventory, L.targets \cup step.targets, L.applied)
  BY <1>1, <1>2, StepItemsFacts
<1>4. /\ items # <<>> /\ items[1] = PersonLock
      /\ \A i \in DOMAIN items : ~IsInjection(items[i].text)
  BY <1>3 DEF Locks
<1> HIDE DEF items, step, light
<1>5. Head(items) = PersonLock BY <1>4
<1>6. CASE IsInjection(body)
  <2>1. edit = Raised BY <1>6 DEF AssembleEditPrompt
  <2>2. plain = Raised BY <1>6 DEF AssemblePrompt
  <2>3. prompt = Raised BY <2>1, <2>2 DEF Assemble
  <2> QED BY <1>6, <2>3 DEF items, step, light
<1>7. CASE ~IsInjection(body)
  <2>1. /\ plain # Raised /\ plain.mode = "plain" /\ plain.locks = locks
    <3>1. plain = [mode |-> "plain", items |-> <<>>, body |-> body, locks |-> locks]
      BY <1>7 DEF AssemblePrompt
    <3>2. plain.mode = "plain" /\ plain.locks = locks BY <3>1
    <3>3. Raised.mode = "raised" BY DEF Raised
    <3> QED BY <3>2, <3>3
  <2>2. CASE ~IsInjection(step.words)
    <3>1. edit = [mode |-> "edit", items |-> items, body |-> body, texture |-> light,
                  locks |-> locks]
      BY <1>4, <1>7, <2>2 DEF AssembleEditPrompt
    <3>2. edit.mode = "edit" /\ edit.items = items /\ edit.locks = locks BY <3>1
    <3>3. Raised.mode = "raised" BY DEF Raised
    <3>4. edit # Raised BY <3>2, <3>3
    <3>5. prompt = edit \/ prompt = plain BY DEF Assemble
    <3> HIDE DEF edit, plain, prompt
    <3>6. /\ prompt # Raised /\ prompt.locks = locks
          /\ prompt.mode = "edit" =>
                /\ Head(prompt.items) = PersonLock
                /\ \A i \in DOMAIN prompt.items : ~IsInjection(prompt.items[i].text)
      BY <1>4, <1>5, <2>1, <3>2, <3>4, <3>5
    <3> QED BY <1>7, <2>2, <3>6 DEF prompt, items, step, light
  <2>3. CASE IsInjection(step.words)
    <3>1. edit = Raised BY <2>3 DEF AssembleEditPrompt
    <3>2. prompt = plain BY <3>1 DEF Assemble
    <3> HIDE DEF plain, prompt
    <3>3. prompt # Raised /\ prompt.locks = locks /\ prompt.mode # "edit" BY <2>1, <3>2
    <3> QED BY <1>7, <3>3 DEF prompt, items, step, light
  <2> QED BY <2>2, <2>3
<1> QED BY <1>6, <1>7
=============================================================================
