---------------------------- MODULE BudgetProofs ----------------------------
(***************************************************************************)
(* For every set of callers, every limit and every estimate and cost: the  *)
(* budget counter is well typed, never passes the limit by more than       *)
(* settled costs exceeded their own estimates, and is the balance of the   *)
(* ledger: settled, held and stranded money, and nothing else.             *)
(***************************************************************************)
EXTENDS MCBudget, FiniteSetTheorems, WellFoundedInduction, TLAPS

\* The counter, the holds and the history sums are natural numbers: in
\* particular BUDGET_ADJUST keeps the counter from going below zero.
THEOREM TypeCorrect == Spec => []TypeOK
<1>1. Init => TypeOK
  BY DEF Init, TypeOK
<1>2. TypeOK /\ [Next]_budgetVars => TypeOK'
  <2> SUFFICES ASSUME TypeOK, [Next]_budgetVars PROVE TypeOK'
    OBVIOUS
  <2> USE BudgetAssumption DEF TypeOK
  <2>1. ASSUME NEW c \in Callers, Reserve(c) PROVE TypeOK'
    BY <2>1 DEF Reserve
  <2>2. ASSUME NEW c \in Callers, Settle(c) PROVE TypeOK'
    BY <2>2 DEF Settle, Adjust, Excess
  <2>3. ASSUME NEW c \in Callers, SettleUnreported(c) PROVE TypeOK'
    BY <2>3 DEF SettleUnreported
  <2>4. ASSUME NEW c \in Callers, Cancel(c) PROVE TypeOK'
    BY <2>4 DEF Cancel, Adjust
  <2>5. ASSUME NEW c \in Callers, Abandon(c) PROVE TypeOK'
    BY <2>5 DEF Abandon
  <2>6. CASE UNCHANGED budgetVars
    BY <2>6 DEF budgetVars
  <2> QED
    BY <2>1, <2>2, <2>3, <2>4, <2>5, <2>6 DEF Next
<1> QED
  BY <1>1, <1>2, PTL DEF Spec

\* Reservations of any number of concurrent callers never together pass the
\* limit: compare and increment are one Lua script.  The types are the only
\* strengthening the induction needs: settling lowers the distance to the
\* limit by exactly what is added to the overrun.
THEOREM Overdraft == Spec => []NoOverdraft
<1>1. Init => NoOverdraft
  BY BudgetAssumption DEF Init, NoOverdraft
<1>2. TypeOK /\ NoOverdraft /\ [Next]_budgetVars => NoOverdraft'
  <2> SUFFICES ASSUME TypeOK, NoOverdraft, [Next]_budgetVars
               PROVE  NoOverdraft'
    OBVIOUS
  <2> USE BudgetAssumption DEF TypeOK, NoOverdraft
  <2>1. ASSUME NEW c \in Callers, Reserve(c) PROVE NoOverdraft'
    BY <2>1 DEF Reserve, Fits
  <2>2. ASSUME NEW c \in Callers, Settle(c) PROVE NoOverdraft'
    BY <2>2 DEF Settle, Adjust, Excess
  <2>3. ASSUME NEW c \in Callers, SettleUnreported(c) PROVE NoOverdraft'
    BY <2>3 DEF SettleUnreported
  <2>4. ASSUME NEW c \in Callers, Cancel(c) PROVE NoOverdraft'
    BY <2>4 DEF Cancel, Adjust
  <2>5. ASSUME NEW c \in Callers, Abandon(c) PROVE NoOverdraft'
    BY <2>5 DEF Abandon
  <2>6. CASE UNCHANGED budgetVars
    BY <2>6 DEF budgetVars
  <2> QED
    BY <2>1, <2>2, <2>3, <2>4, <2>5, <2>6 DEF Next
<1> QED
  BY <1>1, <1>2, TypeCorrect, PTL DEF Spec

-----------------------------------------------------------------------------
(* The sum over the callers.  Total is a fold in an order nobody fixes: it *)
(* exists, it is a natural number, and a change of one caller's estimate   *)
(* changes it by as much.                                                  *)

\* A set of naturals that holds 0 and with every number the next one holds all.
LEMMA NatSetInduction ==
  ASSUME NEW S, 0 \in S, \A n \in Nat : n \in S => n + 1 \in S
  PROVE  Nat \subseteq S
<1> DEFINE R == OpToRel(<, Nat)
           T1 == Nat \ S
<1> SUFFICES ASSUME T1 # {} PROVE FALSE OBVIOUS
<1>1. IsWellFoundedOn(R, Nat) BY NatLessThanWellFounded
<1>2. T1 \subseteq Nat OBVIOUS
<1>3. PICK x \in T1 : \A y \in T1 : ~(<<y, x>> \in R)
  <2> HIDE DEF R, T1
  <2> QED BY <1>1, <1>2, WFMin
<1>4. x - 1 \in T1 OBVIOUS
<1>5. <<x - 1, x>> \in R BY <1>4 DEF OpToRel
<1> QED BY <1>3, <1>4, <1>5

\* The element the fold takes next, and the sets of callers of up to n members.
Pick(S) == CHOOSE c \in S : TRUE
UpTo(n) == {S \in SUBSET Callers : Cardinality(S) <= n}

\* f sums h over every set of up to n callers.
Sums(f, h, n) ==
    f = [S \in UpTo(n) |-> IF S = {} THEN 0 ELSE h[Pick(S)] + f[S \ {Pick(S)}]]

\* What the fold takes next is a member, and leaves one member fewer.
LEMMA PickFacts ==
  ASSUME NEW n \in Nat, NEW S \in UpTo(n + 1), S # {}
  PROVE  /\ Pick(S) \in S
         /\ Pick(S) \in Callers
         /\ S \ {Pick(S)} \in UpTo(n)
<1>1. Pick(S) \in S BY DEF Pick
<1>2. IsFiniteSet(S) BY CallersAssumption, FS_Subset DEF UpTo
<1>3. Cardinality(S) \in Nat BY <1>2, FS_CardinalityType
<1>4. Cardinality(S \ {Pick(S)}) = Cardinality(S) - 1
  BY <1>1, <1>2, FS_RemoveElement
<1>5. Cardinality(S) <= n + 1 /\ S \in SUBSET Callers BY DEF UpTo
<1>6. S \ {Pick(S)} \in SUBSET Callers BY <1>5
<1>7. Cardinality(S \ {Pick(S)}) <= n BY <1>3, <1>4, <1>5
<1> QED BY <1>1, <1>5, <1>6, <1>7 DEF UpTo

LEMMA UpToFacts ==
  /\ \A n \in Nat : UpTo(n) \subseteq UpTo(n + 1)
  /\ \A n \in Nat : {} \in UpTo(n)
  /\ \A S \in UpTo(0) : S = {}
  /\ Cardinality(Callers) \in Nat
  /\ UpTo(Cardinality(Callers)) = SUBSET Callers
<1>1. ASSUME NEW S \in SUBSET Callers
      PROVE  /\ Cardinality(S) \in Nat
             /\ Cardinality(S) <= Cardinality(Callers)
             /\ Cardinality(S) = 0 => S = {}
  <2>1. IsFiniteSet(S) /\ Cardinality(S) <= Cardinality(Callers)
    BY CallersAssumption, FS_Subset
  <2> QED BY <2>1, FS_CardinalityType, FS_EmptySet
<1>2. Cardinality(Callers) \in Nat BY CallersAssumption, FS_CardinalityType
<1>3. Cardinality({}) = 0 BY FS_EmptySet
<1>4. \A n \in Nat : UpTo(n) \subseteq UpTo(n + 1) BY <1>1 DEF UpTo
<1>5. \A n \in Nat : {} \in UpTo(n) BY <1>3 DEF UpTo
<1>6. \A S \in UpTo(0) : S = {} BY <1>1 DEF UpTo
<1>7. UpTo(Cardinality(Callers)) = SUBSET Callers BY <1>1 DEF UpTo
<1> QED BY <1>2, <1>4, <1>5, <1>6, <1>7

LEMMA UpToGrows ==
  ASSUME NEW k \in Nat, NEW n \in Nat, k + 1 <= n, NEW S \in UpTo(k + 1)
  PROVE  S \in UpTo(n)
<1>1. S \in SUBSET Callers /\ Cardinality(S) <= k + 1 BY DEF UpTo
<1>2. Cardinality(S) \in Nat
  BY <1>1, CallersAssumption, FS_Subset, FS_CardinalityType
<1> QED BY <1>1, <1>2 DEF UpTo

\* There is such a sum, for every size.
LEMMA SumsExist ==
  ASSUME NEW h, NEW n \in Nat
  PROVE  \E f : Sums(f, h, n)
<1> DEFINE Summed(k) == \E f : Sums(f, h, k)
           P == {k \in Nat : Summed(k)}
<1>1. 0 \in P
  <2> DEFINE f == [S \in UpTo(0) |-> 0]
  <2>1. Sums(f, h, 0) BY UpToFacts DEF Sums
  <2> QED BY <2>1
<1>2. ASSUME NEW k \in Nat, k \in P PROVE k + 1 \in P
  <2>1. Summed(k)
    <3> HIDE DEF Summed
    <3> QED BY <1>2
  <2>2. PICK f : Sums(f, h, k) BY <2>1
  <2> DEFINE g == [S \in UpTo(k + 1) |->
                     IF S = {} THEN 0 ELSE h[Pick(S)] + f[S \ {Pick(S)}]]
  <2>3. ASSUME NEW S \in UpTo(k) PROVE g[S] = f[S]
    <3>1. S \in UpTo(k + 1) BY UpToFacts
    <3> QED BY <2>2, <3>1 DEF Sums
  <2>4. ASSUME NEW S \in UpTo(k + 1), S # {}
        PROVE  g[S \ {Pick(S)}] = f[S \ {Pick(S)}]
    <3> HIDE DEF g
    <3>1. S \ {Pick(S)} \in UpTo(k) BY ONLY <2>4, <1>2, PickFacts
    <3> QED BY <3>1, <2>3
  <2>5. Sums(g, h, k + 1)
    <3> DEFINE e == [S \in UpTo(k + 1) |->
                       IF S = {} THEN 0 ELSE h[Pick(S)] + g[S \ {Pick(S)}]]
    <3>1. \A S \in UpTo(k + 1) : g[S] = e[S] BY <2>4
    <3>2. g = e BY <3>1
    <3> QED BY <3>2 DEF Sums
  <2>6. Summed(k + 1) BY <2>5
  <2> HIDE DEF Summed
  <2> QED BY <2>6
<1>3. n \in P
  <2> HIDE DEF P
  <2> QED BY <1>1, <1>2, NatSetInduction
<1> QED BY <1>3

\* Total is what such a function gives for the set of all callers.
LEMMA TotalIsSum ==
  ASSUME NEW h
  PROVE  \E f : /\ Sums(f, h, Cardinality(Callers))
                /\ Total(h) = f[Callers]
<1> DEFINE n == Cardinality(Callers)
           f == CHOOSE f : f = [s \in SUBSET Callers |->
                  IF s = {} THEN 0 ELSE h[Pick(s)] + f[s \ {Pick(s)}]]
<1>1. n \in Nat /\ UpTo(n) = SUBSET Callers BY UpToFacts
<1>2. Total(h) = f[Callers] BY DEF Total, MapThenFoldSet, Pick
<1>3. PICK g : Sums(g, h, n) BY <1>1, SumsExist
<1>4. g = [s \in SUBSET Callers |->
                  IF s = {} THEN 0 ELSE h[Pick(s)] + g[s \ {Pick(s)}]]
  BY <1>1, <1>3 DEF Sums
<1>5. f = [s \in SUBSET Callers |->
                  IF s = {} THEN 0 ELSE h[Pick(s)] + f[s \ {Pick(s)}]]
  BY <1>4
<1> HIDE DEF f
<1>6. Sums(f, h, n) BY <1>1, <1>5 DEF Sums
<1> QED BY <1>2, <1>6

\* The difference a change of caller c's amount from a to b makes to a sum.
Shift(S, c, a, b) == IF c \in S THEN b - a ELSE 0

\* The holdings e are h with caller c's amount set to v.
Updated(e, h, c, v) == e[c] = v /\ \A x \in Callers \ {c} : e[x] = h[x]

\* Two sums over holdings that differ at one caller differ by as much.
LEMMA SumShift ==
  ASSUME NEW h \in [Callers -> Nat], NEW c \in Callers, NEW v \in Nat,
         NEW f, NEW g, NEW n \in Nat, NEW e, Updated(e, h, c, v),
         Sums(f, h, n), Sums(g, e, n)
  PROVE  \A S \in UpTo(n) : /\ f[S] \in Nat
                            /\ g[S] = f[S] + Shift(S, c, h[c], v)
<1> DEFINE Good(S) == f[S] \in Nat /\ g[S] = f[S] + Shift(S, c, h[c], v)
           P == {k \in Nat : k <= n => \A S \in UpTo(k) : Good(S)}
<1>0. \A S \in UpTo(n) :
        /\ f[S] = IF S = {} THEN 0 ELSE h[Pick(S)] + f[S \ {Pick(S)}]
        /\ g[S] = IF S = {} THEN 0
                  ELSE e[Pick(S)] + g[S \ {Pick(S)}]
  BY DEF Sums
<1>1. 0 \in P
  <2>1. \A S \in UpTo(0) : S = {} BY UpToFacts
  <2>2. {} \in UpTo(n) BY UpToFacts
  <2>3. f[{}] = 0 /\ g[{}] = 0 BY <1>0, <2>2
  <2>4. Good({}) BY <2>3 DEF Shift
  <2> HIDE DEF Good
  <2> QED BY <2>1, <2>4
<1>2. ASSUME NEW k \in Nat, k \in P PROVE k + 1 \in P
  <2> SUFFICES ASSUME k + 1 <= n, NEW S \in UpTo(k + 1) PROVE Good(S) OBVIOUS
  <2>0. S \in UpTo(n) BY UpToGrows
  <2>1. CASE S = {}
    <3>1. f[S] = 0 /\ g[S] = 0 BY <2>0, <2>1, <1>0
    <3>2. Shift(S, c, h[c], v) = 0 BY <2>1 DEF Shift
    <3> QED BY <3>1, <3>2
  <2>2. CASE S # {}
    <3> DEFINE x == Pick(S)
               Q == S \ {x}
    <3>1. x \in S /\ x \in Callers /\ Q \in UpTo(k)
      BY ONLY <1>2, <2>2, S \in UpTo(k + 1), PickFacts
    <3>2. Good(Q)
      <4> HIDE DEF Good, Q
      <4> QED BY <1>2, <3>1
    <3>3. f[S] = h[x] + f[Q] /\ g[S] = e[x] + g[Q]
      BY <2>0, <2>2, <1>0
    <3>4. h[x] \in Nat /\ h[c] \in Nat BY <3>1
    <3>5. CASE x = c
      <4>1. Shift(S, c, h[c], v) = v - h[c] /\ Shift(Q, c, h[c], v) = 0
        BY <3>1, <3>5 DEF Shift
      <4>2. e[x] = v BY <3>5 DEF Updated
      <4> HIDE DEF Q, x
      <4> QED BY <3>2, <3>3, <3>4, <3>5, <4>1, <4>2
    <3>6. CASE x # c
      <4>1. Shift(S, c, h[c], v) = Shift(Q, c, h[c], v)
        BY <3>6 DEF Shift
      <4>2. e[x] = h[x] BY <3>1, <3>6 DEF Updated
      <4>3. Shift(Q, c, h[c], v) \in Int BY <3>4 DEF Shift
      <4> HIDE DEF Q, x
      <4> QED BY <3>2, <3>3, <3>4, <4>1, <4>2, <4>3
    <3> QED BY <3>5, <3>6
  <2> QED BY <2>1, <2>2
<1>3. n \in P
  <2> HIDE DEF P
  <2> QED BY <1>1, <1>2, NatSetInduction
<1> QED BY <1>3

\* Total, when one caller's estimate changes.
LEMMA TotalUpdate ==
  ASSUME NEW h \in [Callers -> Nat], NEW c \in Callers, NEW v \in Nat
  PROVE  /\ Total(h) \in Nat
         /\ Total([h EXCEPT ![c] = v]) = Total(h) + v - h[c]
<1> DEFINE n == Cardinality(Callers)
           e == [h EXCEPT ![c] = v]
<1>1. n \in Nat /\ Callers \in UpTo(n) BY UpToFacts
<1>2. PICK f : Sums(f, h, n) /\ Total(h) = f[Callers] BY TotalIsSum
<1>3. PICK g : Sums(g, e, n) /\ Total(e) = g[Callers]
  <2> HIDE DEF e
  <2> QED BY TotalIsSum
<1>4. \A S \in UpTo(n) : f[S] \in Nat /\ g[S] = f[S] + Shift(S, c, h[c], v)
  <2>2. Updated(e, h, c, v) BY DEF Updated
  <2>3. n \in Nat /\ Sums(f, h, n) /\ Sums(g, e, n) BY <1>1, <1>2, <1>3
  <2>4. h \in [Callers -> Nat] /\ c \in Callers /\ v \in Nat OBVIOUS
  <2> HIDE DEF n, e
  <2> QED BY ONLY <2>2, <2>3, <2>4, SumShift
<1>5. f[Callers] \in Nat /\ g[Callers] = f[Callers] + (v - h[c])
  BY <1>1, <1>4 DEF Shift
<1>6. h[c] \in Nat OBVIOUS
<1> QED BY <1>2, <1>3, <1>5, <1>6

\* A caller's estimate is part of the total.
LEMMA TotalCovers ==
  ASSUME NEW h \in [Callers -> Nat], NEW c \in Callers
  PROVE  h[c] <= Total(h)
<1> DEFINE e == [h EXCEPT ![c] = 0]
<1>1. Total(e) = Total(h) + 0 - h[c] /\ Total(h) \in Nat BY TotalUpdate
<1>2. e \in [Callers -> Nat] OBVIOUS
<1>3. Total(e) \in Nat
  <2> HIDE DEF e
  <2> QED BY <1>2, TotalUpdate
<1>4. h[c] \in Nat OBVIOUS
<1> QED BY <1>1, <1>3, <1>4

\* Nobody holds anything at the start.
LEMMA TotalZero == Total([c \in Callers |-> 0]) = 0
<1> DEFINE h == [c \in Callers |-> 0]
           n == Cardinality(Callers)
           P == {k \in Nat : k <= n => \A f : Sums(f, h, n) => \A S \in UpTo(k) : f[S] = 0}
<1>1. n \in Nat /\ Callers \in UpTo(n) BY UpToFacts
<1>2. 0 \in P
  <2>1. \A S \in UpTo(0) : S = {} BY UpToFacts
  <2>2. {} \in UpTo(n) BY <1>1, UpToFacts
  <2> QED BY <1>1, <2>1, <2>2 DEF Sums
<1>3. ASSUME NEW k \in Nat, k \in P PROVE k + 1 \in P
  <2> SUFFICES ASSUME k + 1 <= n, NEW f, Sums(f, h, n), NEW S \in UpTo(k + 1)
               PROVE  f[S] = 0
    OBVIOUS
  <2>0. S \in UpTo(n)
    <3> HIDE DEF n, h
    <3> QED BY <1>1, UpToGrows
  <2>1. f[S] = IF S = {} THEN 0 ELSE h[Pick(S)] + f[S \ {Pick(S)}]
    <3> HIDE DEF h, n
    <3> QED BY <2>0 DEF Sums
  <2>2. CASE S # {}
    <3>1. Pick(S) \in Callers /\ S \ {Pick(S)} \in UpTo(k)
      BY ONLY <1>3, <2>2, S \in UpTo(k + 1), PickFacts
    <3>2. \A Q \in UpTo(k) : f[Q] = 0
      <4> HIDE DEF h, n
      <4> QED BY <1>1, <1>3
    <3> QED BY <2>1, <2>2, <3>1, <3>2
  <2> QED BY <2>1, <2>2
<1>4. n \in P
  <2> HIDE DEF P
  <2> QED BY <1>1, <1>2, <1>3, NatSetInduction
<1>5. PICK f : Sums(f, h, n) /\ Total(h) = f[Callers]
  <2> HIDE DEF h
  <2> QED BY TotalIsSum
<1>6. \A S \in UpTo(n) : f[S] = 0 BY <1>1, <1>4, <1>5
<1> HIDE DEF h, n, P
<1>7. Total(h) = 0 BY <1>1, <1>5, <1>6
<1> QED BY <1>7 DEF h

-----------------------------------------------------------------------------
\* A step that changes caller c's estimate to v moves the held total by as much.
Balance(c, v) ==
    /\ Total(hold) \in Nat
    /\ hold[c] \in Nat /\ hold[c] <= Total(hold)
    /\ Held' = Total(hold) + v - hold[c]

\* The counter is settled, held and stranded money, and nothing else, however
\* the callers' reserve, settle, cancel and death interleave.  Since the held
\* estimate of every caller is part of the counter, a refund never reaches
\* the floor of BUDGET_ADJUST: the floor hides no money.
THEOREM LedgerBalance == Spec => []LedgerBalances
<1>1. Init => LedgerBalances
  BY TotalZero DEF Init, LedgerBalances, Held
<1>2. TypeOK /\ LedgerBalances /\ [Next]_budgetVars => LedgerBalances'
  <2> SUFFICES ASSUME TypeOK, LedgerBalances, [Next]_budgetVars
               PROVE  LedgerBalances'
    OBVIOUS
  <2>1. /\ used \in Nat /\ settled \in Nat /\ stuck \in Nat
        /\ hold \in [Callers -> Nat]
        /\ used = settled + Total(hold) + stuck
    BY DEF TypeOK, LedgerBalances, Held
  <2>2. ASSUME NEW c \in Callers, NEW v \in Nat, hold' = [hold EXCEPT ![c] = v]
        PROVE  Balance(c, v)
    <3>1. Held' = Total([hold EXCEPT ![c] = v]) BY <2>2 DEF Held
    <3>2. Total([hold EXCEPT ![c] = v]) = Total(hold) + v - hold[c]
          /\ Total(hold) \in Nat
      BY <2>1, TotalUpdate
    <3>3. hold[c] <= Total(hold) /\ hold[c] \in Nat BY <2>1, TotalCovers
    <3> QED BY <3>1, <3>2, <3>3 DEF Balance
  <2>3. ASSUME NEW c \in Callers, Reserve(c) PROVE LedgerBalances'
    <3>1. PICK e \in Estimates : used' = used + e /\ hold' = [hold EXCEPT ![c] = e]
      BY <2>3 DEF Reserve
    <3>2. e \in Nat BY BudgetAssumption
    <3>3. hold[c] = 0 /\ settled' = settled /\ stuck' = stuck BY <2>3 DEF Reserve
    <3>4. Balance(c, e) BY <2>2, <3>1, <3>2
    <3> QED BY ONLY <2>1, <3>1, <3>2, <3>3, <3>4 DEF LedgerBalances, Balance
  <2>4. ASSUME NEW c \in Callers, Settle(c) PROVE LedgerBalances'
    <3>1. PICK cost \in Costs : /\ used' = Adjust(used, cost - hold[c])
                                /\ settled' = settled + cost
      BY <2>4 DEF Settle
    <3>2. cost \in Nat BY BudgetAssumption
    <3>3. stuck' = stuck /\ Balance(c, 0) BY <2>2, <2>4 DEF Settle
    <3> QED BY ONLY <2>1, <3>1, <3>2, <3>3 DEF LedgerBalances, Adjust, Balance
  <2>5. ASSUME NEW c \in Callers, SettleUnreported(c) PROVE LedgerBalances'
    <3>1. Balance(c, 0) BY <2>2, <2>5 DEF SettleUnreported
    <3>2. used' = used /\ settled' = settled + hold[c] /\ stuck' = stuck
      BY <2>5 DEF SettleUnreported
    <3> QED BY ONLY <2>1, <3>1, <3>2 DEF LedgerBalances, Balance
  <2>6. ASSUME NEW c \in Callers, Cancel(c) PROVE LedgerBalances'
    <3>1. Balance(c, 0) BY <2>2, <2>6 DEF Cancel
    <3>2. used' = Adjust(used, -hold[c]) /\ settled' = settled /\ stuck' = stuck
      BY <2>6 DEF Cancel
    <3> QED BY ONLY <2>1, <3>1, <3>2 DEF LedgerBalances, Balance, Adjust
  <2>7. ASSUME NEW c \in Callers, Abandon(c) PROVE LedgerBalances'
    <3>1. Balance(c, 0) BY <2>2, <2>7 DEF Abandon
    <3>2. used' = used /\ settled' = settled /\ stuck' = stuck + hold[c]
      BY <2>7 DEF Abandon
    <3> QED BY ONLY <2>1, <3>1, <3>2 DEF LedgerBalances, Balance
  <2>8. CASE UNCHANGED budgetVars
    BY <2>8 DEF budgetVars, LedgerBalances, Held
  <2> QED
    BY <2>3, <2>4, <2>5, <2>6, <2>7, <2>8 DEF Next
<1> QED
  BY <1>1, <1>2, TypeCorrect, PTL DEF Spec

=============================================================================
