------------------------ MODULE GenerationLoopProofs ------------------------
(***************************************************************************)
(* For every plan, every retry budget, every limit and price, every pair   *)
(* of thresholds and any number of kills:                                  *)
(*   - the state is well typed;                                            *)
(*   - the ledger of the chain balances and is never overdrawn;            *)
(*   - every settled dollar is recorded, about to be, or lost to a kill;   *)
(*   - the money side of the chain is a Budget with one caller;            *)
(*   - nothing below the identity floor is ever kept or delivered.         *)
(***************************************************************************)
EXTENDS GenerationLoop, TLAPS

\* A step always has at least one attempt.
LEMMA AttemptsPositive == MaxAttempts \in Nat \ {0}
  BY LoopAssumption DEF MaxAttempts

\* The head of the attempt loop keeps the attempt counter in range.
LEMMA NextAttemptType ==
  ASSUME TypeOK, NextAttempt
  PROVE  /\ attempt' \in 1..MaxAttempts
         /\ pc' \in {"reserve", "write", "stepEnd"}
  BY AttemptsPositive DEF TypeOK, NextAttempt

\* Checkpointing a session with more iterations, or a higher cost, keeps its
\* type.
LEMMA SessionCostType ==
  ASSUME NEW s \in Session, NEW cost \in Nat
  PROVE  [s EXCEPT !.cost = @ + cost] \in Session
<1>1. s.cost + cost \in Nat
  BY DEF Session
<1> QED
  BY <1>1 DEF Session

\* The same for an appended iteration with its cost.
LEMMA SessionAppendType ==
  ASSUME NEW s \in Session, NEW cost \in Nat, NEW it \in Iteration
  PROVE  [s EXCEPT !.iterations = Append(@, it), !.cost = @ + cost] \in Session
<1>1. s.cost + cost \in Nat
  BY DEF Session
<1>2. s.iterations \in Seq(Iteration)
  BY DEF Session
<1>3. Append(s.iterations, it) \in Seq(Iteration)
  BY <1>2
<1> QED
  BY <1>1, <1>3 DEF Session

\* Filling in the similarity of one iteration keeps the sequence's type, also
\* for an index outside the sequence.
LEMMA SimilarityType ==
  ASSUME NEW seq \in Seq(Iteration), NEW n \in Nat,
         NEW similarity \in Similarities
  PROVE  [seq EXCEPT ![n].sim = similarity] \in Seq(Iteration)
<1>1. ASSUME NEW it \in Iteration
      PROVE  [it EXCEPT !.sim = similarity] \in Iteration
  BY DEF Iteration
<1>2. seq \in [1..Len(seq) -> Iteration] /\ Len(seq) \in Nat
  OBVIOUS
<1>3. [seq EXCEPT ![n].sim = similarity] \in [1..Len(seq) -> Iteration]
  BY <1>1, <1>2
<1> QED
  BY <1>2, <1>3

\* The counter operations keep their types.
LEMMA MoneyType ==
  ASSUME TypeOK
  PROVE  /\ \A estimate \in Nat : OpenReservation(estimate) =>
               /\ used' \in Nat /\ hold' \in Nat /\ settled' \in Nat
               /\ overrun' \in Nat /\ stuck' \in Nat
         /\ \A cost \in Nat : SettleReservation(cost) =>
               /\ used' \in Nat /\ hold' \in Nat /\ settled' \in Nat
               /\ overrun' \in Nat /\ stuck' \in Nat
         /\ CancelReservation =>
               /\ used' \in Nat /\ hold' \in Nat /\ settled' \in Nat
               /\ overrun' \in Nat /\ stuck' \in Nat
  BY DEF TypeOK, OpenReservation, SettleReservation, CancelReservation,
         Ledger!Adjust, Ledger!Excess

-----------------------------------------------------------------------------
\* The state of the chain is well typed, whatever the run does and whenever it
\* is killed.
THEOREM TypeCorrect == Spec => []TypeOK
<1>1. Init => TypeOK
  <2> SUFFICES ASSUME Init PROVE TypeOK
    OBVIOUS
  <2> USE LoopAssumption, AttemptsPositive
  <2>1. session \in Session /\ terminals = <<>> /\ frame \in Frame
    BY DEF Init, Session, Frame, NoFrame
  <2>2. step \in Steps /\ attempt \in 1..MaxAttempts
    BY DEF Init, Steps
  <2>3. failure \in FailureCodes /\ exhausted \in BOOLEAN
    BY DEF Init, FailureCodes
  <2> QED
    BY <2>1, <2>2, <2>3 DEF Init, TypeOK
<1>2. TypeOK /\ [Next]_vars => TypeOK'
  <2> SUFFICES ASSUME TypeOK, [Next]_vars PROVE TypeOK'
    OBVIOUS
  <2> USE LoopAssumption, AttemptsPositive
  <2>1. CASE Start
    BY <2>1 DEF Start, TypeOK, Session, FailureCodes, moneyVars
  <2>2. CASE StartWithoutReference
    BY <2>2 DEF StartWithoutReference, TypeOK, FailureCodes, moneyVars
  <2>3. CASE Replay
    BY <2>3 DEF Replay, TypeOK, vars, runVars, moneyVars
  <2>4. CASE BeginStep
    <3>1. step' \in Steps /\ pc' \in {"reserve", "write"}
      BY <2>4 DEF BeginStep
    <3>2. attempt' \in 1..MaxAttempts
      BY <2>4 DEF BeginStep
    <3> QED
      BY <2>4, <3>1, <3>2 DEF BeginStep, TypeOK, FailureCodes, moneyVars
  <2>5. CASE AllStepsDone
    BY <2>5 DEF AllStepsDone, TypeOK, moneyVars
  <2>6. CASE WriterReserve
    BY <2>6, MoneyType DEF WriterReserve, TypeOK
  <2>7. CASE WriterDegrades
    BY <2>7 DEF WriterDegrades, TypeOK, moneyVars
  <2>8. CASE WriterAnswers
    <3>1. PICK cost \in Costs \cup {hold} :
             /\ SettleReservation(cost)
             /\ frame' = IF cost > 0 THEN [kind |-> "writer", cost |-> cost]
                         ELSE NoFrame
             /\ pc' = IF cost > 0 THEN "record" ELSE "reserve"
      BY <2>8 DEF WriterAnswers
    <3>2. cost \in Nat
      BY DEF TypeOK
    <3>3. frame' \in Frame
      BY <3>1, <3>2 DEF Frame, NoFrame
    <3> QED
      BY <2>8, <3>1, <3>2, <3>3, MoneyType DEF WriterAnswers, TypeOK
  <2>9. CASE WriterFails
    BY <2>9, MoneyType DEF WriterFails, TypeOK
  <2>10. CASE RecordWriterCost
    <3>1. frame.cost \in Nat /\ frame' \in Frame
      BY <2>10 DEF RecordWriterCost, TypeOK, Frame, NoFrame
    <3>2. session' \in Session
      BY <2>10, <3>1, SessionCostType DEF RecordWriterCost, TypeOK
    <3> QED
      BY <2>10, <3>1, <3>2 DEF RecordWriterCost, TypeOK, moneyVars
  <2>11. CASE ReserveGeneration
    BY <2>11, MoneyType DEF ReserveGeneration, TypeOK
  <2>12. CASE BudgetExhausted
    BY <2>12 DEF BudgetExhausted, TypeOK, FailureCodes, moneyVars
  <2>13. CASE Generated
    <3>1. PICK cost \in Costs \cup {hold} :
             /\ SettleReservation(cost)
             /\ frame' = [kind |-> "image", cost |-> cost]
      BY <2>13 DEF Generated
    <3>2. cost \in Nat
      BY DEF TypeOK
    <3> QED
      BY <2>13, <3>1, <3>2, MoneyType DEF Generated, TypeOK, Frame
  <2>14. CASE GenerationRefused
    <3>1. PICK cost \in Costs \cup {hold} :
             /\ SettleReservation(cost)
             /\ frame' = [kind |-> "refused", cost |-> cost]
      BY <2>14 DEF GenerationRefused
    <3>2. cost \in Nat
      BY DEF TypeOK
    <3> QED
      BY <2>14, <3>1, <3>2, MoneyType
         DEF GenerationRefused, TypeOK, Frame, FailureCodes
  <2>15. CASE GenerationFails
    BY <2>15, MoneyType DEF GenerationFails, TypeOK, Frame, FailureCodes
  <2>16. CASE RecordIteration
    <3>a. frame.cost \in Nat
      BY DEF TypeOK, Frame
    <3>b. [step |-> step, sim |-> Unchecked, on |-> working] \in Iteration
      BY DEF TypeOK, Iteration
    <3>1. session' \in Session
      BY <2>16, <3>a, <3>b, SessionAppendType DEF RecordIteration, TypeOK
    <3>2. attempt' \in 1..MaxAttempts
          /\ pc' \in {"check", "reserve", "write", "stepEnd"}
      BY <2>16, NextAttemptType DEF RecordIteration, TypeOK
    <3> QED
      BY <2>16, <3>1, <3>2
         DEF RecordIteration, TypeOK, Frame, NoFrame, moneyVars
  <2>17. CASE FaceChecked
    <3>1. PICK similarity \in Similarities :
            LET n == Len(session.iterations) IN
            /\ session' = [session EXCEPT !.iterations[n].sim = similarity]
            /\ stepBest' = IF KeepBestInStep(stepBest, similarity)
                           THEN n ELSE stepBest
            /\ IF Banded(similarity) = "passed"
               THEN pc' = "stepEnd" /\ UNCHANGED <<attempt, failure>>
               ELSE NextAttempt /\ failure' = "NO_DELIVERABLE"
      BY <2>17 DEF FaceChecked
    <3>2. session.iterations \in Seq(Iteration)
      BY DEF TypeOK, Session
    <3>3. [session.iterations EXCEPT ![Len(session.iterations)].sim = similarity]
             \in Seq(Iteration)
      BY <3>2, SimilarityType
    <3>4. session' \in Session
      BY <3>1, <3>3 DEF TypeOK, Session
    <3>5. stepBest' \in Nat
      <4>1. Len(session.iterations) \in Nat
        BY <3>2
      <4> QED
        BY <3>1, <4>1 DEF TypeOK
    <3>6. /\ attempt' \in 1..MaxAttempts
          /\ pc' \in {"reserve", "write", "stepEnd"}
          /\ failure' \in FailureCodes
      BY <3>1, NextAttemptType DEF TypeOK, FailureCodes
    <3> QED
      BY <2>17, <3>4, <3>5, <3>6 DEF FaceChecked, TypeOK, moneyVars
  <2>18. CASE FaceCheckFails
    BY <2>18, NextAttemptType DEF FaceCheckFails, TypeOK, FailureCodes, moneyVars
  <2>19. CASE CompleteStep
    <3>1. BestAfterStep \in Nat
      BY DEF BestAfterStep, TypeOK, Session
    <3> QED
      BY <2>19, <3>1 DEF CompleteStep, TypeOK, Session, moneyVars
  <2>20. CASE StopChain
    BY <2>20 DEF StopChain, TypeOK, moneyVars
  <2>21. CASE Finish
    BY <2>21 DEF Finish, TypeOK, Session, moneyVars
  <2>22. CASE PublishTerminal
    BY <2>22 DEF PublishTerminal, TypeOK, Session, moneyVars
  <2>23. CASE StoreOutcome
    BY <2>23 DEF StoreOutcome, TypeOK, moneyVars
  <2>24. CASE Kill
    <3>1. step' \in Steps /\ attempt' \in 1..MaxAttempts
      BY <2>24 DEF Kill, Steps
    <3>2. frame' \in Frame /\ frame.cost \in Nat
      BY <2>24 DEF Kill, TypeOK, Frame, NoFrame
    <3>3. failure' \in FailureCodes /\ exhausted' \in BOOLEAN
      BY <2>24 DEF Kill, FailureCodes
    <3> QED
      BY <2>24, <3>1, <3>2, <3>3 DEF Kill, TypeOK
  <2>25. CASE UNCHANGED vars
    BY <2>25 DEF vars, runVars, moneyVars, TypeOK
  <2> QED
    BY <2>1, <2>2, <2>3, <2>4, <2>5, <2>6, <2>7, <2>8, <2>9, <2>10, <2>11,
       <2>12, <2>13, <2>14, <2>15, <2>16, <2>17, <2>18, <2>19, <2>20, <2>21,
       <2>22, <2>23, <2>24, <2>25
       DEF Next, RunStep, Writer, Attempt, Chain
<1> QED
  BY <1>1, <1>2, PTL DEF Spec

-----------------------------------------------------------------------------
\* Steps that leave the money, the pending cost and the recorded cost alone and
\* neither enter nor leave a paid call preserve the invariant.
LEMMA QuietStep ==
  ASSUME TypeOK, MoneyInv, UNCHANGED <<moneyVars, frame, lost>>,
         session'.cost = session.cost,
         pc \notin {"writing", "generate", "record", "paid"},
         pc' \notin {"writing", "generate", "record", "paid"}
  PROVE  MoneyInv'
  BY DEF MoneyInv, CallsAreClosed, LedgerBalances, NoOverdraft, SpendAccounted,
         moneyVars

\* Reserving, settling and cancelling keep the ledger balanced and within the
\* limit.
LEMMA ReserveKeepsLedger ==
  ASSUME TypeOK, LedgerBalances, NoOverdraft, hold = 0,
         NEW estimate \in Nat, Ledger!Fits(used, estimate),
         OpenReservation(estimate)
  PROVE  LedgerBalances' /\ NoOverdraft'
  BY LoopAssumption
     DEF TypeOK, LedgerBalances, NoOverdraft, OpenReservation, Ledger!Fits

\* Settling moves the counter by what it adds to `settled' and takes off `hold';
\* only an excess over the estimate can pass the limit, and `overrun' counts it.
LEMMA SettleKeepsLedger ==
  ASSUME TypeOK, LedgerBalances, NoOverdraft,
         NEW cost \in Nat, SettleReservation(cost)
  PROVE  LedgerBalances' /\ NoOverdraft'
  BY LoopAssumption
     DEF TypeOK, LedgerBalances, NoOverdraft, SettleReservation,
         Ledger!Adjust, Ledger!Excess

\* A refund takes exactly the open estimate off the counter, so the floor of
\* BUDGET_ADJUST is never reached.
LEMMA CancelKeepsLedger ==
  ASSUME TypeOK, LedgerBalances, NoOverdraft, CancelReservation
  PROVE  LedgerBalances' /\ NoOverdraft'
  BY LoopAssumption
     DEF TypeOK, LedgerBalances, NoOverdraft, CancelReservation, Ledger!Adjust

\* The money invariants hold together, over all runs of the chain.
THEOREM MoneyInvariant == Spec => []MoneyInv
<1>1. Init => MoneyInv
  BY LoopAssumption
     DEF Init, MoneyInv, CallsAreClosed, LedgerBalances, NoOverdraft,
         SpendAccounted, NoFrame
<1>2. TypeOK /\ MoneyInv /\ [Next]_vars => MoneyInv'
  <2> SUFFICES ASSUME TypeOK, MoneyInv, [Next]_vars PROVE MoneyInv'
    OBVIOUS
  <2>t. frame.cost \in Nat /\ session.cost \in Nat
    BY DEF TypeOK, Frame, Session
  <2>1. CASE Start
    <3>1. session'.cost = session.cost
      BY <2>1 DEF Start, TypeOK, Session
    <3> QED
      BY <2>1, <3>1, QuietStep DEF Start
  <2>2. CASE StartWithoutReference
    BY <2>2, QuietStep DEF StartWithoutReference
  <2>3. CASE Replay
    BY <2>3 DEF Replay, vars, runVars, moneyVars, MoneyInv, CallsAreClosed,
       LedgerBalances, NoOverdraft, SpendAccounted
  <2>4. CASE BeginStep
    BY <2>4, QuietStep DEF BeginStep
  <2>5. CASE AllStepsDone
    BY <2>5, QuietStep DEF AllStepsDone
  <2>6. CASE WriterReserve
    <3>1. hold = 0 /\ frame = NoFrame
      BY <2>6 DEF WriterReserve, MoneyInv, CallsAreClosed, TypeOK
    <3>2. LedgerBalances' /\ NoOverdraft'
      BY <2>6, <3>1, LoopAssumption, ReserveKeepsLedger DEF WriterReserve, MoneyInv
    <3> QED
      BY <2>6, <3>1, <3>2, LoopAssumption
         DEF WriterReserve, OpenReservation, MoneyInv, CallsAreClosed, SpendAccounted
  <2>7. CASE WriterDegrades
    BY <2>7, QuietStep DEF WriterDegrades
  <2>8. CASE WriterAnswers
    <3>1. frame = NoFrame
      BY <2>8 DEF WriterAnswers, MoneyInv, CallsAreClosed
    <3>2. PICK cost \in Costs \cup {hold} :
             SettleReservation(cost) /\ frame'.cost = cost
      BY <2>8, LoopAssumption DEF WriterAnswers, NoFrame, TypeOK
    <3>3. cost \in Nat
      BY LoopAssumption DEF TypeOK
    <3>4. LedgerBalances' /\ NoOverdraft'
      BY <3>2, <3>3, SettleKeepsLedger DEF MoneyInv
    <3>u. UNCHANGED <<session, lost>>
      BY <2>8 DEF WriterAnswers
    <3>5. SpendAccounted'
      BY <2>t, <3>1, <3>2, <3>3, <3>u
         DEF SettleReservation, MoneyInv, SpendAccounted, NoFrame, TypeOK
    <3>6. CallsAreClosed'
      BY <2>8, <3>2 DEF WriterAnswers, SettleReservation, CallsAreClosed
    <3> QED
      BY <3>4, <3>5, <3>6 DEF MoneyInv
  <2>9. CASE WriterFails
    <3>1. frame = NoFrame
      BY <2>9 DEF WriterFails, MoneyInv, CallsAreClosed
    <3>2. LedgerBalances' /\ NoOverdraft'
      BY <2>9, CancelKeepsLedger DEF WriterFails, MoneyInv
    <3> QED
      BY <2>9, <3>1, <3>2 DEF WriterFails, CancelReservation, MoneyInv, CallsAreClosed,
         SpendAccounted, NoFrame
  <2>10. CASE RecordWriterCost
    <3>1. session'.cost = session.cost + frame.cost
      BY <2>10 DEF RecordWriterCost, TypeOK, Session
    <3>2. hold = 0 /\ frame' = NoFrame
      BY <2>10 DEF RecordWriterCost, MoneyInv, CallsAreClosed, TypeOK
    <3>3. pc' \notin {"writing", "generate"} /\ UNCHANGED <<moneyVars, lost>>
      BY <2>10 DEF RecordWriterCost
    <3> QED
      BY <2>t, <3>1, <3>2, <3>3 DEF MoneyInv, CallsAreClosed, LedgerBalances,
         NoOverdraft, SpendAccounted, NoFrame, moneyVars, TypeOK
  <2>11. CASE ReserveGeneration
    <3>1. hold = 0 /\ frame = NoFrame
      BY <2>11 DEF ReserveGeneration, MoneyInv, CallsAreClosed, TypeOK
    <3>2. LedgerBalances' /\ NoOverdraft'
      BY <2>11, <3>1, LoopAssumption, ReserveKeepsLedger DEF ReserveGeneration, MoneyInv
    <3> QED
      BY <2>11, <3>1, <3>2, LoopAssumption
         DEF ReserveGeneration, OpenReservation, MoneyInv, CallsAreClosed, SpendAccounted
  <2>12. CASE BudgetExhausted
    BY <2>12, QuietStep DEF BudgetExhausted
  <2>13. CASE Generated
    <3>1. frame = NoFrame
      BY <2>13 DEF Generated, MoneyInv, CallsAreClosed
    <3>2. PICK cost \in Costs \cup {hold} :
             SettleReservation(cost) /\ frame'.cost = cost
      BY <2>13, LoopAssumption DEF Generated, NoFrame, TypeOK
    <3>3. cost \in Nat
      BY LoopAssumption DEF TypeOK
    <3>4. LedgerBalances' /\ NoOverdraft'
      BY <3>2, <3>3, SettleKeepsLedger DEF MoneyInv
    <3>u. UNCHANGED <<session, lost>>
      BY <2>13 DEF Generated
    <3>5. SpendAccounted'
      BY <2>t, <3>1, <3>2, <3>3, <3>u
         DEF SettleReservation, MoneyInv, SpendAccounted, NoFrame, TypeOK
    <3>6. CallsAreClosed'
      BY <2>13, <3>2 DEF Generated, SettleReservation, CallsAreClosed
    <3> QED
      BY <3>4, <3>5, <3>6 DEF MoneyInv
  <2>14. CASE GenerationRefused
    <3>1. frame = NoFrame
      BY <2>14 DEF GenerationRefused, MoneyInv, CallsAreClosed
    <3>2. PICK cost \in Costs \cup {hold} :
             SettleReservation(cost) /\ frame'.cost = cost
      BY <2>14, LoopAssumption DEF GenerationRefused, NoFrame, TypeOK
    <3>3. cost \in Nat
      BY LoopAssumption DEF TypeOK
    <3>4. LedgerBalances' /\ NoOverdraft'
      BY <3>2, <3>3, SettleKeepsLedger DEF MoneyInv
    <3>u. UNCHANGED <<session, lost>>
      BY <2>14 DEF GenerationRefused
    <3>5. SpendAccounted'
      BY <2>t, <3>1, <3>2, <3>3, <3>u
         DEF SettleReservation, MoneyInv, SpendAccounted, NoFrame, TypeOK
    <3>6. CallsAreClosed'
      BY <2>14, <3>2 DEF GenerationRefused, SettleReservation, CallsAreClosed
    <3> QED
      BY <3>4, <3>5, <3>6 DEF MoneyInv
  <2>15. CASE GenerationFails
    <3>1. frame = NoFrame
      BY <2>15 DEF GenerationFails, MoneyInv, CallsAreClosed
    <3>2. LedgerBalances' /\ NoOverdraft'
      BY <2>15, CancelKeepsLedger DEF GenerationFails, MoneyInv
    <3> QED
      BY <2>15, <3>1, <3>2 DEF GenerationFails, CancelReservation, MoneyInv, CallsAreClosed,
         SpendAccounted, NoFrame
  <2>16. CASE RecordIteration
    <3>1. session'.cost = session.cost + frame.cost
      BY <2>16 DEF RecordIteration, TypeOK, Session
    <3>2. hold = 0 /\ frame' = NoFrame
      BY <2>16 DEF RecordIteration, MoneyInv, CallsAreClosed, TypeOK
    <3>3. pc' \notin {"writing", "generate"} /\ UNCHANGED <<moneyVars, lost>>
      BY <2>16 DEF RecordIteration, NextAttempt
    <3> QED
      BY <2>t, <3>1, <3>2, <3>3 DEF MoneyInv, CallsAreClosed, LedgerBalances,
         NoOverdraft, SpendAccounted, NoFrame, moneyVars, TypeOK
  <2>17. CASE FaceChecked
    <3>1. session'.cost = session.cost
      BY <2>17 DEF FaceChecked, TypeOK, Session
    <3> QED
      BY <2>17, <3>1, QuietStep DEF FaceChecked, NextAttempt
  <2>18. CASE FaceCheckFails
    BY <2>18, QuietStep DEF FaceCheckFails, NextAttempt
  <2>19. CASE CompleteStep
    <3>1. session'.cost = session.cost
      BY <2>19 DEF CompleteStep, TypeOK, Session
    <3> QED
      BY <2>19, <3>1, QuietStep DEF CompleteStep
  <2>20. CASE StopChain
    BY <2>20, QuietStep DEF StopChain
  <2>21. CASE Finish
    <3>1. session'.cost = session.cost
      BY <2>21 DEF Finish, TypeOK, Session
    <3> QED
      BY <2>21, <3>1, QuietStep DEF Finish
  <2>22. CASE PublishTerminal
    BY <2>22, QuietStep DEF PublishTerminal
  <2>23. CASE StoreOutcome
    BY <2>23, QuietStep DEF StoreOutcome
  <2>24. CASE Kill
    <3>1. LedgerBalances' /\ NoOverdraft' /\ CallsAreClosed'
      BY <2>24 DEF Kill, MoneyInv, LedgerBalances, NoOverdraft, CallsAreClosed,
         TypeOK
    <3>2. SpendAccounted'
      BY <2>24, <2>t DEF Kill, MoneyInv, SpendAccounted, NoFrame, TypeOK
    <3> QED
      BY <3>1, <3>2 DEF MoneyInv
  <2>25. CASE UNCHANGED vars
    BY <2>25 DEF vars, runVars, moneyVars, MoneyInv, CallsAreClosed,
       LedgerBalances, NoOverdraft, SpendAccounted
  <2> QED
    BY <2>1, <2>2, <2>3, <2>4, <2>5, <2>6, <2>7, <2>8, <2>9, <2>10, <2>11, <2>12, <2>13, <2>14, <2>15, <2>16, <2>17, <2>18, <2>19, <2>20, <2>21, <2>22, <2>23, <2>24, <2>25
       DEF Next, RunStep, Writer, Attempt, Chain
<1> QED
  BY <1>1, <1>2, TypeCorrect, PTL DEF Spec

\* No path of the run, the error paths and kills included, leaves a reservation
\* open behind a later call.
THEOREM ClosedCalls == Spec => []CallsAreClosed
<1>1. MoneyInv => CallsAreClosed
  BY DEF MoneyInv
<1> QED
  BY <1>1, MoneyInvariant, PTL

\* The counter is always what was settled, held and stuck.
THEOREM Balance == Spec => []LedgerBalances
<1>1. MoneyInv => LedgerBalances
  BY DEF MoneyInv
<1> QED
  BY <1>1, MoneyInvariant, PTL

\* The chain never overdraws, however often it is killed and entered again.
THEOREM Overdraft == Spec => []NoOverdraft
<1>1. MoneyInv => NoOverdraft
  BY DEF MoneyInv
<1> QED
  BY <1>1, MoneyInvariant, PTL

\* Every settled dollar is on record, about to be, or lost to a kill.
THEOREM Accounting == Spec => []SpendAccounted
<1>1. MoneyInv => SpendAccounted
  BY DEF MoneyInv
<1> QED
  BY <1>1, MoneyInvariant, PTL

-----------------------------------------------------------------------------
\* The one caller's hold, as Budget sees it.
LEMMA HoldUpdate ==
  ASSUME NEW h, hold' = h
  PROVE  [c \in {"run"} |-> hold'] = [[c \in {"run"} |-> hold] EXCEPT !["run"] = h]
  OBVIOUS

\* What the chain does to the counter is what one caller of Budget does: a
\* reservation is Reserve, ...
LEMMA ReserveRefines ==
  ASSUME TypeOK, hold = 0, NEW estimate \in GenEstimates \cup {WriterEstimate},
         Ledger!Fits(used, estimate), OpenReservation(estimate)
  PROVE  Ledger!Reserve("run")
  BY HoldUpdate DEF OpenReservation, Ledger!Reserve

\* ... a settlement is Settle or SettleUnreported, ...
LEMMA SettleRefines ==
  ASSUME TypeOK, hold > 0, NEW cost \in Costs \cup {hold},
         SettleReservation(cost)
  PROVE  Ledger!Settle("run") \/ Ledger!SettleUnreported("run")
<1>1. CASE cost \in Costs
  BY <1>1, HoldUpdate DEF SettleReservation, Ledger!Settle
<1>2. CASE cost = hold
  <2>1. used' = used /\ overrun' = overrun
    BY <1>2 DEF TypeOK, SettleReservation, Ledger!Adjust, Ledger!Excess
  <2> QED
    BY <1>2, <2>1, HoldUpdate DEF SettleReservation, Ledger!SettleUnreported
<1> QED
  BY <1>1, <1>2

\* ... and a refund is Cancel.
LEMMA CancelRefines ==
  ASSUME TypeOK, hold > 0, CancelReservation
  PROVE  Ledger!Cancel("run")
  BY HoldUpdate DEF CancelReservation, Ledger!Cancel

\* On the money, every step of the chain is a step of Budget with one caller or
\* changes nothing: the loop spends only by reserving first, closes each
\* reservation once, and abandons one only when it is killed.
THEOREM ImplementsBudget == Spec => BudgetSpec
<1>1. Init => Ledger!Init
  BY DEF Init, Ledger!Init
<1>2. TypeOK /\ MoneyInv /\ [Next]_vars => [Ledger!Next]_(Ledger!budgetVars)
  <2> SUFFICES ASSUME TypeOK, MoneyInv, [Next]_vars
               PROVE  [Ledger!Next]_(Ledger!budgetVars)
    OBVIOUS
  <2>q. ASSUME UNCHANGED moneyVars PROVE UNCHANGED Ledger!budgetVars
    BY <2>q DEF moneyVars, Ledger!budgetVars
  <2>1. CASE Start \/ StartWithoutReference \/ Replay \/ Chain
    BY <2>1, <2>q DEF Start, StartWithoutReference, Replay, Chain, BeginStep,
       AllStepsDone, CompleteStep, StopChain, Finish, PublishTerminal,
       StoreOutcome, vars
  <2>2. CASE WriterDegrades \/ RecordWriterCost \/ BudgetExhausted
             \/ RecordIteration \/ FaceChecked \/ FaceCheckFails
    BY <2>2, <2>q DEF WriterDegrades, RecordWriterCost, BudgetExhausted,
       RecordIteration, FaceChecked, FaceCheckFails
  <2>3. CASE WriterReserve \/ ReserveGeneration
    <3>1. hold = 0
      BY <2>3 DEF WriterReserve, ReserveGeneration, MoneyInv, CallsAreClosed,
         TypeOK
    <3>2. \E estimate \in GenEstimates \cup {WriterEstimate} :
             Ledger!Fits(used, estimate) /\ OpenReservation(estimate)
      BY <2>3 DEF WriterReserve, ReserveGeneration
    <3> QED
      BY <3>1, <3>2, ReserveRefines DEF Ledger!Next
  <2>4. CASE WriterAnswers \/ Generated \/ GenerationRefused
    <3>1. hold > 0
      BY <2>4 DEF WriterAnswers, Generated, GenerationRefused, MoneyInv,
         CallsAreClosed
    <3>2. \E cost \in Costs \cup {hold} : SettleReservation(cost)
      BY <2>4 DEF WriterAnswers, Generated, GenerationRefused
    <3> QED
      BY <3>1, <3>2, SettleRefines DEF Ledger!Next
  <2>5. CASE WriterFails \/ GenerationFails
    <3>1. hold > 0 /\ CancelReservation
      BY <2>5 DEF WriterFails, GenerationFails, MoneyInv, CallsAreClosed
    <3> QED
      BY <3>1, CancelRefines DEF Ledger!Next
  <2>6. CASE Kill
    <3>1. CASE hold = 0
      BY <2>6, <3>1, <2>q DEF Kill, moneyVars, TypeOK
    <3>2. CASE hold > 0
      <4>1. Ledger!Abandon("run")
        BY <2>6, <3>2, HoldUpdate DEF Kill, Ledger!Abandon
      <4> QED
        BY <4>1 DEF Ledger!Next
    <3> QED
      BY <3>1, <3>2 DEF TypeOK
  <2>7. CASE UNCHANGED vars
    BY <2>7, <2>q DEF vars
  <2> QED
    BY <2>1, <2>2, <2>3, <2>4, <2>5, <2>6, <2>7
       DEF Next, RunStep, Writer, Attempt
<1> QED
  BY <1>1, <1>2, TypeCorrect, MoneyInvariant, PTL DEF Spec, BudgetSpec, Ledger!Spec

-----------------------------------------------------------------------------
\* The frame under face check is the last one on record and has no similarity
\* yet, so scoring it cannot touch a frame that was kept earlier.
CheckedFrameIsFresh ==
    pc = "check" => /\ Len(session.iterations) > 0
                    /\ Sim(Len(session.iterations)) = Unchecked

KeptInv == KeptFramesDeliverable /\ CheckedFrameIsFresh

\* A step that keeps all iterations and all kept frames (dropping this step's
\* best at most) and does not enter the face check preserves the invariant.
LEMMA KeepingStep ==
  ASSUME KeptInv, pc' # "check",
         session'.iterations = session.iterations,
         session'.result = session.result,
         session'.best = session.best,
         stepBest' \in {stepBest, 0}
  PROVE  KeptInv'
  BY DEF KeptInv, KeptFramesDeliverable, CheckedFrameIsFresh, Deliverable,
         Completed, Sim

\* What is kept is deliverable, and the frame under check is not kept yet.
LEMMA KeptInvariant == Spec => []KeptInv
<1>1. Init => KeptInv
  BY DEF Init, KeptInv, KeptFramesDeliverable, CheckedFrameIsFresh, Completed
<1>2. TypeOK /\ KeptInv /\ [Next]_vars => KeptInv'
  <2> SUFFICES ASSUME TypeOK, KeptInv, [Next]_vars PROVE KeptInv'
    OBVIOUS
  <2>t. /\ session.iterations \in Seq(Iteration)
        /\ Len(session.iterations) \in Nat
        /\ session.result \in [Steps -> Nat]
        /\ session.best \in Nat
    BY DEF TypeOK, Session
  <2>1. CASE Start
    <3>1. /\ session'.iterations = session.iterations
          /\ session'.result = session.result /\ session'.best = session.best
      BY <2>1 DEF Start, TypeOK, Session
    <3> QED
      BY <2>1, <3>1, KeepingStep DEF Start
  <2>2. CASE StartWithoutReference
    BY <2>2, KeepingStep DEF StartWithoutReference
  <2>3. CASE Replay
    BY <2>3 DEF Replay, vars, runVars, KeptInv, KeptFramesDeliverable,
       CheckedFrameIsFresh, Deliverable, Completed, Sim
  <2>4. CASE BeginStep
    BY <2>4, KeepingStep DEF BeginStep
  <2>5. CASE AllStepsDone
    BY <2>5, KeepingStep DEF AllStepsDone
  <2>6. CASE WriterReserve
    BY <2>6, KeepingStep DEF WriterReserve
  <2>7. CASE WriterDegrades
    BY <2>7, KeepingStep DEF WriterDegrades
  <2>8. CASE WriterAnswers
    BY <2>8, KeepingStep DEF WriterAnswers
  <2>9. CASE WriterFails
    BY <2>9, KeepingStep DEF WriterFails
  <2>10. CASE RecordWriterCost
    <3>1. /\ session'.iterations = session.iterations
          /\ session'.result = session.result /\ session'.best = session.best
      BY <2>10 DEF RecordWriterCost, TypeOK, Session
    <3> QED
      BY <2>10, <3>1, KeepingStep DEF RecordWriterCost
  <2>11. CASE ReserveGeneration
    BY <2>11, KeepingStep DEF ReserveGeneration
  <2>12. CASE BudgetExhausted
    BY <2>12, KeepingStep DEF BudgetExhausted
  <2>13. CASE Generated
    BY <2>13, KeepingStep DEF Generated
  <2>14. CASE GenerationRefused
    BY <2>14, KeepingStep DEF GenerationRefused
  <2>15. CASE GenerationFails
    BY <2>15, KeepingStep DEF GenerationFails
  <2>16. CASE RecordIteration
    <3> DEFINE it == [step |-> step, sim |-> Unchecked, on |-> working]
    <3>1. /\ session'.iterations = Append(session.iterations, it)
          /\ session'.result = session.result /\ session'.best = session.best
          /\ stepBest' = stepBest
      BY <2>16 DEF RecordIteration, TypeOK, Session
    <3>2. /\ Len(session'.iterations) = Len(session.iterations) + 1
          /\ \A k \in 1..Len(session.iterations) :
                session'.iterations[k] = session.iterations[k]
          /\ session'.iterations[Len(session.iterations) + 1] = it
      BY <2>t, <3>1
    <3>3. ASSUME NEW k \in Nat, Deliverable(k) PROVE Deliverable(k)'
      BY <2>t, <3>2, <3>3 DEF Deliverable, Sim
    <3>4. KeptFramesDeliverable'
      BY <2>t, <3>1, <3>3 DEF KeptInv, KeptFramesDeliverable, Completed, TypeOK
    <3>5. CheckedFrameIsFresh'
      BY <2>t, <3>2 DEF CheckedFrameIsFresh, Sim
    <3> QED
      BY <3>4, <3>5 DEF KeptInv
  <2>17. CASE FaceChecked
    <3> DEFINE m == Len(session.iterations)
    <3>1. PICK similarity \in Similarities :
            /\ session' = [session EXCEPT !.iterations[m].sim = similarity]
            /\ stepBest' = IF KeepBestInStep(stepBest, similarity)
                           THEN m ELSE stepBest
      BY <2>17 DEF FaceChecked
    <3>2. m > 0 /\ Sim(m) = Unchecked
      BY <2>17 DEF FaceChecked, KeptInv, CheckedFrameIsFresh
    <3>3. /\ session'.iterations = [session.iterations EXCEPT ![m].sim = similarity]
          /\ session'.result = session.result /\ session'.best = session.best
      BY <3>1 DEF TypeOK, Session
    <3>4. /\ Len(session'.iterations) = m
          /\ \A k \in 1..m : k # m => session'.iterations[k] = session.iterations[k]
          /\ session'.iterations[m].sim = similarity
      <4>1. session.iterations \in [1..m -> Iteration]
        BY <2>t
      <4>2. session'.iterations \in [1..m -> Iteration]
        BY <4>1, <3>3 DEF Iteration
      <4>3. session'.iterations[m].sim = similarity
        BY <4>1, <2>t, <3>2, <3>3 DEF Iteration
      <4>4. \A k \in 1..m : k # m => session'.iterations[k] = session.iterations[k]
        BY <4>1, <3>3
      <4>5. Len(session'.iterations) = m
        BY <4>2, <2>t
      <4> QED
        BY <4>3, <4>4, <4>5
    <3>5. ASSUME NEW k \in Nat, Deliverable(k) PROVE Deliverable(k)'
      <4>1. k # m
        BY <3>2, <3>5, LoopAssumption DEF Deliverable, Unchecked
      <4> QED
        BY <4>1, <3>4, <3>5 DEF Deliverable, Sim
    <3>6. KeepBestInStep(stepBest, similarity) => Deliverable(m)'
      <4>1. KeepBestInStep(stepBest, similarity) => similarity >= Floor
        BY LoopAssumption DEF KeepBestInStep, Banded, Similarities
      <4> QED
        BY <4>1, <2>t, <3>2, <3>4 DEF Deliverable, Sim
    <3>7. KeptFramesDeliverable'
      BY <2>t, <3>1, <3>3, <3>5, <3>6
         DEF KeptInv, KeptFramesDeliverable, Completed, TypeOK
    <3>8. CheckedFrameIsFresh'
      BY <2>17 DEF FaceChecked, NextAttempt, CheckedFrameIsFresh
    <3> QED
      BY <3>7, <3>8 DEF KeptInv
  <2>18. CASE FaceCheckFails
    BY <2>18, KeepingStep DEF FaceCheckFails, NextAttempt
  <2>19. CASE CompleteStep
    <3>1. /\ session'.iterations = session.iterations
          /\ session'.result = [session.result EXCEPT ![step] = stepBest]
          /\ session'.best \in {session.best, stepBest}
          /\ stepBest' = stepBest /\ stepBest # 0 /\ pc' # "check"
      BY <2>19 DEF CompleteStep, BestAfterStep, TypeOK, Session
    <3>2. ASSUME NEW s \in Steps, session'.result[s] # 0
          PROVE  Deliverable(session'.result[s])
      BY <2>t, <3>1, <3>2 DEF KeptInv, KeptFramesDeliverable, Completed, TypeOK
    <3>3. session'.best # 0 => Deliverable(session'.best)
      BY <3>1 DEF KeptInv, KeptFramesDeliverable
    <3>4. \A k : Deliverable(k) <=> Deliverable(k)'
      BY <3>1 DEF Deliverable, Sim
    <3> QED
      BY <3>1, <3>2, <3>3, <3>4
         DEF KeptInv, KeptFramesDeliverable, CheckedFrameIsFresh, Completed
  <2>20. CASE StopChain
    BY <2>20, KeepingStep DEF StopChain
  <2>21. CASE Finish
    <3>1. /\ session'.iterations = session.iterations
          /\ session'.result = session.result /\ session'.best = session.best
      BY <2>21 DEF Finish, TypeOK, Session
    <3> QED
      BY <2>21, <3>1, KeepingStep DEF Finish
  <2>22. CASE PublishTerminal
    BY <2>22, KeepingStep DEF PublishTerminal
  <2>23. CASE StoreOutcome
    BY <2>23, KeepingStep DEF StoreOutcome
  <2>24. CASE Kill
    BY <2>24, KeepingStep DEF Kill
  <2>25. CASE UNCHANGED vars
    BY <2>25 DEF vars, runVars, KeptInv, KeptFramesDeliverable,
       CheckedFrameIsFresh, Deliverable, Completed, Sim
  <2> QED
    BY <2>1, <2>2, <2>3, <2>4, <2>5, <2>6, <2>7, <2>8, <2>9, <2>10, <2>11, <2>12,
       <2>13, <2>14, <2>15, <2>16, <2>17, <2>18, <2>19, <2>20, <2>21, <2>22, <2>23, <2>24, <2>25
       DEF Next, RunStep, Writer, Attempt, Chain
<1> QED
  BY <1>1, <1>2, TypeCorrect, PTL DEF Spec

\* Nothing below the identity floor, and nothing that was not face-checked, is
\* ever kept or delivered, for any thresholds, plan and history of kills.
THEOREM KeptFrames == Spec => []KeptFramesDeliverable
<1>1. KeptInv => KeptFramesDeliverable
  BY DEF KeptInv
<1> QED
  BY <1>1, KeptInvariant, PTL

=============================================================================
