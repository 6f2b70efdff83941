---------------------------- MODULE ChainProofs -----------------------------
(***************************************************************************)
(* The chain of steps of GenerationLoop, for every plan, every retry       *)
(* budget, every pair of thresholds and any number of kills:               *)
(*   - a completed step is final;                                          *)
(*   - what is delivered is the last completed step's frame, or its        *)
(*     predecessor's when the enhance step regressed;                      *)
(*   - the stored outcome, the last terminal event and the session agree;  *)
(*   - the iterations of a step are bounded by the entries of the chain;   *)
(*   - until the first kill, a step keeps the best of all its frames and   *)
(*     edits the result of the step before it.                             *)
(***************************************************************************)
EXTENDS GenerationLoopProofs, FiniteSetTheorems

\* The places inside a step, and those before the attempt's provider call is
\* answered.
InStep == pc \in {"write", "writing", "record", "reserve", "generate", "paid",
                  "check", "stepEnd"}

Before == {"write", "writing", "record", "reserve", "generate"}

-----------------------------------------------------------------------------
\* The steps between two checkpoints that matter to the chain: the paid calls
\* of an attempt, up to the answer or the end of the budget.
InnerMove ==
    /\ pc \in Before
    /\ pc' \in Before \cup {"paid", "stepEnd"}
    /\ UNCHANGED <<session.iterations, session.result, session.best, session.fsm>>
    /\ UNCHANGED <<idem, terminals, step, attempt, stepBest, working, kills>>

\* A recorded writer cost moves the accounting and nothing else of the record.
LEMMA RecordWriterCostFacts ==
  ASSUME TypeOK, RecordWriterCost
  PROVE  InnerMove
  BY DEF RecordWriterCost, InnerMove, TypeOK, Session, Before

\* Every step of the chain, sorted by what it does to the record.
LEMMA StepKinds ==
  ASSUME TypeOK, [Next]_vars
  PROVE  \/ Start \/ StartWithoutReference \/ BeginStep \/ AllStepsDone
         \/ InnerMove \/ RecordIteration \/ FaceChecked \/ FaceCheckFails
         \/ CompleteStep \/ StopChain \/ Finish \/ PublishTerminal
         \/ StoreOutcome \/ Kill \/ UNCHANGED vars
<1>1. Replay => UNCHANGED vars
  BY DEF Replay
<1>2. WriterReserve \/ WriterDegrades \/ WriterAnswers \/ WriterFails => InnerMove
  BY DEF WriterReserve, WriterDegrades, WriterAnswers, WriterFails, InnerMove, Before
<1>3. ReserveGeneration \/ BudgetExhausted => InnerMove
  BY DEF ReserveGeneration, BudgetExhausted, InnerMove, Before
<1>4. Generated \/ GenerationRefused \/ GenerationFails => InnerMove
  BY DEF Generated, GenerationRefused, GenerationFails, InnerMove, Before
<1>5. RecordWriterCost => InnerMove
  BY RecordWriterCostFacts
<1> QED
  BY <1>1, <1>2, <1>3, <1>4, <1>5 DEF Next, RunStep, Writer, Attempt, Chain

\* What the actions that write the record do to its fields.
LEMMA StartFacts ==
  ASSUME TypeOK, Start
  PROVE  /\ UNCHANGED <<session.iterations, session.result, session.best>>
         /\ session'.fsm = "generating"
  BY DEF Start, TypeOK, Session

\* Finish changes the state of the session only.
LEMMA FinishFacts ==
  ASSUME TypeOK, Finish
  PROVE  /\ UNCHANGED <<session.iterations, session.result, session.best, session.cost>>
         /\ session'.fsm = IF session.best # 0 THEN "done" ELSE "failed"
  BY DEF Finish, TypeOK, Session

\* The record of a well-typed state, field by field.
LEMMA RecordTypes ==
  ASSUME TypeOK
  PROVE  /\ session.iterations \in Seq(Iteration)
         /\ Len(session.iterations) \in Nat
         /\ session.result \in [Steps -> Nat]
         /\ session.best \in Nat
         /\ session.cost \in Nat
         /\ \A k \in 1..Len(session.iterations) :
               /\ session.iterations[k] \in Iteration
               /\ Sim(k) \in Int
<1>1. /\ session.iterations \in Seq(Iteration)
      /\ session.result \in [Steps -> Nat]
      /\ session.best \in Nat /\ session.cost \in Nat
  BY DEF TypeOK, Session
<1>2. \A k \in 1..Len(session.iterations) : session.iterations[k] \in Iteration
  BY <1>1
<1>3. \A k \in 1..Len(session.iterations) : Sim(k) \in Int
  BY <1>2, LoopAssumption DEF Sim, Iteration, Similarities, Unchecked
<1> QED
  BY <1>1, <1>2, <1>3

\* Recording an iteration appends one frame of the step being run.
LEMMA RecordFacts ==
  ASSUME TypeOK, RecordIteration
  PROVE  /\ pc = "paid"
         /\ UNCHANGED <<session.result, session.best, session.fsm>>
         /\ UNCHANGED <<idem, terminals, step, stepBest, working, kills>>
         /\ Len(session'.iterations) = Len(session.iterations) + 1
         /\ \A k \in 1..Len(session.iterations) :
               session'.iterations[k] = session.iterations[k]
         /\ session'.iterations[Len(session.iterations) + 1]
               = [step |-> step, sim |-> Unchecked, on |-> working]
         /\ \/ pc' = "check" /\ attempt' = attempt
            \/ pc' \in {"reserve", "write"} /\ attempt' = attempt + 1
            \/ pc' = "stepEnd" /\ attempt' = attempt
<1> DEFINE it == [step |-> step, sim |-> Unchecked, on |-> working]
<1>1. /\ session'.iterations = Append(session.iterations, it)
      /\ UNCHANGED <<session.result, session.best, session.fsm>>
  BY DEF RecordIteration, TypeOK, Session
<1>2. /\ Len(session'.iterations) = Len(session.iterations) + 1
      /\ \A k \in 1..Len(session.iterations) :
            session'.iterations[k] = session.iterations[k]
      /\ session'.iterations[Len(session.iterations) + 1] = it
  BY <1>1, RecordTypes
<1>3. /\ pc = "paid"
      /\ UNCHANGED <<idem, terminals, step, stepBest, working, kills>>
      /\ \/ pc' = "check" /\ attempt' = attempt
         \/ pc' \in {"reserve", "write"} /\ attempt' = attempt + 1
         \/ pc' = "stepEnd" /\ attempt' = attempt
  BY DEF RecordIteration, NextAttempt
<1> QED
  BY <1>1, <1>2, <1>3

\* A face check fills in the similarity of the last frame, keeps that frame when
\* it is deliverable and strictly better, and ends the attempt.
LEMMA CheckFacts ==
  ASSUME TypeOK, KeptInv, FaceChecked
  PROVE  \E similarity \in Similarities :
           LET m == Len(session.iterations) IN
           /\ m \in Nat /\ m > 0 /\ Sim(m) = Unchecked
           /\ pc = "check"
           /\ UNCHANGED <<session.result, session.best, session.fsm>>
           /\ UNCHANGED <<idem, terminals, step, working, kills>>
           /\ Len(session'.iterations) = m
           /\ \A k \in 1..m : k # m => session'.iterations[k] = session.iterations[k]
           /\ session'.iterations[m].sim = similarity
           /\ session'.iterations[m].step = session.iterations[m].step
           /\ session'.iterations[m].on = session.iterations[m].on
           /\ IF similarity >= Floor
                 /\ (stepBest = 0 \/ similarity > Sim(stepBest))
              THEN stepBest' = m ELSE stepBest' = stepBest
           /\ \/ pc' \in {"reserve", "write"} /\ attempt' = attempt + 1
              \/ pc' = "stepEnd" /\ attempt' = attempt
<1> DEFINE m == Len(session.iterations)
<1>1. PICK similarity \in Similarities :
        /\ session' = [session EXCEPT !.iterations[m].sim = similarity]
        /\ stepBest' = IF KeepBestInStep(stepBest, similarity)
                       THEN m ELSE stepBest
        /\ IF Banded(similarity) = "passed"
           THEN pc' = "stepEnd" /\ UNCHANGED <<attempt, failure>>
           ELSE NextAttempt /\ failure' = "NO_DELIVERABLE"
  BY DEF FaceChecked
<1>2. m \in Nat /\ m > 0 /\ Sim(m) = Unchecked
  BY RecordTypes DEF FaceChecked, KeptInv, CheckedFrameIsFresh
<1>3. /\ session'.iterations = [session.iterations EXCEPT ![m].sim = similarity]
      /\ UNCHANGED <<session.result, session.best, session.fsm>>
  BY <1>1 DEF TypeOK, Session
<1>4. session.iterations \in [1..m -> Iteration]
  BY RecordTypes
<1>5. session'.iterations \in [1..m -> Iteration]
  BY <1>3, <1>4 DEF Iteration
<1>6. /\ session'.iterations[m].sim = similarity
      /\ session'.iterations[m].step = session.iterations[m].step
      /\ session'.iterations[m].on = session.iterations[m].on
  BY <1>2, <1>3, <1>4 DEF Iteration
<1>7. \A k \in 1..m : k # m => session'.iterations[k] = session.iterations[k]
  BY <1>3, <1>4
<1>8. Len(session'.iterations) = m
  BY <1>2, <1>5
<1>9. KeepBestInStep(stepBest, similarity)
         <=> similarity >= Floor /\ (stepBest = 0 \/ similarity > Sim(stepBest))
  BY LoopAssumption DEF KeepBestInStep, Banded, Similarities
<1>10. IF similarity >= Floor /\ (stepBest = 0 \/ similarity > Sim(stepBest))
       THEN stepBest' = m ELSE stepBest' = stepBest
  BY <1>1, <1>9
<1>11. \/ pc' \in {"reserve", "write"} /\ attempt' = attempt + 1
       \/ pc' = "stepEnd" /\ attempt' = attempt
  BY <1>1 DEF NextAttempt
<1>12. pc = "check" /\ UNCHANGED <<idem, terminals, step, working, kills>>
  BY DEF FaceChecked
<1> QED
  BY <1>2, <1>3, <1>6, <1>7, <1>8, <1>10, <1>11, <1>12

\* Completing a step fills in its result and the best frame.
LEMMA CompleteFacts ==
  ASSUME TypeOK, CompleteStep
  PROVE  /\ pc = "stepEnd" /\ stepBest # 0
         /\ UNCHANGED <<session.iterations, session.fsm>>
         /\ session'.result = [session.result EXCEPT ![step] = stepBest]
         /\ session'.best = BestAfterStep
         /\ working' = stepBest
         /\ pc' \in {"finish", "next"}
         /\ UNCHANGED <<idem, terminals, step, attempt, stepBest, kills>>
  BY DEF CompleteStep, TypeOK, Session

-----------------------------------------------------------------------------
\* The shape of the chain: steps are completed in order, the step being run is
\* the first that is not, the frame under check belongs to it, and nothing runs
\* once an outcome is stored.
ChainInv ==
    /\ \A s, t \in Steps : t < s /\ Completed(s) => Completed(t)
    /\ InStep => IsFirstPending(step)
    /\ pc = "check" => session.iterations[Len(session.iterations)].step = step
    /\ InStep \/ pc = "next" => session.fsm = "generating"
    /\ idem # "none" => pc = "idle"

\* A step that leaves the results and the state of the session alone and moves
\* neither into a step nor to its face check keeps the shape.
LEMMA SameChain ==
  ASSUME ChainInv, UNCHANGED <<session.result, session.fsm, step>>,
         InStep' => InStep, pc' # "check",
         pc' = "next" => InStep \/ pc = "next",
         idem' # "none" => pc' = "idle"
  PROVE  ChainInv'
<1>1. (\A s, t \in Steps : t < s /\ Completed(s) => Completed(t))'
  BY DEF ChainInv, Completed
<1>2. (InStep => IsFirstPending(step))'
  BY DEF ChainInv, IsFirstPending, Pending, Completed
<1>3. (InStep \/ pc = "next" => session.fsm = "generating")'
  BY DEF ChainInv
<1> QED
  BY <1>1, <1>2, <1>3 DEF ChainInv

\* The chain keeps its shape, whatever the run does and whenever it is killed.
LEMMA ChainInvariant == Spec => []ChainInv
<1>1. Init => ChainInv
  BY DEF Init, ChainInv, Completed, InStep
<1>2. TypeOK /\ KeptInv /\ ChainInv /\ [Next]_vars => ChainInv'
  <2> SUFFICES ASSUME TypeOK, KeptInv, ChainInv, [Next]_vars PROVE ChainInv'
    OBVIOUS
  <2>t. /\ Len(session.iterations) \in Nat
        /\ session.result \in [Steps -> Nat]
        /\ step \in Steps /\ Steps \subseteq Int
    BY RecordTypes DEF TypeOK, Steps
  <2>n. idem # "none" => pc = "idle"
    BY DEF ChainInv
  <2>1. CASE Start
    <3>1. /\ UNCHANGED session.result
          /\ session'.fsm = "generating"
          /\ pc' = "next" /\ idem' = "none"
      BY <2>1, StartFacts DEF Start
    <3> QED
      BY <3>1 DEF ChainInv, InStep, Completed
  <2>2. CASE StartWithoutReference
    BY <2>2, SameChain DEF StartWithoutReference, InStep
  <2>3. CASE BeginStep
    <3>1. /\ IsFirstPending(step')
          /\ pc' \in {"reserve", "write"} /\ pc = "next"
          /\ UNCHANGED <<session, idem>>
      BY <2>3 DEF BeginStep
    <3>2. session.fsm = "generating"
      BY <3>1 DEF ChainInv
    <3>3. IsFirstPending(step)'
      BY <3>1 DEF IsFirstPending, Pending, Completed
    <3> QED
      BY <3>1, <3>2, <3>3 DEF ChainInv, Completed
  <2>4. CASE AllStepsDone
    BY <2>4, <2>n, SameChain DEF AllStepsDone, InStep
  <2>5. CASE InnerMove
    BY <2>5, <2>n, SameChain DEF InnerMove, InStep, Before
  <2>6. CASE RecordIteration
    <3>1. InStep
      BY <2>6, RecordFacts DEF InStep
    <3>2. /\ UNCHANGED <<session.result, session.fsm, step, idem>>
          /\ pc = "paid" /\ pc' \in {"check", "reserve", "write", "stepEnd"}
      BY <2>6, RecordFacts
    <3>3. session'.iterations[Len(session'.iterations)].step = step'
      BY <2>6, <2>t, RecordFacts
    <3>4. IsFirstPending(step)'
      BY <3>1, <3>2 DEF ChainInv, IsFirstPending, Pending, Completed
    <3> QED
      BY <3>1, <3>2, <3>3, <3>4, <2>n DEF ChainInv, Completed
  <2>7. CASE FaceChecked
    <3>1. /\ UNCHANGED <<session.result, session.fsm, step, idem>>
          /\ pc = "check" /\ pc' \in {"reserve", "write", "stepEnd"}
      BY <2>7, CheckFacts
    <3> QED
      BY <3>1, <2>n, SameChain DEF InStep
  <2>8. CASE FaceCheckFails
    BY <2>8, <2>n, SameChain DEF FaceCheckFails, NextAttempt, InStep
  <2>9. CASE CompleteStep
    <3>1. /\ session'.result = [session.result EXCEPT ![step] = stepBest]
          /\ stepBest # 0
          /\ UNCHANGED <<session.fsm, idem>>
          /\ pc = "stepEnd" /\ pc' \in {"finish", "next"}
      BY <2>9, CompleteFacts
    <3>2. IsFirstPending(step) /\ session.fsm = "generating"
      BY <3>1 DEF ChainInv, InStep
    <3>3. ASSUME NEW s \in Steps, NEW t \in Steps, t < s, session'.result[s] # 0
          PROVE  session'.result[t] # 0
      BY <2>t, <3>1, <3>2, <3>3 DEF ChainInv, IsFirstPending, Pending, Completed
    <3> QED
      BY <3>1, <3>2, <3>3, <2>n DEF ChainInv, Completed, InStep
  <2>10. CASE StopChain
    BY <2>10, <2>n, SameChain DEF StopChain, InStep
  <2>11. CASE Finish
    <3>1. UNCHANGED session.result /\ pc = "finish" /\ pc' = "publish"
          /\ idem' = idem
      BY <2>11, FinishFacts DEF Finish
    <3> QED
      BY <3>1, <2>n DEF ChainInv, Completed, InStep
  <2>12. CASE PublishTerminal
    BY <2>12, <2>n, SameChain DEF PublishTerminal, InStep
  <2>13. CASE StoreOutcome
    BY <2>13, SameChain DEF StoreOutcome, InStep
  <2>14. CASE Kill
    <3>1. UNCHANGED session /\ pc' = "idle"
      BY <2>14 DEF Kill
    <3> QED
      BY <3>1 DEF ChainInv, Completed, InStep
  <2>15. CASE UNCHANGED vars
    BY <2>15 DEF vars, runVars, ChainInv, InStep, IsFirstPending, Pending, Completed
  <2> QED
    BY StepKinds, <2>1, <2>2, <2>3, <2>4, <2>5, <2>6, <2>7, <2>8, <2>9, <2>10,
       <2>11, <2>12, <2>13, <2>14, <2>15
<1> QED
  BY <1>1, <1>2, TypeCorrect, KeptInvariant, PTL DEF Spec

\* A step on record as completed is never generated again and keeps its result,
\* however often the chain is killed and entered again.
THEOREM FinalSteps == Spec => CompletedStepsAreFinal
<1> DEFINE Final == \A s \in Steps : Completed(s) =>
              /\ session'.result[s] = session.result[s]
              /\ \A i \in DOMAIN session'.iterations \ DOMAIN session.iterations :
                    session'.iterations[i].step # s
<1>1. TypeOK /\ KeptInv /\ ChainInv /\ [Next]_vars => [Final]_vars
  <2> SUFFICES ASSUME TypeOK, KeptInv, ChainInv, [Next]_vars PROVE [Final]_vars
    OBVIOUS
  <2>a. UNCHANGED <<session.iterations, session.result>> => Final
    BY DEF Completed
  <2>1. CASE StartWithoutReference \/ BeginStep \/ AllStepsDone \/ FaceCheckFails
             \/ StopChain \/ PublishTerminal \/ StoreOutcome \/ Kill
    <3>1. UNCHANGED session
      BY <2>1 DEF StartWithoutReference, BeginStep, AllStepsDone, FaceCheckFails,
         StopChain, PublishTerminal, StoreOutcome, Kill
    <3> QED
      BY <3>1, <2>a
  <2>2. CASE Start \/ InnerMove \/ Finish
    <3>1. UNCHANGED <<session.iterations, session.result>>
      BY <2>2, StartFacts, FinishFacts DEF InnerMove
    <3> QED
      BY <3>1, <2>a
  <2>3. CASE RecordIteration
    <3>1. IsFirstPending(step)
      BY <2>3, RecordFacts DEF ChainInv, InStep
    <3>2. DOMAIN session.iterations = 1..Len(session.iterations)
      BY RecordTypes
    <3>3. DOMAIN session'.iterations = 1..(Len(session.iterations) + 1)
      <4>1. session'.iterations = Append(session.iterations,
               [step |-> step, sim |-> Unchecked, on |-> working])
        BY <2>3 DEF RecordIteration, TypeOK, Session
      <4> QED
        BY <4>1, RecordTypes
    <3>4. \A i \in DOMAIN session'.iterations \ DOMAIN session.iterations :
             session'.iterations[i].step = step
      BY <2>3, <3>2, <3>3, RecordFacts, RecordTypes
    <3>5. UNCHANGED session.result
      BY <2>3, RecordFacts
    <3>6. \A s \in Steps : Completed(s) => s # step
      BY <3>1 DEF IsFirstPending, Pending
    <3> QED
      BY <3>4, <3>5, <3>6
  <2>4. CASE FaceChecked
    <3>1. PICK similarity \in Similarities :
             session' = [session EXCEPT
                           !.iterations[Len(session.iterations)].sim = similarity]
      BY <2>4 DEF FaceChecked
    <3>a. /\ UNCHANGED session.result
          /\ session'.iterations = [session.iterations EXCEPT
                                      ![Len(session.iterations)].sim = similarity]
      BY <3>1 DEF TypeOK, Session
    <3>2. DOMAIN session'.iterations = DOMAIN session.iterations
      BY <3>a
    <3> QED
      BY <3>a, <3>2
  <2>5. CASE CompleteStep
    <3>1. /\ UNCHANGED session.iterations
          /\ session'.result = [session.result EXCEPT ![step] = stepBest]
      BY <2>5, CompleteFacts
    <3>2. IsFirstPending(step)
      BY <2>5, CompleteFacts DEF ChainInv, InStep
    <3>3. \A s \in Steps : Completed(s) => s # step
      BY <3>2 DEF IsFirstPending, Pending
    <3> QED
      BY <3>1, <3>3, RecordTypes
  <2> QED
    BY StepKinds, <2>1, <2>2, <2>3, <2>4, <2>5
<1> QED
  BY <1>1, TypeCorrect, KeptInvariant, ChainInvariant, PTL
     DEF Spec, CompletedStepsAreFinal

-----------------------------------------------------------------------------
\* What the event says once it is published, and the state once it is stored;
\* a run publishes at most one terminal event, so a second one needs a kill.
Outcome == IF session.best # 0 THEN "result" ELSE "failed"

OutcomeInv ==
    /\ pc \in {"publish", "store"} \/ idem # "none" =>
          session.fsm = IF session.best # 0 THEN "done" ELSE "failed"
    /\ pc = "store" \/ idem # "none" =>
          /\ Len(terminals) > 0
          /\ terminals[Len(terminals)] = [type |-> Outcome, cost |-> session.cost]
    /\ idem # "none" => idem = Outcome
    /\ Len(terminals) <= kills + (IF pc = "store" \/ idem # "none" THEN 1 ELSE 0)

\* Up to the end of the chain no step touches the stream or the stored outcome.
LEMMA RunningStep ==
  ASSUME OutcomeInv, UNCHANGED <<idem, terminals, kills>>, idem = "none",
         pc # "store", pc' \notin {"publish", "store"}
  PROVE  OutcomeInv'
  BY DEF OutcomeInv

\* The outcome is written in one order, checkpoint, event, stored outcome, from
\* one value, and a kill at any of the three places leaves it consistent.
LEMMA OutcomeInvariant == Spec => []OutcomeInv
<1>1. Init => OutcomeInv
  BY DEF Init, OutcomeInv
<1>2. TypeOK /\ KeptInv /\ ChainInv /\ OutcomeInv /\ [Next]_vars => OutcomeInv'
  <2> SUFFICES ASSUME TypeOK, KeptInv, ChainInv, OutcomeInv, [Next]_vars
               PROVE  OutcomeInv'
    OBVIOUS
  <2>n. pc # "idle" => idem = "none"
    BY DEF ChainInv
  <2>t. /\ terminals \in Seq([type : {"result", "failed"}, cost : Nat])
        /\ Len(terminals) \in Nat /\ kills \in Nat
    BY DEF TypeOK
  <2>1. CASE Start \/ StartWithoutReference \/ BeginStep \/ AllStepsDone
    BY <2>1, <2>n, RunningStep DEF Start, StartWithoutReference, BeginStep,
       AllStepsDone
  <2>2. CASE InnerMove \/ RecordIteration
    <3>1. /\ pc \in Before \cup {"paid"}
          /\ pc' \notin {"publish", "store"}
          /\ UNCHANGED <<idem, terminals, kills>>
      BY <2>2, RecordFacts DEF InnerMove, Before
    <3> QED
      BY <3>1, <2>n, RunningStep DEF Before
  <2>3. CASE FaceChecked
    <3>1. /\ pc = "check" /\ pc' \notin {"publish", "store"}
          /\ UNCHANGED <<idem, terminals, kills>>
      BY <2>3, CheckFacts
    <3> QED
      BY <3>1, <2>n, RunningStep
  <2>4. CASE FaceCheckFails \/ CompleteStep \/ StopChain
    <3>1. /\ pc \in {"check", "stepEnd"} /\ pc' \notin {"publish", "store"}
          /\ UNCHANGED <<idem, terminals, kills>>
      BY <2>4 DEF FaceCheckFails, NextAttempt, CompleteStep, StopChain
    <3> QED
      BY <3>1, <2>n, RunningStep
  <2>5. CASE Finish
    <3>1. /\ pc = "finish" /\ pc' = "publish" /\ UNCHANGED <<idem, terminals, kills>>
          /\ session'.best = session.best
          /\ session'.fsm = IF session.best # 0 THEN "done" ELSE "failed"
      BY <2>5, FinishFacts DEF Finish
    <3> QED
      BY <3>1, <2>n DEF OutcomeInv
  <2>6. CASE PublishTerminal
    <3>1. /\ terminals' = Append(terminals, [type |-> Outcome, cost |-> session.cost])
          /\ pc = "publish" /\ pc' = "store" /\ UNCHANGED <<session, idem, kills>>
      BY <2>6 DEF PublishTerminal, Outcome
    <3>2. /\ Len(terminals') = Len(terminals) + 1
          /\ terminals'[Len(terminals')] = [type |-> Outcome, cost |-> session.cost]
      BY <2>t, <3>1
    <3>3. Outcome' = Outcome
      BY <3>1 DEF Outcome
    <3> QED
      BY <2>n, <2>t, <3>1, <3>2, <3>3 DEF OutcomeInv
  <2>7. CASE StoreOutcome
    <3>1. /\ idem' = Outcome /\ pc = "store" /\ pc' = "idle"
          /\ UNCHANGED <<session, terminals, kills>>
      BY <2>7 DEF StoreOutcome, Outcome
    <3>2. Outcome' = Outcome /\ Outcome # "none"
      BY <3>1 DEF Outcome
    <3> QED
      BY <3>1, <3>2 DEF OutcomeInv
  <2>8. CASE Kill
    <3>1. /\ idem = "none" /\ idem' = "none" /\ pc' = "idle"
          /\ kills' = kills + 1 /\ terminals' = terminals
      BY <2>8, <2>n DEF Kill
    <3> QED
      BY <2>t, <3>1 DEF OutcomeInv
  <2>9. CASE UNCHANGED vars
    BY <2>9 DEF vars, runVars, OutcomeInv, Outcome
  <2> QED
    BY StepKinds, <2>1, <2>2, <2>3, <2>4, <2>5, <2>6, <2>7, <2>8, <2>9
<1> QED
  BY <1>1, <1>2, TypeCorrect, KeptInvariant, ChainInvariant, PTL DEF Spec

\* The stored outcome, the last terminal event, the state of the session and the
\* accounting the event carries agree, for any history of kills.
THEOREM OutcomeAgreement == Spec => []OutcomeAgrees
<1>1. TypeOK /\ OutcomeInv => OutcomeAgrees
  <2> SUFFICES ASSUME TypeOK, OutcomeInv, idem # "none" PROVE OutcomeAgrees
    BY DEF OutcomeAgrees
  <2>1. idem = (IF session.fsm = "done" THEN "result" ELSE "failed")
    BY DEF OutcomeInv, Outcome
  <2>2. /\ Len(terminals) > 0
        /\ terminals[Len(terminals)] = [type |-> idem, cost |-> session.cost]
        /\ Len(terminals) <= 1 + kills
    BY DEF OutcomeInv, TypeOK
  <2>3. terminals # <<>>
    BY <2>2
  <2> QED
    BY <2>1, <2>2, <2>3 DEF OutcomeAgrees
<1> QED
  BY <1>1, TypeCorrect, OutcomeInvariant, PTL

-----------------------------------------------------------------------------
IsLast(s) == Completed(s) /\ \A t \in Steps : Completed(t) => t <= s

Regressed(s) == /\ IsEnhance(s) /\ s > 1
                /\ Sim(session.result[s - 1]) > Sim(session.result[s])

\* What is delivered, without CHOOSE: there is a last completed step as soon as
\* there is any, and the best frame is its result, or its predecessor's.
BestInv ==
    /\ (\E s \in Steps : Completed(s)) => \E s \in Steps : IsLast(s)
    /\ (\A s \in Steps : ~Completed(s)) => session.best = 0 /\ session.fsm # "done"
    /\ \A s \in Steps : IsLast(s) =>
          /\ session.fsm # "failed"
          /\ session.best # 0
          /\ session.best = session.result[IF Regressed(s) THEN s - 1 ELSE s]

\* A frame that was kept keeps its similarity: new frames go behind it, and the
\* one being checked was not kept.
SameSims == \A k : Deliverable(k) => k \in DOMAIN session'.iterations
                                     /\ session'.iterations[k] = session.iterations[k]

\* Steps that keep the results, the best frame and the kept similarities, and
\* leave the session unfinished or as it was, keep what is delivered.
LEMMA SameBest ==
  ASSUME TypeOK, KeptInv, ChainInv, BestInv, SameSims,
         UNCHANGED <<session.result, session.best>>,
         session'.fsm \in {session.fsm, "generating"}
  PROVE  BestInv'
<1>1. \A s \in Steps : Completed(s)' <=> Completed(s)
  BY DEF Completed
<1>2. \A s \in Steps : IsLast(s)' <=> IsLast(s)
  BY <1>1 DEF IsLast
<1>3. ASSUME NEW s \in Steps, IsLast(s) PROVE Regressed(s)' <=> Regressed(s)
  <2>1. CASE s > 1
    <3>1. s - 1 \in Steps /\ s - 1 < s
      BY <2>1, LoopAssumption DEF Steps
    <3>2. Completed(s) /\ Completed(s - 1)
      BY <1>3, <3>1 DEF IsLast, ChainInv
    <3>3. /\ Sim(session.result[s])' = Sim(session.result[s])
          /\ Sim(session.result[s - 1])' = Sim(session.result[s - 1])
      BY <3>1, <3>2 DEF KeptInv, KeptFramesDeliverable, SameSims, Sim
    <3> QED
      BY <3>3 DEF Regressed
  <2>2. CASE ~(s > 1)
    BY <2>2 DEF Regressed
  <2> QED
    BY <2>1, <2>2
<1>4. ASSUME NEW s \in Steps, IsLast(s)'
      PROVE  /\ session'.fsm # "failed" /\ session'.best # 0
             /\ session'.best = session'.result[IF Regressed(s)' THEN s - 1 ELSE s]
  BY <1>2, <1>3, <1>4 DEF BestInv
<1>5. (\E s \in Steps : Completed(s)') => \E s \in Steps : IsLast(s)'
  BY <1>1, <1>2 DEF BestInv
<1>6. (\A s \in Steps : ~Completed(s)') => session'.best = 0 /\ session'.fsm # "done"
  BY <1>1 DEF BestInv
<1> QED
  BY <1>4, <1>5, <1>6 DEF BestInv

\* The step being run is the next after the last completed one.
LEMMA NextOfLast ==
  ASSUME TypeOK, ChainInv, InStep
  PROVE  /\ step \in Steps /\ ~Completed(step)
         /\ \A t \in Steps : Completed(t) <=> t < step
         /\ step > 1 => step - 1 \in Steps /\ IsLast(step - 1)
<1>1. step \in Steps /\ IsFirstPending(step)
  BY DEF TypeOK, ChainInv
<1>2. Steps \subseteq Int /\ step \in Int
  BY <1>1 DEF Steps
<1>3. \A t \in Steps : Completed(t) <=> t < step
  BY <1>1, <1>2 DEF ChainInv, IsFirstPending, Pending
<1>4. ASSUME step > 1 PROVE step - 1 \in Steps /\ IsLast(step - 1)
  <2>1. step - 1 \in Steps
    BY <1>1, <1>4, LoopAssumption DEF Steps
  <2> QED
    BY <1>2, <1>3, <2>1 DEF IsLast
<1> QED
  BY <1>1, <1>3, <1>4 DEF IsFirstPending, Pending

\* What is delivered follows the chain.
LEMMA BestInvariant == Spec => []BestInv
<1>1. Init => BestInv
  BY DEF Init, BestInv, Completed, IsLast
<1>2. TypeOK /\ KeptInv /\ ChainInv /\ BestInv /\ [Next]_vars => BestInv'
  <2> SUFFICES ASSUME TypeOK, KeptInv, ChainInv, BestInv, [Next]_vars
               PROVE  BestInv'
    OBVIOUS
  <2>t. /\ session.iterations \in Seq(Iteration)
        /\ Len(session.iterations) \in Nat
        /\ DOMAIN session.iterations = 1..Len(session.iterations)
        /\ session.result \in [Steps -> Nat]
    BY RecordTypes
  <2>s. UNCHANGED session.iterations => SameSims
    BY <2>t DEF SameSims, Deliverable
  <2>1. CASE StartWithoutReference \/ BeginStep \/ AllStepsDone \/ FaceCheckFails
             \/ StopChain \/ PublishTerminal \/ StoreOutcome \/ Kill
    <3>1. UNCHANGED session
      BY <2>1 DEF StartWithoutReference, BeginStep, AllStepsDone, FaceCheckFails,
         StopChain, PublishTerminal, StoreOutcome, Kill
    <3> QED
      BY <3>1, <2>s, SameBest
  <2>2. CASE Start
    BY <2>2, <2>s, StartFacts, SameBest
  <2>3. CASE InnerMove
    BY <2>3, <2>s, SameBest DEF InnerMove
  <2>4. CASE RecordIteration
    <3>1. session'.iterations = Append(session.iterations,
             [step |-> step, sim |-> Unchecked, on |-> working])
      BY <2>4 DEF RecordIteration, TypeOK, Session
    <3>2. DOMAIN session'.iterations = 1..(Len(session.iterations) + 1)
      BY <2>t, <3>1
    <3>3. SameSims
      BY <2>t, <2>4, <3>2, RecordFacts DEF SameSims, Deliverable
    <3> QED
      BY <2>4, <3>3, RecordFacts, SameBest
  <2>5. CASE FaceChecked
    <3> DEFINE m == Len(session.iterations)
    <3>1. /\ UNCHANGED <<session.result, session.best, session.fsm>>
          /\ \A k \in 1..m : k # m => session'.iterations[k] = session.iterations[k]
          /\ Sim(m) = Unchecked
      BY <2>5, CheckFacts
    <3>2. PICK similarity \in Similarities :
             session' = [session EXCEPT !.iterations[m].sim = similarity]
      BY <2>5 DEF FaceChecked
    <3>3. session'.iterations = [session.iterations EXCEPT ![m].sim = similarity]
      BY <3>2 DEF TypeOK, Session
    <3>4. DOMAIN session'.iterations = 1..m
      BY <2>t, <3>3
    <3>5. ~Deliverable(m)
      BY <3>1, LoopAssumption DEF Deliverable, Unchecked
    <3>6. SameSims
      BY <3>1, <3>4, <3>5 DEF SameSims, Deliverable
    <3> QED
      BY <3>1, <3>6, SameBest
  <2>6. CASE CompleteStep
    <3>1. /\ session'.result = [session.result EXCEPT ![step] = stepBest]
          /\ session'.best = BestAfterStep
          /\ UNCHANGED <<session.iterations, session.fsm>>
          /\ stepBest # 0 /\ InStep
      BY <2>6, CompleteFacts DEF InStep
    <3>2. /\ step \in Steps
          /\ \A t \in Steps : Completed(t) <=> t < step
          /\ step > 1 => step - 1 \in Steps /\ IsLast(step - 1)
      BY <3>1, NextOfLast
    <3>3. Steps \subseteq Int /\ step \in Int
      BY <3>2 DEF Steps
    <3>4. \A t \in Steps : Completed(t)' <=> t <= step
      BY <2>t, <3>1, <3>2, <3>3 DEF Completed
    <3>5. \A s \in Steps : IsLast(s)' <=> s = step
      BY <3>2, <3>3, <3>4 DEF IsLast
    <3>6. session'.fsm # "failed" /\ session.fsm = "generating"
      BY <3>1 DEF ChainInv
    <3>7. session'.result[step] = stepBest
          /\ (step > 1 => session'.result[step - 1] = session.result[step - 1])
      BY <2>t, <3>1, <3>2, <3>3
    <3>8. session'.best # 0
          /\ session'.best = session'.result[IF Regressed(step)' THEN step - 1 ELSE step]
      <4>1. CASE step > 1
        <5>1. /\ session.best # 0
              /\ session.best = session.result[IF Regressed(step - 1)
                                               THEN step - 2 ELSE step - 1]
          BY <4>1, <3>2, <3>3 DEF BestInv
        <5>2. ~IsEnhance(step - 1)
          BY <3>2, <3>3, LoopAssumption DEF IsEnhance, Steps
        <5>3. session.best = session.result[step - 1]
          BY <5>1, <5>2 DEF Regressed
        <5>4. Regressed(step)' <=> IsEnhance(step) /\ Sim(session.best) > Sim(stepBest)
          BY <2>6, <4>1, <5>3, <3>1, <3>7 DEF CompleteStep, Regressed, Sim, IsEnhance
        <5>5. IsEnhance(step) => /\ Sim(session.best) \in Int
                                 /\ Sim(stepBest) \in Int
          BY <3>1, <5>1, RecordTypes DEF KeptInv, KeptFramesDeliverable, Deliverable
        <5> QED
          BY <3>1, <3>7, <4>1, <5>1, <5>3, <5>4, <5>5 DEF BestAfterStep
      <4>2. CASE step = 1
        <5>1. session.best = 0
          BY <4>2, <3>2 DEF BestInv, Steps
        <5>2. ~Regressed(step)'
          BY <2>6, <4>2 DEF CompleteStep, Regressed
        <5> QED
          BY <5>1, <5>2, <3>1, <3>7 DEF BestAfterStep
      <4> QED
        BY <4>1, <4>2, <3>2 DEF Steps
    <3>9. ASSUME NEW s \in Steps, IsLast(s)'
          PROVE  /\ session'.fsm # "failed" /\ session'.best # 0
                 /\ session'.best = session'.result[IF Regressed(s)' THEN s - 1 ELSE s]
      <4>1. s = step /\ step' = step
        BY <3>5, <3>9, <2>6, CompleteFacts
      <4> QED
        BY <4>1, <3>6, <3>8
    <3>10. step \in Steps /\ Completed(step)' /\ IsLast(step)'
      <4>1. step' = step
        BY <2>6, CompleteFacts
      <4> QED
        BY <4>1, <3>2, <3>3, <3>4, <3>5
    <3>11. \E s \in Steps : Completed(s)' /\ IsLast(s)'
      <4>1. step' = step
        BY <2>6, CompleteFacts
      <4> QED
        BY <3>10, <4>1
    <3> QED
      BY <3>9, <3>11 DEF BestInv
  <2>7. CASE Finish
    <3>1. /\ UNCHANGED <<session.iterations, session.result, session.best>>
          /\ session'.fsm = IF session.best # 0 THEN "done" ELSE "failed"
      BY <2>7, FinishFacts
    <3>2. \A s \in Steps : /\ Completed(s)' <=> Completed(s)
                           /\ IsLast(s)' <=> IsLast(s)
                           /\ Regressed(s)' <=> Regressed(s)
      BY <3>1 DEF Completed, IsLast, Regressed, Sim
    <3> QED
      BY <3>1, <3>2 DEF BestInv
  <2>8. CASE UNCHANGED vars
    <3>1. UNCHANGED session
      BY <2>8 DEF vars
    <3> QED
      BY <3>1, <2>s, SameBest
  <2> QED
    BY StepKinds, <2>1, <2>2, <2>3, <2>4, <2>5, <2>6, <2>7, <2>8
<1> QED
  BY <1>1, <1>2, TypeCorrect, KeptInvariant, ChainInvariant, PTL DEF Spec

\* The delivered frame is the last completed step's, unless that is an enhance
\* step that came out worse; the chain fails only when it completed no step.
THEOREM DeliversLast == Spec => []DeliversLastCompletedStep
<1>1. TypeOK /\ BestInv => DeliversLastCompletedStep
  <2> SUFFICES ASSUME TypeOK, BestInv PROVE DeliversLastCompletedStep
    OBVIOUS
  <2> DEFINE last == CHOOSE s \in Steps : /\ Completed(s)
                                          /\ \A t \in Steps : Completed(t) => t <= s
  <2>1. CASE \E s \in Steps : Completed(s)
    <3>1. last \in Steps /\ IsLast(last)
      BY <2>1 DEF BestInv, IsLast
    <3> HIDE DEF last
    <3>2. /\ session.fsm # "failed"
          /\ session.best = session.result[IF Regressed(last) THEN last - 1 ELSE last]
      BY <3>1 DEF BestInv
    <3> USE DEF last
    <3> QED
      BY <2>1, <3>2 DEF DeliversLastCompletedStep, Regressed
  <2>2. CASE \A s \in Steps : ~Completed(s)
    BY <2>2 DEF BestInv, DeliversLastCompletedStep
  <2> QED
    BY <2>1, <2>2
<1> QED
  BY <1>1, TypeCorrect, BestInvariant, PTL

-----------------------------------------------------------------------------
\* The iterations on record for a step, and how many of them the run that is
\* under way may have made.
Of(s) == {i \in 1..Len(session.iterations) : session.iterations[i].step = s}

Here(s) ==
    CASE pc \in {"finish", "publish", "store"} \/ idem # "none" -> MaxAttempts
      [] pc = "idle" /\ idem = "none" -> 0
      [] OTHER -> IF Completed(s) THEN MaxAttempts
                  ELSE IF ~InStep \/ s # step THEN 0
                  ELSE IF pc = "stepEnd" THEN MaxAttempts
                  ELSE IF pc = "check" THEN attempt ELSE attempt - 1

AttemptInv ==
    \A s \in Steps : /\ IsFiniteSet(Of(s))
                     /\ Cardinality(Of(s)) <= MaxAttempts * kills + Here(s)

\* A run makes at most MaxAttempts iterations of a step.
LEMMA HereBounded ==
  ASSUME TypeOK, NEW s \in Steps
  PROVE  Here(s) \in 0..MaxAttempts
  BY AttemptsPositive DEF TypeOK, Here, InStep

\* The same after a step.
LEMMA HereBoundedNext ==
  ASSUME TypeOK', NEW s \in Steps
  PROVE  Here(s)' \in 0..MaxAttempts
  BY AttemptsPositive DEF TypeOK, Here, InStep

\* What earlier runs of the chain were allowed.
LEMMA EarlierType ==
  ASSUME TypeOK
  PROVE  MaxAttempts * kills \in Nat
  BY AttemptsPositive DEF TypeOK

\* Steps that record nothing and are not kills only raise the allowance.
LEMMA NothingRecorded ==
  ASSUME TypeOK, TypeOK', AttemptInv, UNCHANGED <<session.iterations, kills>>,
         \A s \in Steps : Here(s) <= Here(s)'
  PROVE  AttemptInv'
<1> SUFFICES ASSUME NEW s \in Steps
             PROVE  /\ IsFiniteSet(Of(s))'
                    /\ Cardinality(Of(s))' <= MaxAttempts * kills' + Here(s)'
  BY DEF AttemptInv
<1>1. Of(s)' = Of(s)
  BY DEF Of
<1>2. IsFiniteSet(Of(s)) /\ Cardinality(Of(s)) <= MaxAttempts * kills + Here(s)
  BY DEF AttemptInv
<1>3. Cardinality(Of(s)) \in Nat
  BY <1>2, FS_CardinalityType
<1>4. Here(s) \in Int /\ Here(s)' \in Int
  BY HereBounded, HereBoundedNext, AttemptsPositive
<1>5. MaxAttempts * kills \in Nat
  BY EarlierType
<1>6. MaxAttempts * kills' = MaxAttempts * kills
  OBVIOUS
<1> HIDE DEF MaxAttempts
<1>7. Here(s) <= Here(s)'
  OBVIOUS
<1> QED
  BY <1>1, <1>2, <1>3, <1>4, <1>5, <1>6, <1>7

\* The iterations of a step never outnumber the attempts of the runs so far.
LEMMA AttemptInvariant == Spec => []AttemptInv
<1>1. Init => AttemptInv
  <2> SUFFICES ASSUME Init, NEW s \in Steps
               PROVE  /\ IsFiniteSet(Of(s))
                      /\ Cardinality(Of(s)) <= MaxAttempts * kills + Here(s)
    BY DEF AttemptInv
  <2>1. Of(s) = {}
    BY DEF Init, Of
  <2>2. Here(s) = 0 /\ kills = 0
    BY DEF Init, Here
  <2>3. MaxAttempts * 0 = 0
    BY AttemptsPositive
  <2> QED
    BY <2>1, <2>2, <2>3, FS_EmptySet
<1>2. /\ TypeOK /\ TypeOK' /\ KeptInv /\ ChainInv /\ AttemptInv /\ [Next]_vars
      => AttemptInv'
  <2> SUFFICES ASSUME TypeOK, TypeOK', KeptInv, ChainInv, AttemptInv, [Next]_vars
               PROVE  AttemptInv'
    OBVIOUS
  <2>n. pc # "idle" => idem = "none"
    BY DEF ChainInv
  <2>t. /\ MaxAttempts \in Nat \ {0} /\ attempt \in 1..MaxAttempts
        /\ attempt' \in 1..MaxAttempts
    BY AttemptsPositive DEF TypeOK
  <2>1. CASE Start
    <3>1. /\ UNCHANGED <<session.iterations, kills>>
          /\ pc = "idle" /\ idem = "none" /\ idem' = idem
          /\ pc' = "next"
      BY <2>1, StartFacts DEF Start
    <3>2. \A s \in Steps : Here(s) <= Here(s)'
      BY <2>t, <3>1 DEF Here, InStep
    <3> QED
      BY <3>1, <3>2, NothingRecorded
  <2>2. CASE StartWithoutReference \/ AllStepsDone \/ StopChain \/ PublishTerminal
    <3>1. /\ UNCHANGED <<session, kills, idem>>
          /\ pc' \in {"finish", "store"}
      BY <2>2 DEF StartWithoutReference, AllStepsDone, StopChain, PublishTerminal
    <3>2. \A s \in Steps : Here(s)' = MaxAttempts
      BY <3>1 DEF Here
    <3> QED
      BY <2>t, <3>1, <3>2, HereBounded, NothingRecorded
  <2>3. CASE BeginStep
    <3>1. /\ UNCHANGED <<session, kills, idem>> /\ attempt' = 1
          /\ pc = "next" /\ pc' \in {"reserve", "write"}
      BY <2>3 DEF BeginStep
    <3>2. \A s \in Steps : Here(s) <= Here(s)'
      BY <2>n, <2>t, <3>1 DEF Here, InStep, Completed
    <3> QED
      BY <3>1, <3>2, NothingRecorded
  <2>4. CASE InnerMove
    <3>1. /\ UNCHANGED <<session.iterations, session.result, kills, idem, step, attempt>>
          /\ pc \in Before /\ pc' \in Before \cup {"paid", "stepEnd"}
      BY <2>4 DEF InnerMove
    <3>2. \A s \in Steps : Here(s) <= Here(s)'
      BY <2>n, <2>t, <3>1 DEF Here, InStep, Completed, Before
    <3> QED
      BY <3>1, <3>2, NothingRecorded
  <2>5. CASE RecordIteration
    <3> DEFINE m == Len(session.iterations)
    <3>1. /\ pc = "paid" /\ idem = "none"
          /\ UNCHANGED <<session.result, idem, step, kills>>
          /\ Len(session'.iterations) = m + 1 /\ m \in Nat
          /\ \A k \in 1..m : session'.iterations[k] = session.iterations[k]
          /\ session'.iterations[m + 1].step = step
      BY <2>5, <2>n, RecordFacts, RecordTypes
    <3>2. \/ pc' = "check" /\ attempt' = attempt
          \/ pc' \in {"reserve", "write"} /\ attempt' = attempt + 1
          \/ pc' = "stepEnd" /\ attempt' = attempt
      BY <2>5, RecordFacts
    <3>3. ~Completed(step)
      BY <3>1, NextOfLast DEF InStep
    <3> SUFFICES ASSUME NEW s \in Steps
                 PROVE  /\ IsFiniteSet(Of(s))'
                        /\ Cardinality(Of(s))' <= MaxAttempts * kills' + Here(s)'
      BY DEF AttemptInv
    <3>4. IsFiniteSet(Of(s)) /\ Cardinality(Of(s)) <= MaxAttempts * kills + Here(s)
      BY DEF AttemptInv
    <3>5. Cardinality(Of(s)) \in Nat /\ Here(s) \in Int /\ Here(s)' \in Int
      BY <3>4, <2>t, FS_CardinalityType, HereBounded, HereBoundedNext
    <3>6. MaxAttempts * kills \in Nat /\ MaxAttempts * kills' = MaxAttempts * kills
      BY <3>1, EarlierType
    <3>7. CASE s = step
      <4>1. Of(s)' = Of(s) \cup {m + 1}
        BY <3>1, <3>7 DEF Of
      <4>2. m + 1 \notin Of(s)
        BY <3>1 DEF Of
      <4>3. /\ IsFiniteSet(Of(s) \cup {m + 1})
            /\ Cardinality(Of(s) \cup {m + 1}) = Cardinality(Of(s)) + 1
        BY <3>4, <4>2, FS_AddElement
      <4>4. Here(s) = attempt - 1
        BY <3>1, <3>3, <3>7 DEF Here, InStep
      <4>5. attempt <= Here(s)'
        BY <2>t, <3>1, <3>2, <3>3, <3>7 DEF Here, InStep, Completed
      <4> HIDE DEF MaxAttempts
      <4> QED
        BY <2>t, <3>4, <3>5, <3>6, <4>1, <4>3, <4>4, <4>5
    <3>8. CASE s # step
      <4>1. Of(s)' = Of(s)
        BY <3>1, <3>8 DEF Of
      <4>2. Here(s) <= Here(s)'
        BY <2>t, <3>1, <3>2, <3>8 DEF Here, InStep, Completed
      <4> HIDE DEF MaxAttempts
      <4> QED
        BY <3>4, <3>5, <3>6, <4>1, <4>2
    <3> QED
      BY <3>7, <3>8
  <2>6. CASE FaceChecked
    <3> DEFINE m == Len(session.iterations)
    <3>1. /\ pc = "check" /\ idem = "none"
          /\ UNCHANGED <<session.result, idem, step, kills>>
          /\ Len(session'.iterations) = m /\ m \in Nat /\ m > 0
          /\ \A k \in 1..m : k # m => session'.iterations[k] = session.iterations[k]
          /\ session'.iterations[m].step = session.iterations[m].step
          /\ \/ pc' \in {"reserve", "write"} /\ attempt' = attempt + 1
             \/ pc' = "stepEnd" /\ attempt' = attempt
      BY <2>6, <2>n, CheckFacts
    <3> SUFFICES ASSUME NEW s \in Steps
                 PROVE  /\ IsFiniteSet(Of(s))'
                        /\ Cardinality(Of(s))' <= MaxAttempts * kills' + Here(s)'
      BY DEF AttemptInv
    <3>2. Of(s)' = Of(s)
      BY <3>1 DEF Of
    <3>3. Here(s) <= Here(s)'
      BY <2>t, <3>1 DEF Here, InStep, Completed
    <3>4. IsFiniteSet(Of(s)) /\ Cardinality(Of(s)) <= MaxAttempts * kills + Here(s)
      BY DEF AttemptInv
    <3>5. Cardinality(Of(s)) \in Nat /\ Here(s) \in Int /\ Here(s)' \in Int
      BY <3>4, <2>t, FS_CardinalityType, HereBounded, HereBoundedNext
    <3>6. MaxAttempts * kills \in Nat /\ MaxAttempts * kills' = MaxAttempts * kills
      BY <3>1, EarlierType
    <3> HIDE DEF MaxAttempts
    <3> QED
      BY <3>2, <3>3, <3>4, <3>5, <3>6
  <2>7. CASE FaceCheckFails
    <3>1. /\ UNCHANGED <<session, kills, idem, step>> /\ pc = "check"
          /\ \/ pc' \in {"reserve", "write"} /\ attempt' = attempt + 1
             \/ pc' = "stepEnd" /\ attempt' = attempt
      BY <2>7 DEF FaceCheckFails, NextAttempt
    <3>2. \A s \in Steps : Here(s) <= Here(s)'
      BY <2>n, <2>t, <3>1 DEF Here, InStep, Completed
    <3> QED
      BY <3>1, <3>2, NothingRecorded
  <2>8. CASE CompleteStep
    <3>1. /\ session'.result = [session.result EXCEPT ![step] = stepBest]
          /\ stepBest # 0 /\ session.result \in [Steps -> Nat]
          /\ UNCHANGED <<session.iterations, idem, step, kills>>
          /\ pc = "stepEnd" /\ pc' \in {"finish", "next"}
      BY <2>8, CompleteFacts, RecordTypes
    <3>2. \A s \in Steps : s # step => (Completed(s)' <=> Completed(s))
      BY <3>1 DEF Completed
    <3>3. session'.result[step] # 0
      BY <3>1 DEF TypeOK
    <3>4. \A s \in Steps : Here(s) <= Here(s)'
      BY <2>n, <2>t, <3>1, <3>2, <3>3 DEF Here, InStep, Completed
    <3> QED
      BY <3>1, <3>4, NothingRecorded
  <2>9. CASE Finish
    <3>1. UNCHANGED <<session.iterations, kills>> /\ pc' = "publish"
      BY <2>9, FinishFacts DEF Finish
    <3>2. \A s \in Steps : Here(s)' = MaxAttempts
      BY <3>1 DEF Here
    <3> QED
      BY <2>t, <3>1, <3>2, HereBounded, NothingRecorded
  <2>10. CASE StoreOutcome
    <3>1. UNCHANGED <<session, kills>> /\ idem' # "none"
      BY <2>10 DEF StoreOutcome
    <3>2. \A s \in Steps : Here(s)' = MaxAttempts
      BY <3>1 DEF Here
    <3> QED
      BY <2>t, <3>1, <3>2, HereBounded, NothingRecorded
  <2>11. CASE Kill
    <3>1. /\ UNCHANGED session /\ kills' = kills + 1 /\ kills \in Nat
          /\ pc' = "idle" /\ idem' = "none"
      BY <2>11, <2>n DEF Kill, TypeOK
    <3> SUFFICES ASSUME NEW s \in Steps
                 PROVE  /\ IsFiniteSet(Of(s))'
                        /\ Cardinality(Of(s))' <= MaxAttempts * kills' + Here(s)'
      BY DEF AttemptInv
    <3>2. Of(s)' = Of(s) /\ Here(s)' = 0
      BY <3>1 DEF Of, Here
    <3>3. IsFiniteSet(Of(s)) /\ Cardinality(Of(s)) <= MaxAttempts * kills + Here(s)
      BY DEF AttemptInv
    <3>4. Cardinality(Of(s)) \in Nat /\ Here(s) \in 0..MaxAttempts
      BY <3>3, FS_CardinalityType, HereBounded
    <3> HIDE DEF MaxAttempts
    <3>5. /\ MaxAttempts * kills \in Nat
          /\ MaxAttempts * kills' = MaxAttempts * kills + MaxAttempts
      BY <2>t, <3>1
    <3> QED
      BY <2>t, <3>2, <3>3, <3>4, <3>5
  <2>12. CASE UNCHANGED vars
    <3>1. UNCHANGED <<session, idem, pc, step, attempt, kills>>
      BY <2>12 DEF vars, runVars
    <3>2. \A s \in Steps : Here(s)' = Here(s)
      BY <3>1 DEF Here, InStep, Completed
    <3>3. \A s \in Steps : Here(s) <= Here(s)'
      BY <3>2, HereBounded
    <3> QED
      BY <3>1, <3>3, NothingRecorded
  <2> QED
    BY StepKinds, <2>1, <2>2, <2>3, <2>4, <2>5, <2>6, <2>7, <2>8, <2>9, <2>10,
       <2>11, <2>12
<1> QED
  BY <1>1, <1>2, TypeCorrect, KeptInvariant, ChainInvariant, PTL DEF Spec

\* A step takes at most MaxAttempts iterations each time the chain is entered,
\* over all kills: neither a refusal nor a failed check is retried for free.
THEOREM BoundedAttempts == Spec => []AttemptsBounded
<1>1. TypeOK /\ AttemptInv => AttemptsBounded
  <2> SUFFICES ASSUME TypeOK, AttemptInv, NEW s \in Steps
               PROVE  Cardinality(Of(s)) <= MaxAttempts * (kills + 1)
    BY DEF AttemptsBounded, Of
  <2>1. IsFiniteSet(Of(s)) /\ Cardinality(Of(s)) <= MaxAttempts * kills + Here(s)
    BY DEF AttemptInv
  <2>2. Cardinality(Of(s)) \in Nat /\ Here(s) \in 0..MaxAttempts
    BY <2>1, FS_CardinalityType, HereBounded
  <2>3. MaxAttempts \in Nat /\ kills \in Nat
    BY AttemptsPositive DEF TypeOK
  <2> HIDE DEF MaxAttempts
  <2>4. /\ MaxAttempts * kills \in Nat
        /\ MaxAttempts * (kills + 1) = MaxAttempts * kills + MaxAttempts
    BY <2>3
  <2> QED
    BY <2>1, <2>2, <2>3, <2>4
<1> QED
  BY <1>1, TypeCorrect, AttemptInvariant, PTL

-----------------------------------------------------------------------------
(***************************************************************************)
(* Until the first kill.  A killed run leaves frames of the step it was    *)
(* in, which the next run does not compare with its own, and the next run  *)
(* starts again from the photo: the two properties below are claims about  *)
(* chains that were not killed, and `kills = 0' says so.                   *)
(***************************************************************************)
FreshStart == pc = "idle" /\ idem = "none" => session.iterations = <<>>

\* Every frame of a completed step is no better than its result.
StepsKeptBest ==
    \A s \in Steps : Completed(s) =>
        /\ session.result[s] \in Of(s)
        /\ \A i \in Of(s) : Sim(i) <= Sim(session.result[s])

\* No frame was paid for a step the chain has not come to.
NoStrays ==
    pc = "next" \/ InStep =>
        \A s \in Steps : ~Completed(s) /\ (InStep => s # step) => Of(s) = {}

\* The frames of the step being run were made from the working image, and none
\* is better than the one kept.
StepFrames ==
    InStep =>
        /\ stepBest # 0 => stepBest \in Of(step)
        /\ \A i \in Of(step) :
              /\ session.iterations[i].on = working
              /\ IF stepBest = 0 THEN Sim(i) < Floor ELSE Sim(i) <= Sim(stepBest)
        /\ step > 1 => working = session.result[step - 1]

WorkingIsLast ==
    pc = "next" => \A s \in Steps : IsLast(s) => working = session.result[s]

UnkilledInv ==
    kills = 0 => /\ FreshStart
                 /\ StepsKeptBest
                 /\ NoStrays
                 /\ StepFrames
                 /\ WorkingIsLast

\* What the parts say depends on the frames and the results alone.
LEMMA SameFrames ==
  ASSUME UNCHANGED <<session.iterations, session.result>>
  PROVE  /\ StepsKeptBest => StepsKeptBest'
         /\ \A s \in Steps : /\ Of(s)' = Of(s)
                             /\ Completed(s)' <=> Completed(s)
                             /\ IsLast(s)' <=> IsLast(s)
<1>1. \A s \in Steps : Of(s)' = Of(s)
  BY DEF Of
<1>2. \A s \in Steps : Completed(s)' <=> Completed(s)
  BY DEF Completed
<1>3. \A s \in Steps : IsLast(s)' <=> IsLast(s)
  BY <1>2 DEF IsLast
<1>4. StepsKeptBest => StepsKeptBest'
  BY <1>1, <1>2 DEF StepsKeptBest, Sim
<1> QED
  BY <1>1, <1>2, <1>3, <1>4

\* Moves inside a step that record nothing.
LEMMA InsideStep ==
  ASSUME UnkilledInv, UNCHANGED <<session.iterations, session.result, step,
                                  stepBest, working, kills>>,
         InStep, InStep'
  PROVE  UnkilledInv'
<1> SUFFICES ASSUME kills = 0
             PROVE  /\ FreshStart' /\ StepsKeptBest' /\ NoStrays'
                    /\ StepFrames' /\ WorkingIsLast'
  BY DEF UnkilledInv
<1>1. FreshStart' /\ WorkingIsLast'
  BY DEF FreshStart, WorkingIsLast, InStep
<1>2. StepsKeptBest'
  BY SameFrames DEF UnkilledInv
<1>3. NoStrays'
  BY SameFrames DEF UnkilledInv, NoStrays
<1>4. StepFrames'
  <2>1. Of(step)' = Of(step)
    BY DEF Of
  <2> QED
    BY <2>1 DEF UnkilledInv, StepFrames, Sim
<1> QED
  BY <1>1, <1>2, <1>3, <1>4

\* Moves that end with no step under way.
LEMMA OutsideStep ==
  ASSUME UnkilledInv, UNCHANGED <<session.iterations, session.result, kills>>,
         ~InStep', pc' # "next", pc' # "idle" \/ idem' # "none"
  PROVE  UnkilledInv'
<1> SUFFICES ASSUME kills = 0
             PROVE  /\ FreshStart' /\ StepsKeptBest' /\ NoStrays'
                    /\ StepFrames' /\ WorkingIsLast'
  BY DEF UnkilledInv
<1>1. FreshStart' /\ WorkingIsLast' /\ NoStrays' /\ StepFrames'
  BY DEF FreshStart, WorkingIsLast, NoStrays, StepFrames
<1>2. StepsKeptBest'
  BY SameFrames DEF UnkilledInv
<1> QED
  BY <1>1, <1>2

\* Until the first kill every step keeps its best frame and chains on.
LEMMA UnkilledInvariant == Spec => []UnkilledInv
<1>1. Init => UnkilledInv
  BY DEF Init, UnkilledInv, FreshStart, StepsKeptBest, NoStrays, StepFrames,
     WorkingIsLast, Completed, InStep
<1>2. TypeOK /\ KeptInv /\ ChainInv /\ UnkilledInv /\ [Next]_vars => UnkilledInv'
  <2> SUFFICES ASSUME TypeOK, KeptInv, ChainInv, UnkilledInv, [Next]_vars
               PROVE  UnkilledInv'
    OBVIOUS
  <2>n. pc # "idle" => idem = "none"
    BY DEF ChainInv
  <2>t. /\ session.result \in [Steps -> Nat]
        /\ Len(session.iterations) \in Nat
        /\ \A k \in 1..Len(session.iterations) : Sim(k) \in Int
        /\ Floor \in Int /\ Floor > 0
    BY RecordTypes, LoopAssumption
  <2>d. stepBest # 0 => stepBest \in 1..Len(session.iterations) /\ Sim(stepBest) >= Floor
    BY DEF KeptInv, KeptFramesDeliverable, Deliverable
  <2>1. CASE Start
    <3>1. /\ UNCHANGED <<session.iterations, session.result, kills>>
          /\ pc = "idle" /\ idem = "none" /\ pc' = "next"
      BY <2>1, StartFacts DEF Start
    <3> SUFFICES ASSUME kills = 0
                 PROVE  /\ FreshStart' /\ StepsKeptBest' /\ NoStrays'
                        /\ StepFrames' /\ WorkingIsLast'
      BY <3>1 DEF UnkilledInv
    <3>2. session.iterations = <<>>
      BY <3>1 DEF UnkilledInv, FreshStart
    <3>3. \A s \in Steps : Of(s) = {}
      BY <3>2 DEF Of
    <3>4. \A s \in Steps : ~Completed(s)
      BY <3>3 DEF UnkilledInv, StepsKeptBest
    <3>5. \A s \in Steps : Of(s)' = {} /\ ~Completed(s)'
      BY <3>1, <3>3, <3>4, SameFrames
    <3>6. \A s \in Steps : ~IsLast(s)'
      BY <3>5 DEF IsLast
    <3> QED
      BY <3>1, <3>5, <3>6 DEF FreshStart, StepsKeptBest, NoStrays, StepFrames,
         WorkingIsLast, InStep
  <2>2. CASE StartWithoutReference \/ AllStepsDone \/ StopChain \/ PublishTerminal
    <3>1. /\ UNCHANGED <<session, kills>> /\ pc' \in {"finish", "store"}
      BY <2>2 DEF StartWithoutReference, AllStepsDone, StopChain, PublishTerminal
    <3> QED
      BY <3>1, OutsideStep DEF InStep
  <2>3. CASE BeginStep
    <3>1. /\ UNCHANGED <<session, kills, working>> /\ stepBest' = 0
          /\ pc = "next" /\ pc' \in {"reserve", "write"}
          /\ step' \in Steps /\ IsFirstPending(step')
      BY <2>3 DEF BeginStep
    <3> SUFFICES ASSUME kills = 0
                 PROVE  /\ FreshStart' /\ StepsKeptBest' /\ NoStrays'
                        /\ StepFrames' /\ WorkingIsLast'
      BY <3>1 DEF UnkilledInv
    <3>2. \A s \in Steps : ~Completed(s) => Of(s) = {}
      BY <3>1 DEF UnkilledInv, NoStrays, InStep
    <3>3. Of(step)' = {}
      BY <3>1, <3>2 DEF Of, IsFirstPending, Pending
    <3>4. ASSUME NEW n \in Steps, IsFirstPending(n), n > 1
          PROVE  working = session.result[n - 1]
      <4>1. n - 1 \in Steps /\ Steps \subseteq Int /\ n \in Int
        BY <3>4, LoopAssumption DEF Steps
      <4>2. Completed(n - 1)
        BY <3>4, <4>1 DEF IsFirstPending, Pending
      <4>3. \A t \in Steps : Completed(t) => t <= n - 1
        BY <3>4, <4>1 DEF ChainInv, IsFirstPending, Pending
      <4>4. IsLast(n - 1)
        BY <4>2, <4>3 DEF IsLast
      <4> QED
        BY <3>1, <4>1, <4>4 DEF UnkilledInv, WorkingIsLast
    <3>a. step' > 1 => working = session.result[step' - 1]
      BY <3>1, <3>4
    <3>5. StepFrames'
      BY <3>1, <3>3, <3>a DEF StepFrames
    <3>6. NoStrays'
      BY <3>1, <3>2, SameFrames DEF NoStrays
    <3>7. StepsKeptBest'
      BY <3>1, SameFrames DEF UnkilledInv
    <3> QED
      BY <3>1, <3>5, <3>6, <3>7 DEF FreshStart, WorkingIsLast
  <2>4. CASE InnerMove
    <3>1. InStep /\ InStep'
      BY <2>4 DEF InnerMove, InStep, Before
    <3> QED
      BY <2>4, <3>1, InsideStep DEF InnerMove
  <2>5. CASE RecordIteration
    <3> DEFINE m == Len(session.iterations)
    <3>1. /\ pc = "paid" /\ pc' \in {"check", "reserve", "write", "stepEnd"}
          /\ UNCHANGED <<session.result, step, stepBest, working, kills>>
          /\ Len(session'.iterations) = m + 1 /\ m \in Nat
          /\ \A k \in 1..m : session'.iterations[k] = session.iterations[k]
          /\ session'.iterations[m + 1]
                = [step |-> step, sim |-> Unchecked, on |-> working]
      BY <2>5, <2>t, RecordFacts
    <3> SUFFICES ASSUME kills = 0
                 PROVE  /\ FreshStart' /\ StepsKeptBest' /\ NoStrays'
                        /\ StepFrames' /\ WorkingIsLast'
      BY <3>1 DEF UnkilledInv
    <3>2. InStep /\ InStep' /\ ~Completed(step)
      BY <3>1, NextOfLast DEF InStep
    <3>3. \A s \in Steps : s # step => Of(s)' = Of(s)
      BY <3>1 DEF Of
    <3>4. Of(step)' = Of(step) \cup {m + 1}
      BY <3>1 DEF Of
    <3>5. \A s \in Steps : Completed(s)' <=> Completed(s)
      BY <3>1 DEF Completed
    <3>6. \A k \in 1..m : Sim(k)' = Sim(k)
      BY <3>1 DEF Sim
    <3>7. \A s \in Steps : Of(s) \subseteq 1..m
      BY DEF Of
    <3>8. StepsKeptBest'
      <4> SUFFICES ASSUME NEW s \in Steps, Completed(s)
                   PROVE  /\ session.result[s] \in Of(s)'
                          /\ \A i \in Of(s)' :
                                session'.iterations[i].sim
                                  <= session'.iterations[session.result[s]].sim
        BY <3>1, <3>5 DEF StepsKeptBest, Sim
      <4>1. Of(s)' = Of(s)
        BY <3>2, <3>3
      <4> QED
        BY <4>1, <3>1, <3>7 DEF UnkilledInv, StepsKeptBest, Sim
    <3>9. NoStrays'
      BY <3>1, <3>2, <3>3, <3>5 DEF UnkilledInv, NoStrays
    <3>10. StepFrames'
      <4> SUFFICES /\ stepBest # 0 => stepBest \in Of(step)'
                   /\ \A i \in Of(step)' :
                         /\ session'.iterations[i].on = working
                         /\ IF stepBest = 0 THEN session'.iterations[i].sim < Floor
                            ELSE session'.iterations[i].sim
                                   <= session'.iterations[stepBest].sim
                   /\ step > 1 => working = session.result[step - 1]
        BY <3>1, <3>2 DEF StepFrames, Sim
      <4>1. /\ stepBest # 0 => stepBest \in Of(step)
            /\ \A i \in Of(step) :
                  /\ session.iterations[i].on = working
                  /\ IF stepBest = 0 THEN Sim(i) < Floor ELSE Sim(i) <= Sim(stepBest)
            /\ step > 1 => working = session.result[step - 1]
        BY <3>2 DEF UnkilledInv, StepFrames
      <4>2. ASSUME NEW i \in Of(step)
            PROVE  /\ session'.iterations[i].on = working
                   /\ IF stepBest = 0 THEN session'.iterations[i].sim < Floor
                      ELSE session'.iterations[i].sim
                             <= session'.iterations[stepBest].sim
        <5>1. i \in 1..m /\ session'.iterations[i] = session.iterations[i]
          BY <3>1 DEF Of
        <5>2. stepBest # 0 => session'.iterations[stepBest] = session.iterations[stepBest]
          BY <3>1, <2>d
        <5> QED
          BY <4>1, <5>1, <5>2 DEF Sim
      <4>3. /\ session'.iterations[m + 1].on = working
            /\ session'.iterations[m + 1].sim = -1
        BY <3>1 DEF Unchecked
      <4>4. stepBest # 0 => /\ session'.iterations[stepBest].sim \in Int
                            /\ session'.iterations[stepBest].sim >= Floor
        BY <2>d, <2>t, <3>1 DEF Sim
      <4> QED
        BY <2>t, <3>4, <4>1, <4>2, <4>3, <4>4
    <3> QED
      BY <3>1, <3>8, <3>9, <3>10 DEF FreshStart, WorkingIsLast
  <2>6. CASE FaceChecked
    <3> DEFINE m == Len(session.iterations)
    <3>1. PICK similarity \in Similarities :
            /\ m \in Nat /\ m > 0 /\ pc = "check"
            /\ UNCHANGED <<session.result, step, working, kills>>
            /\ Len(session'.iterations) = m
            /\ \A k \in 1..m : k # m => session'.iterations[k] = session.iterations[k]
            /\ session'.iterations[m].sim = similarity
            /\ session'.iterations[m].step = session.iterations[m].step
            /\ session'.iterations[m].on = session.iterations[m].on
            /\ IF similarity >= Floor
                  /\ (stepBest = 0 \/ similarity > Sim(stepBest))
               THEN stepBest' = m ELSE stepBest' = stepBest
            /\ pc' \in {"reserve", "write", "stepEnd"}
            /\ Sim(m) = Unchecked
      BY <2>6, CheckFacts
    <3> SUFFICES ASSUME kills = 0
                 PROVE  /\ FreshStart' /\ StepsKeptBest' /\ NoStrays'
                        /\ StepFrames' /\ WorkingIsLast'
      BY <3>1 DEF UnkilledInv
    <3>2. InStep /\ InStep' /\ ~Completed(step) /\ step \in Steps
      BY <3>1, NextOfLast DEF InStep
    <3>3. \A s : Of(s)' = Of(s)
      BY <3>1 DEF Of
    <3>4. m \in Of(step)
      BY <3>1 DEF Of, ChainInv
    <3>5. \A s \in Steps : Completed(s)' <=> Completed(s)
      BY <3>1 DEF Completed
    <3>6. similarity \in Int /\ similarity >= 0
      BY LoopAssumption DEF Similarities
    <3>7. StepsKeptBest'
      <4> SUFFICES ASSUME NEW s \in Steps, Completed(s)
                   PROVE  /\ session.result[s] \in Of(s)'
                          /\ \A i \in Of(s)' :
                                session'.iterations[i].sim
                                  <= session'.iterations[session.result[s]].sim
        BY <3>1, <3>5 DEF StepsKeptBest, Sim
      <4>1. s # step
        BY <3>2
      <4>2. \A i \in Of(s) : i \in 1..m /\ i # m
        BY <3>4, <4>1 DEF Of
      <4>3. \A i \in Of(s) : session'.iterations[i] = session.iterations[i]
        BY <3>1, <4>2
      <4> QED
        BY <4>3, <3>3 DEF UnkilledInv, StepsKeptBest, Sim
    <3>8. NoStrays'
      BY <3>1, <3>2, <3>3, <3>5 DEF UnkilledInv, NoStrays
    <3>9. StepFrames'
      <4> DEFINE best == stepBest'
      <4> SUFFICES /\ best # 0 => best \in Of(step)
                   /\ \A i \in Of(step) :
                         /\ session'.iterations[i].on = working
                         /\ IF best = 0 THEN session'.iterations[i].sim < Floor
                            ELSE session'.iterations[i].sim
                                   <= session'.iterations[best].sim
                   /\ step > 1 => working = session.result[step - 1]
        BY <3>1, <3>2, <3>3 DEF StepFrames, Sim
      <4>1. /\ stepBest # 0 => stepBest \in Of(step)
            /\ \A i \in Of(step) :
                  /\ session.iterations[i].on = working
                  /\ IF stepBest = 0 THEN Sim(i) < Floor ELSE Sim(i) <= Sim(stepBest)
            /\ step > 1 => working = session.result[step - 1]
        BY <3>2 DEF UnkilledInv, StepFrames
      <4>2. \A i \in Of(step) : /\ i \in 1..m
                                /\ session'.iterations[i].on = session.iterations[i].on
                                /\ i # m => session'.iterations[i].sim = Sim(i)
        BY <3>1 DEF Of, Sim
      <4>3. stepBest # 0 => stepBest # m
        BY <2>d, <2>t, <3>1 DEF Unchecked
      <4>4. best # 0 => best \in Of(step)
        BY <3>1, <3>4, <4>1
      <4>5. ASSUME NEW i \in Of(step)
            PROVE  IF best = 0 THEN session'.iterations[i].sim < Floor
                   ELSE session'.iterations[i].sim <= session'.iterations[best].sim
        <5>1. i # m => Sim(i) \in Int
          BY <2>t, <4>2
        <5>2. CASE similarity >= Floor /\ (stepBest = 0 \/ similarity > Sim(stepBest))
          <6>1. best = m /\ best # 0 /\ session'.iterations[best].sim = similarity
            BY <3>1, <5>2
          <6>2. CASE i = m
            BY <6>1, <6>2, <3>6
          <6>3. CASE i # m
            <7>1. session'.iterations[i].sim = Sim(i) /\ Sim(i) \in Int
              BY <4>2, <5>1, <6>3
            <7>2. CASE stepBest = 0
              BY <7>1, <7>2, <6>1, <5>2, <4>1, <2>t, <3>6
            <7>3. CASE stepBest # 0
              <8>1. Sim(stepBest) \in Int
                BY <7>3, <2>d, <2>t
              <8> QED
                BY <8>1, <7>1, <7>3, <6>1, <5>2, <4>1, <3>6
            <7> QED
              BY <7>2, <7>3
          <6> QED
            BY <6>2, <6>3
        <5>3. CASE ~(similarity >= Floor /\ (stepBest = 0 \/ similarity > Sim(stepBest)))
          <6>1. best = stepBest
            BY <3>1, <5>3
          <6>2. CASE stepBest = 0
            <7>1. CASE i = m
              BY <6>1, <6>2, <7>1, <5>3, <3>1, <3>6, <2>t
            <7>2. CASE i # m
              BY <6>1, <6>2, <7>2, <4>1, <4>2
            <7> QED
              BY <7>1, <7>2
          <6>3. CASE stepBest # 0
            <7>1. /\ session'.iterations[stepBest].sim = Sim(stepBest)
                  /\ Sim(stepBest) \in Int /\ Sim(stepBest) >= Floor
              BY <6>3, <2>d, <2>t, <4>1, <4>2, <4>3
            <7>2. CASE i = m
              BY <6>1, <6>3, <7>1, <7>2, <5>3, <3>1, <3>6, <2>t
            <7>3. CASE i # m
              BY <6>1, <6>3, <7>1, <7>3, <4>1, <4>2
            <7> QED
              BY <7>2, <7>3
          <6> QED
            BY <6>2, <6>3
        <5> QED
          BY <5>2, <5>3
      <4> HIDE DEF best
      <4> QED
        BY <4>1, <4>2, <4>4, <4>5
    <3> QED
      BY <3>1, <3>7, <3>8, <3>9 DEF FreshStart, WorkingIsLast
  <2>7. CASE FaceCheckFails
    <3>1. /\ InStep /\ InStep'
          /\ UNCHANGED <<session, step, stepBest, working, kills>>
      BY <2>7 DEF FaceCheckFails, NextAttempt, InStep
    <3> QED
      BY <3>1, InsideStep
  <2>8. CASE CompleteStep
    <3>1. /\ session'.result = [session.result EXCEPT ![step] = stepBest]
          /\ stepBest # 0 /\ UNCHANGED <<session.iterations, step, kills>>
          /\ working' = stepBest
          /\ pc = "stepEnd" /\ pc' \in {"finish", "next"}
      BY <2>8, CompleteFacts
    <3> SUFFICES ASSUME kills = 0
                 PROVE  /\ FreshStart' /\ StepsKeptBest' /\ NoStrays'
                        /\ StepFrames' /\ WorkingIsLast'
      BY <3>1 DEF UnkilledInv
    <3>2. /\ InStep /\ step \in Steps /\ ~Completed(step)
          /\ \A t \in Steps : Completed(t) <=> t < step
          /\ step > 1 => step - 1 \in Steps
      BY <3>1, NextOfLast DEF InStep
    <3>3. Steps \subseteq Int /\ step \in Int
      BY <3>2 DEF Steps
    <3>4. /\ stepBest \in Of(step)
          /\ \A i \in Of(step) : /\ session.iterations[i].on = working
                                 /\ Sim(i) <= Sim(stepBest)
          /\ step > 1 => working = session.result[step - 1]
      BY <3>1, <3>2 DEF UnkilledInv, StepFrames
    <3>5. \A s : Of(s)' = Of(s)
      BY <3>1 DEF Of
    <3>6. /\ session'.result[step] = stepBest
          /\ \A s \in Steps : s # step => session'.result[s] = session.result[s]
      BY <2>t, <3>1, <3>2
    <3>7. StepsKeptBest'
      <4> SUFFICES ASSUME NEW s \in Steps, session'.result[s] # 0
                   PROVE  /\ session'.result[s] \in Of(s)
                          /\ \A i \in Of(s) : Sim(i) <= Sim(session'.result[s])
        BY <3>1, <3>5 DEF StepsKeptBest, Sim, Completed
      <4>1. CASE s = step
        BY <4>1, <3>4, <3>6
      <4>2. CASE s # step
        <5>1. Completed(s) /\ s < step /\ session'.result[s] = session.result[s]
          BY <3>2, <3>6, <4>2 DEF Completed
        <5> QED
          BY <5>1 DEF UnkilledInv, StepsKeptBest
      <4> QED
        BY <4>1, <4>2
    <3>8. NoStrays'
      BY <3>1, <3>2, <3>5, <3>6 DEF UnkilledInv, NoStrays, Completed, InStep
    <3>9. WorkingIsLast'
      <4>1. \A t \in Steps : Completed(t)' => t <= step
        BY <3>2, <3>3, <3>6 DEF Completed
      <4>2. ASSUME NEW s \in Steps, IsLast(s)' PROVE s = step
        <5>1. Completed(s)' /\ step <= s
          BY <3>1, <3>2, <3>6, <4>2 DEF IsLast, Completed
        <5> QED
          BY <5>1, <4>1, <3>3
      <4> QED
        BY <3>1, <3>6, <4>2 DEF WorkingIsLast
    <3> QED
      BY <3>1, <3>7, <3>8, <3>9 DEF FreshStart, StepFrames, InStep
  <2>9. CASE Finish
    <3>1. UNCHANGED <<session.iterations, session.result, kills>> /\ pc' = "publish"
      BY <2>9, FinishFacts DEF Finish
    <3> QED
      BY <3>1, OutsideStep DEF InStep
  <2>10. CASE StoreOutcome
    <3>1. UNCHANGED <<session, kills>> /\ pc' = "idle" /\ idem' # "none"
      BY <2>10 DEF StoreOutcome
    <3> QED
      BY <3>1, OutsideStep DEF InStep
  <2>11. CASE Kill
    BY <2>11 DEF Kill, UnkilledInv, TypeOK
  <2>12. CASE UNCHANGED vars
    <3>1. UNCHANGED <<session, idem, pc, step, stepBest, working, kills>>
      BY <2>12 DEF vars, runVars
    <3> QED
      BY <3>1 DEF UnkilledInv, FreshStart, StepsKeptBest, NoStrays, StepFrames,
         WorkingIsLast, IsLast, Of, Completed, Sim, InStep
  <2> QED
    BY StepKinds, <2>1, <2>2, <2>3, <2>4, <2>5, <2>6, <2>7, <2>8, <2>9, <2>10,
       <2>11, <2>12
<1> QED
  BY <1>1, <1>2, TypeCorrect, KeptInvariant, ChainInvariant, PTL DEF Spec

\* A chain that was not killed delivers, for every step, the best of all the
\* frames that were paid for it.
THEOREM KeepsBest == Spec => [](kills = 0 => KeepBestPerStep)
<1>1. UnkilledInv => (kills = 0 => KeepBestPerStep)
  BY DEF UnkilledInv, StepsKeptBest, KeepBestPerStep, Of
<1> QED
  BY <1>1, UnkilledInvariant, PTL

-----------------------------------------------------------------------------
\* What the next frame is made from: the photo in step 1, later the result of
\* the step before.
EditInv ==
    kills = 0 =>
        /\ ChainsOnPredecessor
        /\ pc = "next" /\ (\A s \in Steps : ~Completed(s)) => working = 0
        /\ InStep => working = IF step = 1 THEN 0 ELSE session.result[step - 1]

\* Steps that add no frame and no result, and leave the working image alone.
LEMMA SameEdits ==
  ASSUME EditInv, UNCHANGED <<session.iterations, session.result, kills>>,
         InStep' => InStep /\ UNCHANGED <<step, working>>,
         pc' = "next" => pc = "next" /\ UNCHANGED working
  PROVE  EditInv'
<1>1. \A s \in Steps : Completed(s)' <=> Completed(s)
  BY DEF Completed
<1>2. ChainsOnPredecessor' <=> ChainsOnPredecessor
  BY DEF ChainsOnPredecessor
<1> QED
  BY <1>1, <1>2 DEF EditInv

LEMMA EditInvariant == Spec => []EditInv
<1>1. Init => EditInv
  BY DEF Init, EditInv, ChainsOnPredecessor, InStep
<1>2. TypeOK /\ KeptInv /\ ChainInv /\ UnkilledInv /\ UnkilledInv' /\ EditInv
        /\ [Next]_vars => EditInv'
  <2> SUFFICES ASSUME TypeOK, KeptInv, ChainInv, UnkilledInv, UnkilledInv', EditInv,
                      [Next]_vars
               PROVE  EditInv'
    OBVIOUS
  <2>t. /\ session.result \in [Steps -> Nat]
        /\ Len(session.iterations) \in Nat
        /\ \A k \in 1..Len(session.iterations) : session.iterations[k] \in Iteration
        /\ Steps \subseteq Int
    BY RecordTypes DEF Steps
  <2>1. CASE Start
    <3>1. /\ UNCHANGED <<session.iterations, session.result, kills>>
          /\ pc' = "next" /\ working' = 0
      BY <2>1, StartFacts DEF Start
    <3>2. ChainsOnPredecessor' <=> ChainsOnPredecessor
      BY <3>1 DEF ChainsOnPredecessor
    <3> QED
      BY <3>1, <3>2 DEF EditInv, InStep
  <2>2. CASE \/ StartWithoutReference \/ AllStepsDone \/ StopChain \/ PublishTerminal
             \/ StoreOutcome
    <3>1. UNCHANGED <<session, kills>> /\ pc' \in {"finish", "store", "idle"}
      BY <2>2 DEF StartWithoutReference, AllStepsDone, StopChain, PublishTerminal,
         StoreOutcome
    <3> QED
      BY <3>1, SameEdits DEF InStep
  <2>3. CASE BeginStep
    <3>1. /\ UNCHANGED <<session, kills, working>>
          /\ pc = "next" /\ pc' \in {"reserve", "write"}
          /\ step' \in Steps /\ IsFirstPending(step')
      BY <2>3 DEF BeginStep
    <3> SUFFICES ASSUME kills = 0 PROVE EditInv'
      BY <3>1 DEF EditInv
    <3>2. ChainsOnPredecessor'
      BY <3>1 DEF EditInv, ChainsOnPredecessor
    <3>3. ASSUME step' = 1 PROVE working = 0
      <4>1. ~Completed(step')
        BY <3>1 DEF IsFirstPending, Pending
      <4>2. \A s \in Steps : ~Completed(s)
        BY <3>1, <3>3, <4>1, <2>t DEF ChainInv, Steps
      <4> QED
        BY <3>1, <4>2 DEF EditInv
    <3>4. step' > 1 => working' = session'.result[step' - 1]
      BY <3>1 DEF UnkilledInv, StepFrames, InStep
    <3>5. step' = 1 \/ step' > 1
      BY <3>1 DEF Steps
    <3> QED
      BY <3>1, <3>2, <3>3, <3>4, <3>5 DEF EditInv
  <2>4. CASE InnerMove
    <3>1. InStep /\ InStep'
      BY <2>4 DEF InnerMove, InStep, Before
    <3> QED
      BY <2>4, <3>1, SameEdits DEF InnerMove, InStep
  <2>5. CASE RecordIteration
    <3> DEFINE m == Len(session.iterations)
    <3>1. /\ pc = "paid" /\ pc' \in {"check", "reserve", "write", "stepEnd"}
          /\ UNCHANGED <<session.result, step, working, kills>>
          /\ Len(session'.iterations) = m + 1
          /\ \A k \in 1..m : session'.iterations[k] = session.iterations[k]
          /\ session'.iterations[m + 1]
                = [step |-> step, sim |-> Unchecked, on |-> working]
      BY <2>5, <2>t, RecordFacts
    <3> SUFFICES ASSUME kills = 0 PROVE EditInv'
      BY <3>1 DEF EditInv
    <3>2. working = IF step = 1 THEN 0 ELSE session.result[step - 1]
      BY <3>1 DEF EditInv, InStep
    <3>3. ASSUME NEW i \in 1..(m + 1)
          PROVE  session'.iterations[i].on
                   = IF session'.iterations[i].step = 1 THEN 0
                     ELSE session'.result[session'.iterations[i].step - 1]
      <4>1. CASE i = m + 1
        BY <4>1, <3>1, <3>2
      <4>2. CASE i # m + 1
        <5>1. i \in 1..m
          BY <4>2, <2>t
        <5> QED
          BY <5>1, <3>1 DEF EditInv, ChainsOnPredecessor
      <4> QED
        BY <4>1, <4>2
    <3>4. ChainsOnPredecessor'
      BY <3>1, <3>3 DEF ChainsOnPredecessor
    <3> QED
      BY <3>1, <3>2, <3>4 DEF EditInv, InStep
  <2>6. CASE FaceChecked
    <3> DEFINE m == Len(session.iterations)
    <3>1. PICK similarity \in Similarities :
            /\ m \in Nat /\ m > 0 /\ pc = "check"
            /\ UNCHANGED <<session.result, step, working, kills>>
            /\ Len(session'.iterations) = m
            /\ \A k \in 1..m : k # m => session'.iterations[k] = session.iterations[k]
            /\ session'.iterations[m].sim = similarity
            /\ session'.iterations[m].step = session.iterations[m].step
            /\ session'.iterations[m].on = session.iterations[m].on
            /\ IF similarity >= Floor
                  /\ (stepBest = 0 \/ similarity > Sim(stepBest))
               THEN stepBest' = m ELSE stepBest' = stepBest
            /\ pc' \in {"reserve", "write", "stepEnd"}
            /\ Sim(m) = Unchecked
      BY <2>6, CheckFacts
    <3>2. \A k \in 1..m : /\ session'.iterations[k].step = session.iterations[k].step
                          /\ session'.iterations[k].on = session.iterations[k].on
      BY <3>1
    <3>3. kills = 0 => ChainsOnPredecessor'
      BY <3>1, <3>2 DEF EditInv, ChainsOnPredecessor
    <3> QED
      BY <3>1, <3>3 DEF EditInv, InStep
  <2>7. CASE FaceCheckFails
    <3>1. /\ InStep /\ InStep'
          /\ UNCHANGED <<session, step, working, kills>>
      BY <2>7 DEF FaceCheckFails, NextAttempt, InStep
    <3> QED
      BY <3>1, SameEdits DEF InStep
  <2>8. CASE CompleteStep
    <3>1. /\ session'.result = [session.result EXCEPT ![step] = stepBest]
          /\ stepBest # 0 /\ UNCHANGED <<session.iterations, step, kills>>
          /\ pc = "stepEnd" /\ pc' \in {"finish", "next"}
      BY <2>8, CompleteFacts
    <3> SUFFICES ASSUME kills = 0 PROVE EditInv'
      BY <3>1 DEF EditInv
    <3>2. /\ InStep /\ step \in Steps /\ ~Completed(step)
          /\ \A t \in Steps : Completed(t) <=> t < step
      BY <3>1, NextOfLast DEF InStep
    <3>3. ASSUME NEW i \in 1..Len(session.iterations), session.iterations[i].step # 1
          PROVE  session'.result[session.iterations[i].step - 1]
                   = session.result[session.iterations[i].step - 1]
      <4> DEFINE s == session.iterations[i].step
      <4>1. s \in Steps /\ i \in Of(s)
        BY <2>t DEF Of, Iteration
      <4>2. s - 1 \in Steps
        BY <4>1, <3>3, LoopAssumption DEF Steps
      <4>3. s - 1 # step
        <5> SUFFICES ASSUME s - 1 = step PROVE FALSE
          OBVIOUS
        <5>0. s \in Steps /\ s \in Int /\ step \in Int /\ s = step + 1
          <6> HIDE DEF s
          <6>1. s \in Int /\ step \in Int
            BY <3>2, <4>1, <2>t
          <6> QED
            BY <6>1, <4>1
        <5>1. ~Completed(s) /\ s # step
          <6> HIDE DEF s
          <6>1. ~(s < step) /\ s # step
            BY <5>0
          <6> QED
            BY <3>2, <5>0, <6>1
        <5>2. Of(s) = {}
          BY <5>1, <4>1, <3>2 DEF UnkilledInv, NoStrays
        <5> QED
          BY <5>2, <4>1
      <4> QED
        BY <3>1, <2>t, <4>2, <4>3
    <3>4. ChainsOnPredecessor'
      BY <3>1, <3>3 DEF EditInv, ChainsOnPredecessor
    <3>5. Completed(step)'
      BY <3>1, <3>2, <2>t DEF Completed
    <3> QED
      BY <3>1, <3>2, <3>4, <3>5 DEF EditInv, InStep
  <2>9. CASE Finish
    <3>1. UNCHANGED <<session.iterations, session.result, kills>> /\ pc' = "publish"
      BY <2>9, FinishFacts DEF Finish
    <3> QED
      BY <3>1, SameEdits DEF InStep
  <2>10. CASE Kill
    BY <2>10 DEF Kill, EditInv, TypeOK
  <2>11. CASE UNCHANGED vars
    <3>1. UNCHANGED <<session, pc, step, working, kills>>
      BY <2>11 DEF vars, runVars
    <3> QED
      BY <3>1, SameEdits DEF InStep
  <2> QED
    BY StepKinds, <2>1, <2>2, <2>3, <2>4, <2>5, <2>6, <2>7, <2>8, <2>9, <2>10, <2>11
<1> QED
  BY <1>1, <1>2, TypeCorrect, KeptInvariant, ChainInvariant, UnkilledInvariant, PTL DEF Spec

\* In a chain that was not killed every frame, kept or not, edits the result of
\* the step before its own, and only the frames of step 1 edit the photo.
THEOREM ChainsOn == Spec => [](kills = 0 => ChainsOnPredecessor)
<1>1. EditInv => (kills = 0 => ChainsOnPredecessor)
  BY DEF EditInv
<1> QED
  BY <1>1, EditInvariant, PTL

=============================================================================
