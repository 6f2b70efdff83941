--------------------------- MODULE GenerationLoop ---------------------------
(***************************************************************************)
(* The paid generation chain of one session: services/generation_loop.py,  *)
(* with the face check of services/facecheck.py, the prompt writer of      *)
(* services/connectors/openrouter_prompt_writer.py and the generator of    *)
(* services/connectors/openrouter_generator.py as the calls it makes.      *)
(*                                                                         *)
(* The plan's steps run in order; the last one is the enhance step that    *)
(* graph/nodes.py always appends.  Within a step the loop writes a prompt, *)
(* reserves budget, generates, records the paid frame, checks the face and *)
(* keeps the best frame, up to MaxAttempts times.                          *)
(*                                                                         *)
(* An action is what happens between two points at which the run can be    *)
(* killed with a different outcome.  Every change of the session record is *)
(* checkpointed in the same action, so one variable, `session', stands for *)
(* the record in the store and for the copy the run works on.  Kill models *)
(* process death, the wall clock, a cancelled task, and an exception that  *)
(* escapes run() (a store or bus failure, a poisoned prompt body).  After  *)
(* it the chain may be entered again from the stored record; nothing else  *)
(* survives.                                                               *)
(***************************************************************************)
EXTENDS Integers, Sequences, FiniteSets

CONSTANTS
    NSteps,          \* number of steps of the plan
    MaxRetries,      \* Thresholds.K_max_retries
    MaxIterations,   \* Settings.max_iterations
    Limit,           \* what the session may spend, in micro-USD
    GenEstimates,    \* padded reservations for one generation
    WriterEstimate,  \* flat reservation for one writer call
    Costs,           \* costs a provider may report
    MaxSim,          \* similarities are 0..MaxSim
    Floor,           \* Thresholds.identity_floor
    Target,          \* Thresholds.similarity_threshold
    MaxKills         \* bound: how often a run of this session is killed

ASSUME LoopAssumption ==
    /\ NSteps \in Nat \ {0}
    /\ MaxRetries \in Nat
    /\ MaxIterations \in Nat \ {0}
    /\ Limit \in Nat
    /\ GenEstimates \subseteq Nat \ {0}
    /\ WriterEstimate \in Nat \ {0}
    /\ Costs \subseteq Nat
    /\ MaxSim \in Nat
    /\ Floor \in 1..MaxSim
    /\ Target \in Floor..MaxSim
    /\ MaxKills \in Nat

VARIABLES
    session,   \* SessionState, as last checkpointed
    idem,      \* outcome stored under generation:{session_key}
    terminals, \* terminal events the loop has put on the stream, in order
    pc,        \* where the run is
    step,      \* EditStep.n of the step being run
    attempt,   \* attempt number within the step
    stepBest,  \* iteration kept as this step's best, 0 for none
    working,   \* iteration whose frame the step edits, 0 for the original photo
    failure,   \* failure_code the run would finish with
    exhausted, \* _StepOutcome.budget_exhausted
    frame,     \* a paid call's outcome that is settled but not yet recorded
    used,      \* the budget counter
    hold,      \* estimate of the reservation the run has open, 0 for none
    settled,   \* history: the sum of what settle() returned
    overrun,   \* history: by how much settled costs exceeded their estimates
    stuck,     \* history: reservations a killed run left open
    lost,      \* history: settled costs a killed run had not recorded
    kills      \* history: number of kills

runVars == <<pc, step, attempt, stepBest, working, failure, exhausted, frame>>
moneyVars == <<used, hold, settled, overrun, stuck>>
vars == <<session, idem, terminals, runVars, moneyVars, lost, kills>>

Ledger == INSTANCE Budget WITH
              Callers   <- {"run"},
              Estimates <- GenEstimates \cup {WriterEstimate},
              hold      <- [c \in {"run"} |-> hold]

-----------------------------------------------------------------------------
Steps == 1..NSteps

\* plan_steps puts one enhance step at the end of every plan.
IsEnhance(s) == s = NSteps

MaxAttempts == IF 1 + MaxRetries < MaxIterations
               THEN 1 + MaxRetries ELSE MaxIterations

\* An iteration whose frame has no face-check result.
Unchecked == -1
Similarities == 0..MaxSim

Verdicts == {"passed", "soft", "below_floor"}

\* FaceCheckService._banded.
Banded(similarity) ==
    CASE similarity >= Target -> "passed"
      [] similarity >= Floor /\ similarity < Target -> "soft"
      [] OTHER -> "below_floor"

FailureCodes == {"NO_DELIVERABLE", "GENERATION_FAILED", "BUDGET_EXHAUSTED",
                 "REFERENCE_MISSING"}

\* step_n, similarity, and the frame that was edited to make this one.
Iteration == [step : Steps, sim : Similarities \cup {Unchecked}, on : Nat]

\* `cost' is SessionState.cost_spent(); `result' holds, for every step, the
\* iteration behind EditStep.result_ref, and 0 while the step is pending.
Session == [fsm : {"awaiting_approval", "generating", "done", "failed"},
            iterations : Seq(Iteration),
            result : [Steps -> Nat],
            best : Nat,
            cost : Nat]

Frame == [kind : {"none", "writer", "image", "refused", "error"}, cost : Nat]
NoFrame == [kind |-> "none", cost |-> 0]

Completed(s) == session.result[s] # 0
\* Mutant: completed steps are not passed over.
AllSteps == Steps

Pending == {s \in Steps : ~Completed(s)}
IsFirstPending(s) == s \in Pending /\ \A t \in Pending : s <= t

Sim(n) == session.iterations[n].sim

-----------------------------------------------------------------------------
\* What a paid call does to the counter.
OpenReservation(estimate) ==
    /\ used' = used + estimate
    /\ hold' = estimate
    /\ UNCHANGED <<settled, overrun, stuck>>

\* Mutant: the cost is added without taking the estimate off.
SettleOnTop(cost) ==
    /\ used' = used + cost
    /\ hold' = 0
    /\ settled' = settled + cost
    /\ overrun' = overrun + Ledger!Excess(hold, cost)
    /\ UNCHANGED stuck

\* settle(cost); an unreported cost keeps the estimate, so it is cost = hold.
SettleReservation(cost) ==
    /\ used' = Ledger!Adjust(used, cost - hold)
    /\ hold' = 0
    /\ settled' = settled + cost
    /\ overrun' = overrun + Ledger!Excess(hold, cost)
    /\ UNCHANGED stuck

\* cancel(): refund the estimate.
CancelReservation ==
    /\ used' = Ledger!Adjust(used, -hold)
    /\ hold' = 0
    /\ UNCHANGED <<settled, overrun, stuck>>

-----------------------------------------------------------------------------
Init ==
    /\ session = [fsm |-> "awaiting_approval", iterations |-> <<>>,
                  result |-> [s \in Steps |-> 0], best |-> 0, cost |-> 0]
    /\ idem = "none"
    /\ terminals = <<>>
    /\ pc = "idle"
    /\ step = 1
    /\ attempt = 1
    /\ stepBest = 0
    /\ working = 0
    /\ failure = "NO_DELIVERABLE"
    /\ exhausted = FALSE
    /\ frame = NoFrame
    /\ used = 0 /\ hold = 0 /\ settled = 0 /\ overrun = 0 /\ stuck = 0
    /\ lost = 0
    /\ kills = 0

\* Mutant: a stored outcome does not stop the run.
StartAnyway ==
    /\ pc = "idle"
    /\ session' = [session EXCEPT !.fsm = "generating"]
    /\ pc' = "next"
    /\ working' = 0
    /\ failure' = "NO_DELIVERABLE"
    /\ UNCHANGED <<idem, terminals, step, attempt, stepBest, exhausted, frame,
                   moneyVars, lost, kills>>

\* run() without an idempotency record: load, mark GENERATING, checkpoint.  The
\* working image starts as the original photo, whatever is already completed.
Start ==
    /\ pc = "idle" /\ idem = "none"
    /\ session' = [session EXCEPT !.fsm = "generating"]
    /\ pc' = "next"
    /\ working' = 0
    /\ failure' = "NO_DELIVERABLE"
    /\ UNCHANGED <<idem, terminals, step, attempt, stepBest, exhausted, frame,
                   moneyVars, lost, kills>>

\* run() when the stored photo is gone: straight to _finish.
StartWithoutReference ==
    /\ pc = "idle" /\ idem = "none"
    /\ pc' = "finish"
    /\ failure' = "REFERENCE_MISSING"
    /\ UNCHANGED <<session, idem, terminals, step, attempt, stepBest, working,
                   exhausted, frame, moneyVars, lost, kills>>

\* run() with a record returns the stored outcome and does nothing else.
Replay ==
    /\ pc = "idle" /\ idem # "none"
    /\ UNCHANGED vars

\* The step loop of _drive: completed steps are passed over.  An enhance step
\* has a fixed body and skips the writer.
BeginStep ==
    /\ pc = "next"
    /\ \E s \in Steps :
        /\ IsFirstPending(s)
        /\ step' = s
        /\ pc' = IF IsEnhance(s) THEN "reserve" ELSE "write"
    /\ attempt' = 1
    /\ stepBest' = 0
    /\ failure' = "NO_DELIVERABLE"
    /\ exhausted' = FALSE
    /\ UNCHANGED <<session, idem, terminals, working, frame, moneyVars, lost,
                   kills>>

AllStepsDone ==
    /\ pc = "next"
    /\ Pending = {}
    /\ pc' = "finish"
    /\ UNCHANGED <<session, idem, terminals, step, attempt, stepBest, working,
                   failure, exhausted, frame, moneyVars, lost, kills>>

-----------------------------------------------------------------------------
\* The writer call of compose (first attempt) and revise (every retry).
WriterReserve ==
    /\ pc = "write"
    /\ Ledger!Fits(used, WriterEstimate)
    /\ OpenReservation(WriterEstimate)
    /\ pc' = "writing"
    /\ UNCHANGED <<session, idem, terminals, step, attempt, stepBest, working,
                   failure, exhausted, frame, lost, kills>>

\* No budget for the writer: the deterministic body is used, at no cost.
WriterDegrades ==
    /\ pc = "write"
    /\ ~Ledger!Fits(used, WriterEstimate)
    /\ pc' = "reserve"
    /\ UNCHANGED <<session, idem, terminals, step, attempt, stepBest, working,
                   failure, exhausted, frame, moneyVars, lost, kills>>

\* The LLM answered: settle.  Only a positive cost is recorded.
WriterAnswers ==
    /\ pc = "writing"
    /\ \E cost \in Costs \cup {hold} :
        /\ SettleReservation(cost)
        /\ frame' = IF cost > 0 THEN [kind |-> "writer", cost |-> cost]
                    ELSE NoFrame
        /\ pc' = IF cost > 0 THEN "record" ELSE "reserve"
    /\ UNCHANGED <<session, idem, terminals, step, attempt, stepBest, working,
                   failure, exhausted, lost, kills>>

\* Any exception of the LLM path: refund and fall back.
WriterFails ==
    /\ pc = "writing"
    /\ CancelReservation
    /\ pc' = "reserve"
    /\ UNCHANGED <<session, idem, terminals, step, attempt, stepBest, working,
                   failure, exhausted, frame, lost, kills>>

\* Mutant: the settled writer cost never reaches the record.
DropWriterCost ==
    /\ pc = "record"
    /\ frame' = NoFrame
    /\ pc' = "reserve"
    /\ UNCHANGED <<session, idem, terminals, step, attempt, stepBest, working,
                   failure, exhausted, moneyVars, lost, kills>>

\* _record_writer_cost: append to llm_calls and checkpoint.
RecordWriterCost ==
    /\ pc = "record"
    /\ session' = [session EXCEPT !.cost = @ + frame.cost]
    /\ frame' = NoFrame
    /\ pc' = "reserve"
    /\ UNCHANGED <<idem, terminals, step, attempt, stepBest, working, failure,
                   exhausted, moneyVars, lost, kills>>

-----------------------------------------------------------------------------
\* Reserve the padded estimate for this attempt's prompt.
ReserveGeneration ==
    /\ pc = "reserve"
    /\ \E estimate \in GenEstimates :
        /\ Ledger!Fits(used, estimate)
        /\ OpenReservation(estimate)
    /\ pc' = "generate"
    /\ UNCHANGED <<session, idem, terminals, step, attempt, stepBest, working,
                   failure, exhausted, frame, lost, kills>>

\* Mutant: the refused reservation is tried again instead of ending the step.
KeepTrying ==
    /\ pc = "reserve"
    /\ \E estimate \in GenEstimates : ~Ledger!Fits(used, estimate)
    /\ failure' = "BUDGET_EXHAUSTED"
    /\ UNCHANGED <<session, idem, terminals, pc, step, attempt, stepBest, working,
                   exhausted, frame, moneyVars, lost, kills>>

\* The estimate does not fit: the step ends with what it has so far.
BudgetExhausted ==
    /\ pc = "reserve"
    /\ \E estimate \in GenEstimates : ~Ledger!Fits(used, estimate)
    /\ failure' = "BUDGET_EXHAUSTED"
    /\ exhausted' = TRUE
    /\ pc' = "stepEnd"
    /\ UNCHANGED <<session, idem, terminals, step, attempt, stepBest, working,
                   frame, moneyVars, lost, kills>>

\* The provider returned a frame.
Generated ==
    /\ pc = "generate"
    /\ \E cost \in Costs \cup {hold} :
        /\ SettleReservation(cost)
        /\ frame' = [kind |-> "image", cost |-> cost]
    /\ pc' = "paid"
    /\ UNCHANGED <<session, idem, terminals, step, attempt, stepBest, working,
                   failure, exhausted, lost, kills>>

\* GenerationRefusedError: an answer without an image, which is still billed.
GenerationRefused ==
    /\ pc = "generate"
    /\ \E cost \in Costs \cup {hold} :
        /\ SettleReservation(cost)
        /\ frame' = [kind |-> "refused", cost |-> cost]
    /\ failure' = "GENERATION_FAILED"
    /\ pc' = "paid"
    /\ UNCHANGED <<session, idem, terminals, step, attempt, stepBest, working,
                   exhausted, lost, kills>>

\* Any other exception of the generator (transport, 4xx): refund.
GenerationFails ==
    /\ pc = "generate"
    /\ CancelReservation
    /\ frame' = [kind |-> "error", cost |-> 0]
    /\ failure' = "GENERATION_FAILED"
    /\ pc' = "paid"
    /\ UNCHANGED <<session, idem, terminals, step, attempt, stepBest, working,
                   exhausted, lost, kills>>

\* Mutant: one attempt too many.
OneMoreAttempt ==
    IF attempt <= MaxAttempts
    THEN /\ attempt' = attempt + 1
         /\ pc' = IF IsEnhance(step) THEN "reserve" ELSE "write"
    ELSE /\ pc' = "stepEnd"
         /\ UNCHANGED attempt

\* The head of the attempt loop: another attempt, or the end of the step.
NextAttempt ==
    IF attempt < MaxAttempts
    THEN /\ attempt' = attempt + 1
         /\ pc' = IF IsEnhance(step) THEN "reserve" ELSE "write"
    ELSE /\ pc' = "stepEnd"
         /\ UNCHANGED attempt

\* Append the Iteration and checkpoint: for a frame this is the write-ahead
\* checkpoint, made before the face check.
RecordIteration ==
    /\ pc = "paid"
    /\ session' = [session EXCEPT
                     !.iterations = Append(@, [step |-> step, sim |-> Unchecked,
                                               on |-> working]),
                     !.cost = @ + frame.cost]
    /\ frame' = NoFrame
    /\ IF frame.kind = "image"
       THEN pc' = "check" /\ UNCHANGED attempt
       ELSE NextAttempt
    /\ UNCHANGED <<idem, terminals, step, stepBest, working, failure, exhausted,
                   moneyVars, lost, kills>>

-----------------------------------------------------------------------------
\* Mutant: the last deliverable frame wins.
KeepLastInStep(current, similarity) == Banded(similarity) # "below_floor"

\* Mutant: the floor is not applied.
KeepAnyInStep(current, similarity) == current = 0 \/ similarity > Sim(current)

\* _keep_best_in_step: strictly better wins; below the floor never enters.
KeepBestInStep(current, similarity) ==
    /\ Banded(similarity) # "below_floor"
    /\ current = 0 \/ similarity > Sim(current)

\* The face check of the frame just recorded, keep-best, checkpoint.
FaceChecked ==
    /\ pc = "check"
    /\ \E similarity \in Similarities :
        LET n == Len(session.iterations) IN
        /\ session' = [session EXCEPT !.iterations[n].sim = similarity]
        /\ stepBest' = IF KeepBestInStep(stepBest, similarity)
                       THEN n ELSE stepBest
        /\ IF Banded(similarity) = "passed"
           THEN pc' = "stepEnd" /\ UNCHANGED <<attempt, failure>>
           ELSE NextAttempt /\ failure' = "NO_DELIVERABLE"
    /\ UNCHANGED <<idem, terminals, step, working, exhausted, frame, moneyVars,
                   lost, kills>>

\* The face check raised: the frame stays recorded without a similarity.
FaceCheckFails ==
    /\ pc = "check"
    /\ failure' = "GENERATION_FAILED"
    /\ NextAttempt
    /\ UNCHANGED <<session, idem, terminals, step, stepBest, working, exhausted,
                   frame, moneyVars, lost, kills>>

-----------------------------------------------------------------------------
\* Mutant: the enhance step wins like any other.
LastStepWins == stepBest

\* Enhance must not replace a better frame; any other step's best wins.
BestAfterStep ==
    IF IsEnhance(step) /\ session.best # 0 /\ Sim(stepBest) < Sim(session.best)
    THEN session.best ELSE stepBest

\* Mutant: the next step still edits the old working image.
CompleteUnchained ==
    /\ pc = "stepEnd" /\ stepBest # 0
    /\ session' = [session EXCEPT !.result[step] = stepBest,
                                  !.best = BestAfterStep]
    /\ pc' = IF exhausted THEN "finish" ELSE "next"
    /\ UNCHANGED <<idem, terminals, step, attempt, stepBest, working, failure,
                   exhausted, frame, moneyVars, lost, kills>>

\* The step kept a frame: complete it, chain on from it, checkpoint.
CompleteStep ==
    /\ pc = "stepEnd" /\ stepBest # 0
    /\ session' = [session EXCEPT !.result[step] = stepBest,
                                  !.best = BestAfterStep]
    /\ working' = stepBest
    /\ pc' = IF exhausted THEN "finish" ELSE "next"
    /\ UNCHANGED <<idem, terminals, step, attempt, stepBest, failure, exhausted,
                   frame, moneyVars, lost, kills>>

\* The step kept nothing: stop the chain.
StopChain ==
    /\ pc = "stepEnd" /\ stepBest = 0
    /\ pc' = "finish"
    /\ UNCHANGED <<session, idem, terminals, step, attempt, stepBest, working,
                   failure, exhausted, frame, moneyVars, lost, kills>>

\* _finish, up to its checkpoint.
Finish ==
    /\ pc = "finish"
    /\ session' = [session EXCEPT !.fsm = IF session.best # 0 THEN "done"
                                          ELSE "failed"]
    /\ pc' = "publish"
    /\ UNCHANGED <<idem, terminals, step, attempt, stepBest, working, failure,
                   exhausted, frame, moneyVars, lost, kills>>

\* _finish publishes the terminal event, with its accounting.
PublishTerminal ==
    /\ pc = "publish"
    /\ terminals' = Append(terminals,
                           [type |-> IF session.best # 0 THEN "result"
                                     ELSE "failed",
                            cost |-> session.cost])
    /\ pc' = "store"
    /\ UNCHANGED <<session, idem, step, attempt, stepBest, working, failure,
                   exhausted, frame, moneyVars, lost, kills>>

\* run_once stores the outcome only now.
StoreOutcome ==
    /\ pc = "store"
    /\ idem' = IF session.best # 0 THEN "result" ELSE "failed"
    /\ pc' = "idle"
    /\ UNCHANGED <<session, terminals, step, attempt, stepBest, working, failure,
                   exhausted, frame, moneyVars, lost, kills>>

\* The run ends here: its reservation stays open, what it has not recorded is
\* gone, and the next run starts from the stored record.
Kill ==
    /\ pc # "idle"
    /\ kills < MaxKills
    /\ kills' = kills + 1
    /\ stuck' = stuck + hold
    /\ hold' = 0
    /\ lost' = lost + frame.cost
    /\ frame' = NoFrame
    /\ pc' = "idle"
    /\ step' = 1 /\ attempt' = 1 /\ stepBest' = 0 /\ working' = 0
    /\ failure' = "NO_DELIVERABLE" /\ exhausted' = FALSE
    /\ UNCHANGED <<session, idem, terminals, used, settled, overrun>>

-----------------------------------------------------------------------------
Writer == \/ WriterReserve \/ WriterDegrades \/ WriterAnswers \/ WriterFails
          \/ RecordWriterCost

Attempt == \/ ReserveGeneration \/ BudgetExhausted \/ Generated
           \/ GenerationRefused \/ GenerationFails \/ RecordIteration
           \/ FaceChecked \/ FaceCheckFails

Chain == \/ BeginStep \/ AllStepsDone \/ CompleteStep \/ StopChain
         \/ Finish \/ PublishTerminal \/ StoreOutcome

\* What the run does by itself once it has been started.
RunStep == Writer \/ Attempt \/ Chain

Next == Start \/ StartWithoutReference \/ Replay \/ RunStep \/ Kill

Spec == Init /\ [][Next]_vars

\* Every await of the run ends: HTTP and Redis calls carry timeouts, and the
\* whole run is under the wall clock.  Nobody has to start or kill a run.
FairSpec == Spec /\ WF_vars(RunStep)

-----------------------------------------------------------------------------
TypeOK ==
    /\ session \in Session
    /\ idem \in {"none", "result", "failed"}
    /\ terminals \in Seq([type : {"result", "failed"}, cost : Nat])
    /\ pc \in {"idle", "next", "write", "writing", "record", "reserve",
               "generate", "paid", "check", "stepEnd", "finish", "publish",
               "store"}
    /\ step \in Steps
    /\ attempt \in 1..MaxAttempts
    /\ stepBest \in Nat
    /\ working \in Nat
    /\ failure \in FailureCodes
    /\ exhausted \in BOOLEAN
    /\ frame \in Frame
    /\ used \in Nat /\ hold \in Nat /\ settled \in Nat
    /\ overrun \in Nat /\ stuck \in Nat /\ lost \in Nat
    /\ kills \in Nat

\* A reservation is open exactly while its call is in flight, and a settled cost
\* waits to be recorded only until the next checkpoint: no path of the run, the
\* error paths included, goes on with an earlier call unfinished.
CallsAreClosed ==
    /\ pc \in {"writing", "generate"} <=> hold > 0
    /\ pc \notin {"record", "paid"} => frame = NoFrame

\* The counter is what was settled, plus the reservation the run has open, plus
\* what killed runs left open: no refund or settlement is lost or applied twice.
LedgerBalances == used = settled + hold + stuck

\* The counter passes the limit only by what settled costs exceeded their own
\* reservations, over all runs of the chain together.
NoOverdraft == used <= Limit + overrun

\* Every settled dollar is in cost_spent(), is about to be recorded by the run,
\* or was dropped by a kill between settle() and the checkpoint that follows.
SpendAccounted == settled = session.cost + frame.cost + lost

\* The inductive invariant of the money: the ledger equation alone is not
\* inductive, because reserving overwrites `hold' and settling overwrites
\* `frame'; CallsAreClosed says that both are empty when that happens.
MoneyInv == /\ CallsAreClosed
            /\ LedgerBalances
            /\ NoOverdraft
            /\ SpendAccounted

Deliverable(n) == n \in 1..Len(session.iterations) /\ Sim(n) >= Floor

\* Whatever the chain keeps, for a step or as the session's result, is a frame
\* that is on record, was face-checked, and is not below the identity floor.
KeptFramesDeliverable ==
    /\ \A s \in Steps : Completed(s) => Deliverable(session.result[s])
    /\ session.best # 0 => Deliverable(session.best)
    /\ stepBest # 0 => Deliverable(stepBest)

\* A step's result is the best of all the frames that were paid for it.
KeepBestPerStep ==
    \A s \in Steps : Completed(s) =>
        /\ session.iterations[session.result[s]].step = s
        /\ \A i \in 1..Len(session.iterations) :
              session.iterations[i].step = s => Sim(i) <= Sim(session.result[s])

\* Every frame ever paid for, kept or not, edits the result of the step before
\* it; only the frames of step 1 edit the photo.
ChainsOnPredecessor ==
    \A i \in 1..Len(session.iterations) :
        LET frm == session.iterations[i] IN
        frm.on = IF frm.step = 1 THEN 0 ELSE session.result[frm.step - 1]

\* The delivered frame is the last completed step's, unless that is an enhance
\* step that came out worse than what it started from; a chain fails only when
\* it completed no step at all.
DeliversLastCompletedStep ==
    LET last == CHOOSE s \in Steps : /\ Completed(s)
                                     /\ \A t \in Steps : Completed(t) => t <= s
        regressed == /\ IsEnhance(last) /\ last > 1
                     /\ Sim(session.result[last - 1]) > Sim(session.result[last])
    IN  IF \E s \in Steps : Completed(s)
        THEN /\ session.fsm # "failed"
             /\ session.best = session.result[IF regressed THEN last - 1 ELSE last]
        ELSE session.best = 0 /\ session.fsm # "done"

\* The stored outcome, the last terminal event, the state of the session and
\* the accounting the event carries agree, whatever was killed on the way.
OutcomeAgrees ==
    idem # "none" =>
        /\ idem = (IF session.fsm = "done" THEN "result" ELSE "failed")
        /\ terminals # <<>>
        /\ terminals[Len(terminals)] = [type |-> idem, cost |-> session.cost]
        /\ Len(terminals) <= 1 + kills

\* A step takes at most MaxAttempts iterations each time the chain is entered.
AttemptsBounded ==
    \A s \in Steps :
        Cardinality({i \in 1..Len(session.iterations) :
                        session.iterations[i].step = s})
            <= MaxAttempts * (kills + 1)

\* A step that is completed on record is never generated again, and its result
\* never changes, however often the chain is entered.
CompletedStepsAreFinal ==
    [][\A s \in Steps : Completed(s) =>
          /\ session'.result[s] = session.result[s]
          /\ \A i \in DOMAIN session'.iterations \ DOMAIN session.iterations :
                session'.iterations[i].step # s]_vars

\* A run that is not killed reaches a stored outcome: the retries of a step and
\* the chain of steps both come to an end.
RunReachesOutcome ==
    \A k \in 0..MaxKills :
        (pc # "idle" /\ kills = k) ~> (idem # "none" \/ kills > k)

\* The counter's side of a chain is a Budget with one caller.
BudgetSpec == Ledger!Spec

=============================================================================
