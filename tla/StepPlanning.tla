---------------------------- MODULE StepPlanning ----------------------------
(***************************************************************************)
(* The cut of a brief into edit steps: services/planner.py (deterministic, *)
(* free), connectors/openrouter_planner.py (a model, validated) and the    *)
(* end of plan_steps in graph/nodes.py.                                    *)
(*                                                                         *)
(* A change is its target.  Scene and Adjacent are the targets with a word *)
(* of the two vocabularies of _REGION_RANK.  A model's answer is a         *)
(* sequence of steps, each with its targets and whether its title and      *)
(* instruction are non-blank strings.                                      *)
(***************************************************************************)
EXTENDS Integers, Sequences, SequencesExt, Selection

CONSTANTS Targets, Scene, Adjacent, Blank

ASSUME TargetsAssumption ==
    /\ Scene \subseteq Targets /\ Adjacent \subseteq Targets
    /\ Blank \notin Targets

\* _rank: the first vocabulary that has a word of the target.
Rank(target) == CASE target \in Scene -> 0
                  [] target \in Adjacent \ Scene -> 2
                  [] OTHER -> 1

Numbered(steps) == [i \in DOMAIN steps |-> [n |-> i, targets |-> steps[i],
                                            enhance |-> FALSE]]

OfRank(changes, rank) ==
    Only(changes, {i \in DOMAIN changes : Rank(changes[i]) = rank})

\* sorted(key=_rank) is stable.
SortedByRank(changes) == OfRank(changes, 0) \o OfRank(changes, 1) \o OfRank(changes, 2)

\* deterministic_steps: one step per change.
DeterministicSteps(changes) ==
    LET ordered == SortedByRank(changes)
    IN  Numbered([i \in DOMAIN ordered |-> << ordered[i] >>])

-----------------------------------------------------------------------------
Clean(targets) == Only(targets, {i \in DOMAIN targets : targets[i] # Blank})
Covers(step) == ToSet(Clean(step.targets))
Explicit(changes) == ToSet(changes)

\* Mutant: what a step may cover is not compared with the brief.
ValidWithoutBrief(answer, changes, extra) ==
    /\ answer # <<>>
    /\ \A i \in DOMAIN answer : answer[i].worded
    /\ \A i, j \in DOMAIN answer : i # j => Covers(answer[i]) \cap Covers(answer[j]) = {}
    /\ Explicit(changes) \subseteq UNION {Covers(answer[i]) : i \in DOMAIN answer}

\* _parse_steps accepts the answer: targets beyond the brief only with an
\* inventory, none in two steps, none of the brief's missing.
Valid(answer, changes, extra) ==
    /\ answer # <<>>
    /\ \A i \in DOMAIN answer : answer[i].worded
    /\ extra \/ \A i \in DOMAIN answer : Covers(answer[i]) \subseteq Explicit(changes)
    /\ \A i, j \in DOMAIN answer : i # j => Covers(answer[i]) \cap Covers(answer[j]) = {}
    /\ Explicit(changes) \subseteq UNION {Covers(answer[i]) : i \in DOMAIN answer}

ParseSteps(answer) == Numbered([i \in DOMAIN answer |-> Clean(answer[i].targets)])

\* OpenRouterStepPlanner.plan; answer is <<>> for a refused reservation, a failed
\* call or output that is no plan at all.
PlanResult(answer, changes, inventory, preserve) ==
    IF /\ Len(changes) >= 2 \/ (inventory /\ preserve)
       /\ Valid(answer, changes, inventory)
    THEN ParseSteps(answer)
    ELSE DeterministicSteps(changes)

EnhanceStep(n) == [n |-> n, targets |-> <<>>, enhance |-> TRUE]

\* plan_steps: at least one main step, and the enhance step last.
Proposed(answer, changes, inventory, preserve) ==
    LET steps == PlanResult(answer, changes, inventory, preserve)
        main == IF steps = <<>> THEN Numbered(<< <<>> >>) ELSE steps
    IN  Append(main, EnhanceStep(Len(main) + 1))
=============================================================================
