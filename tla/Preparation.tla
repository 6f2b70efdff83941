---------------------------- MODULE Preparation -----------------------------
(***************************************************************************)
(* What a session does, and pays, before its plan is approved: the nodes   *)
(* parse_brief to plan_steps of graph/nodes.py with the auxiliary LLM      *)
(* connectors behind them (openrouter_brief_parser.py, _inventory.py,      *)
(* _slot_filler.py, _planner.py) and their deterministic fallbacks.        *)
(*                                                                         *)
(* The four connectors share one shape: nothing to do and no budget go     *)
(* straight to the fallback; otherwise a flat estimate is reserved, the    *)
(* model is asked, and a usable answer is settled while any exception is   *)
(* refunded and falls back.  The node then writes the session record, and  *)
(* LangGraph checkpoints the position afterwards.  Kill is process death,  *)
(* the wall clock, a cancelled task, or an exception that escapes (the     *)
(* store fails in settle(), after which cancel() raises as well).          *)
(*                                                                         *)
(* User text is a member of Texts; Unsafe is what the injection guards of  *)
(* prompt_builder.py reject.                                               *)
(***************************************************************************)
EXTENDS Integers, Sequences

CONSTANTS
    Texts,       \* what a brief, an answer or a model may say
    Unsafe,      \* the texts the guards reject
    NoText,      \* an empty brief, no answer, an option of the preset
    Limit,       \* SessionState.budget_limit, in micro-USD
    Estimate,    \* node -> flat estimate of its call
    Costs,       \* costs a provider may report
    MaxReasks,   \* MAX_REASKS
    MaxChanges,  \* bound: changes a model finds in a brief
    MaxKills     \* bound: how often a run of this session is killed

PaidNodes == {"parse_brief", "extract_inventory", "resolve_constraints",
              "plan_steps"}

ASSUME PreparationAssumption ==
    /\ Unsafe \subseteq Texts
    /\ NoText \notin Texts
    /\ Limit \in Nat
    /\ Estimate \in [PaidNodes -> Nat \ {0}]
    /\ Costs \subseteq Nat
    /\ MaxReasks \in Nat
    /\ MaxChanges \in Nat
    /\ MaxKills \in Nat

VARIABLES
    brief,     \* the text the session was started with
    preset,    \* what the library resolves to: "none", or by its ask slot:
               \*    "closed" (it has none), "enum" or "free"
    face,      \* the face profile is stored
    inventory, \* ... and carries an inventory
    session,   \* SessionState, as last checkpointed
    graph,     \* the LangGraph checkpoint
    pending,   \* the checkpoint LangGraph writes after the current node
    at,        \* where the run is within the node graph.next
    got,       \* what the node's call returned
    used, hold, settled, overrun, stuck,    \* as in Budget
    calls,     \* history: node -> settled calls
    rejected,  \* history: texts of the user the guards rejected
    dropped,   \* history: settled costs of rejected fills
    lost,      \* history: settled costs a killed run had not recorded
    kills      \* history: number of kills

inputVars == <<brief, preset>>
moneyVars == <<used, hold, settled, overrun, stuck>>
history == <<rejected, dropped, lost, kills>>
vars == <<inputVars, face, inventory, session, graph, pending, at, got,
          moneyVars, calls, history>>

Ledger == INSTANCE Budget WITH
              Callers   <- {"run"},
              Estimates <- {Estimate[n] : n \in PaidNodes},
              hold      <- [c \in {"run"} |-> hold]

-----------------------------------------------------------------------------
Nodes == PaidNodes \cup {"ask", "approve", "fail"}
MaybeText == Texts \cup {NoText}

\* cost is cost_spent(); slots and addendum are kept as the free text in them.
Session == [fsm : {"face_check", "need_input", "planning", "awaiting_approval",
                   "failed"},
            changes : Seq(Texts), preserve : BOOLEAN, slot : MaybeText,
            cost : Nat]

Graph == [next : Nodes, answer : MaybeText, reasks : Nat, reask : BOOLEAN,
          addendum : MaybeText]

Places == {"todo", "open", "have", "commit", "paused", "end", "dead"}

Result == [llm : BOOLEAN, cost : Nat]
Nothing == [llm |-> FALSE, cost |-> 0]

Running == at \notin {"paused", "end", "dead"}
On(node, place) == graph.next = node /\ at = place

Init ==
    /\ brief \in MaybeText
    /\ preset \in {"none", "closed", "enum", "free"}
    /\ face = TRUE
    /\ inventory \in BOOLEAN
    /\ session = [fsm |-> "face_check", changes |-> <<>>, preserve |-> FALSE,
                  slot |-> NoText, cost |-> 0]
    /\ graph = [next |-> "parse_brief", answer |-> NoText, reasks |-> 0,
                reask |-> FALSE, addendum |-> NoText]
    /\ pending = graph
    /\ at = "todo"
    /\ got = Nothing
    /\ used = 0 /\ hold = 0 /\ settled = 0 /\ overrun = 0 /\ stuck = 0
    /\ calls = [n \in PaidNodes |-> 0]
    /\ rejected = {}
    /\ dropped = 0 /\ lost = 0 /\ kills = 0

-----------------------------------------------------------------------------
(* The connectors.                                                         *)

\* What each connector needs to have anything to ask a model.
ParserWanted == brief # NoText
InventoryWanted == face /\ ~inventory
FillerWanted == graph.answer # NoText \/ face
PlannerWanted == Len(session.changes) >= 2 \/ (inventory /\ session.preserve)

Wanted(node) ==
    CASE node = "parse_brief"         -> ParserWanted
      [] node = "extract_inventory"   -> InventoryWanted
      [] node = "resolve_constraints" -> FillerWanted
      [] node = "plan_steps"          -> PlannerWanted

\* Nothing to ask, or the photo is gone from storage: the fallback, for free.
Skip(node) ==
    /\ On(node, "todo")
    /\ ~Wanted(node) \/ node = "extract_inventory"
    /\ at' = "have"
    /\ UNCHANGED <<inputVars, face, inventory, session, graph, pending, got,
                   moneyVars, calls, history>>

\* Mutant: the call is made whether the budget allows it or not.
ReserveUnchecked(node) ==
    /\ On(node, "todo") /\ Wanted(node)
    /\ used' = used + Estimate[node]
    /\ hold' = Estimate[node]
    /\ at' = "open"
    /\ UNCHANGED <<inputVars, face, inventory, session, graph, pending, got,
                   settled, overrun, stuck, calls, history>>

Reserve(node) ==
    /\ On(node, "todo") /\ Wanted(node)
    /\ Ledger!Fits(used, Estimate[node])
    /\ used' = used + Estimate[node]
    /\ hold' = Estimate[node]
    /\ at' = "open"
    /\ UNCHANGED <<inputVars, face, inventory, session, graph, pending, got,
                   settled, overrun, stuck, calls, history>>

\* A refused budget degrades to the fallback.
Degrade(node) ==
    /\ On(node, "todo") /\ Wanted(node)
    /\ ~Ledger!Fits(used, Estimate[node])
    /\ at' = "have"
    /\ UNCHANGED <<inputVars, face, inventory, session, graph, pending, got,
                   moneyVars, calls, history>>

\* A usable answer: settle to the reported cost, or keep the estimate.
Answer(node) ==
    /\ On(node, "open")
    /\ \E cost \in Costs \cup {hold} :
        /\ used' = Ledger!Adjust(used, cost - hold)
        /\ settled' = settled + cost
        /\ overrun' = overrun + Ledger!Excess(hold, cost)
        /\ got' = [llm |-> TRUE, cost |-> cost]
    /\ hold' = 0
    /\ calls' = [calls EXCEPT ![node] = @ + 1]
    /\ at' = "have"
    /\ UNCHANGED <<inputVars, face, inventory, session, graph, pending, stuck,
                   history>>

\* Mutant: the fallback is used without a refund.
CallFailsOpen(node) ==
    /\ On(node, "open")
    /\ at' = "have"
    /\ UNCHANGED <<inputVars, face, inventory, session, graph, pending, got,
                   moneyVars, calls, history>>

\* Transport failure, 4xx, or output that does not validate: refund, fall back.
CallFails(node) ==
    /\ On(node, "open")
    /\ used' = Ledger!Adjust(used, -hold)
    /\ hold' = 0
    /\ at' = "have"
    /\ UNCHANGED <<inputVars, face, inventory, session, graph, pending, got,
                   settled, overrun, stuck, calls, history>>

Connector(node) == \/ Skip(node) \/ Reserve(node) \/ Degrade(node)
                   \/ Answer(node) \/ CallFails(node)

-----------------------------------------------------------------------------
(* The nodes.  Each writes the session with what the call cost, and leaves *)
(* the position it moves to for LangGraph's checkpoint.                    *)

Leave(record, position) ==
    /\ session' = record
    /\ pending' = position
    /\ got' = Nothing
    /\ at' = "commit"

To(node) == [graph EXCEPT !.next = node]
Charged == [session EXCEPT !.cost = @ + got.cost]

Commit ==
    /\ at = "commit"
    /\ graph' = pending
    /\ at' = "todo"
    /\ UNCHANGED <<inputVars, face, inventory, session, pending, got, moneyVars,
                   calls, history>>

\* _parse_analysis accepts any list of changes, the empty one included.
Changes == UNION {[1..n -> Texts] : n \in 0..MaxChanges}

\* deterministic_analysis: the whole brief is one change.
OneChange == IF brief = NoText THEN <<>> ELSE <<brief>>

ParseBrief ==
    /\ On("parse_brief", "have")
    /\ \E changes \in Changes, preserve \in BOOLEAN :
        /\ ~got.llm => changes = OneChange /\ ~preserve
        /\ Leave([Charged EXCEPT !.changes = changes, !.preserve = preserve],
                 To("extract_inventory"))
    /\ UNCHANGED <<inputVars, face, inventory, graph, moneyVars, calls, history>>

\* An empty extraction is not stored; storing one writes the profile back.
ExtractInventory ==
    /\ On("extract_inventory", "have")
    /\ Leave(Charged, To("ask"))
    /\ \/ UNCHANGED <<face, inventory>>
       \/ got.llm /\ face' = TRUE /\ inventory' = TRUE
    /\ UNCHANGED <<inputVars, graph, moneyVars, calls, history>>

\* The profile's TTL runs out.
FaceExpires ==
    /\ face
    /\ face' = FALSE
    /\ inventory' = FALSE
    /\ UNCHANGED <<inputVars, session, graph, pending, at, got, moneyVars, calls,
                   history>>

\* The brief answers a free-form slot, unless it was just rejected.
Asks == \/ preset = "enum"
        \/ preset = "free" /\ (brief = NoText \/ graph.reask)

\* No preset fails the session; without a question the graph goes on.
AskNobody ==
    /\ On("ask", "todo") /\ ~Asks
    /\ Leave(session,
             IF preset = "none" THEN To("fail")
             ELSE [To("resolve_constraints") EXCEPT
                     !.answer = IF preset = "free" THEN brief ELSE NoText])
    /\ UNCHANGED <<inputVars, face, inventory, graph, moneyVars, calls, history>>

\* NEED_INPUT is written and the graph pauses.
AskPauses ==
    /\ On("ask", "todo") /\ Asks
    /\ session' = [session EXCEPT !.fsm = "need_input"]
    /\ at' = "paused"
    /\ UNCHANGED <<inputVars, face, inventory, graph, pending, got, moneyVars,
                   calls, history>>

\* The user answers: the node runs again and its interrupt returns the text.
AskAnswered ==
    /\ On("ask", "paused")
    /\ \E text \in Texts :
        Leave([session EXCEPT !.fsm = "need_input"],
              [To("resolve_constraints") EXCEPT !.answer = text])
    /\ UNCHANGED <<inputVars, face, inventory, graph, moneyVars, calls, history>>

-----------------------------------------------------------------------------
\* A free-form slot holds the answer word for word, whoever filled the rest;
\* any other slot holds an option of the preset.
SlotText == IF preset = "free" THEN graph.answer ELSE NoText

\* Only a model adds an addendum.
Addenda == IF got.llm THEN MaybeText ELSE {NoText}

\* Mutant: the filled template is not checked.
AcceptsAll(addendum) == TRUE

\* assemble_prompt(fill_template(...)) passes the guards.
Accepts(addendum) == {SlotText, addendum} \cap Unsafe = {}

ResolveAccepts ==
    /\ On("resolve_constraints", "have")
    /\ \E addendum \in Addenda :
        /\ Accepts(addendum)
        /\ Leave([Charged EXCEPT !.fsm = "planning", !.slot = SlotText],
                 [To("plan_steps") EXCEPT !.addendum = addendum, !.reask = FALSE])
    /\ UNCHANGED <<inputVars, face, inventory, graph, moneyVars, calls, history>>

\* Mutant: re-asks are not counted.
ResolveAsksForever ==
    /\ On("resolve_constraints", "have")
    /\ \E addendum \in Addenda : ~Accepts(addendum)
    /\ rejected' = rejected \cup ({SlotText} \cap Unsafe)
    /\ dropped' = dropped + got.cost
    /\ Leave(session, [To("ask") EXCEPT !.reask = TRUE])
    /\ UNCHANGED <<inputVars, face, inventory, graph, moneyVars, calls, lost,
                   kills>>

\* The guards reject the text: ask again, or fail after MaxReasks.  The node
\* returns before it would record what the fill cost.
ResolveRejects ==
    /\ On("resolve_constraints", "have")
    /\ \E addendum \in Addenda : ~Accepts(addendum)
    /\ rejected' = rejected \cup ({SlotText} \cap Unsafe)
    /\ dropped' = dropped + got.cost
    /\ Leave(session, IF graph.reasks >= MaxReasks THEN To("fail")
                      ELSE [To("ask") EXCEPT !.reasks = @ + 1, !.reask = TRUE])
    /\ UNCHANGED <<inputVars, face, inventory, graph, moneyVars, calls, lost,
                   kills>>

\* DefaultSlotFiller raises when an answer matches no option and there is no
\* default: the exception ends the run.
ResolveRaises ==
    /\ On("resolve_constraints", "have")
    /\ preset = "enum" /\ ~got.llm
    /\ at' = "dead"
    /\ UNCHANGED <<inputVars, face, inventory, session, graph, pending, got,
                   moneyVars, calls, history>>

\* The plan, its forecast and the new state are written together; module
\* StepPlanning has what the plan says.
PlanSteps ==
    /\ On("plan_steps", "have")
    /\ Leave([Charged EXCEPT !.fsm = "awaiting_approval"], To("approve"))
    /\ UNCHANGED <<inputVars, face, inventory, graph, moneyVars, calls, history>>

\* The approval interrupt parks the graph; what follows is GenerationLoop's.
Approve ==
    /\ On("approve", "todo")
    /\ at' = "paused"
    /\ UNCHANGED <<inputVars, face, inventory, session, graph, pending, got,
                   moneyVars, calls, history>>

Fail ==
    /\ On("fail", "todo")
    /\ session' = [session EXCEPT !.fsm = "failed"]
    /\ at' = "end"
    /\ UNCHANGED <<inputVars, face, inventory, graph, pending, got, moneyVars,
                   calls, history>>

Kill ==
    /\ Running
    /\ kills < MaxKills
    /\ kills' = kills + 1
    /\ stuck' = stuck + hold
    /\ hold' = 0
    /\ lost' = lost + got.cost
    /\ got' = Nothing
    /\ at' = "dead"
    /\ UNCHANGED <<inputVars, face, inventory, session, graph, pending, used,
                   settled, overrun, calls, rejected, dropped>>

\* Mutant: a dead run is started again in whatever state it left.
ReEnterAnywhere ==
    /\ at = "dead"
    /\ at' = IF graph.next \in {"ask", "approve"} THEN "paused" ELSE "todo"
    /\ UNCHANGED <<inputVars, face, inventory, session, graph, pending, got,
                   moneyVars, calls, history>>

\* /input or /approve is admitted by the stored state and resumes the graph at
\* its checkpoint: the interrupt again, or the node that had not committed.
ReEnter ==
    /\ at = "dead"
    /\ session.fsm \in {"need_input", "awaiting_approval"}
    /\ at' = IF graph.next \in {"ask", "approve"} THEN "paused" ELSE "todo"
    /\ UNCHANGED <<inputVars, face, inventory, session, graph, pending, got,
                   moneyVars, calls, history>>

-----------------------------------------------------------------------------
NodeStep == \/ \E n \in PaidNodes : Connector(n)
            \/ Commit \/ ParseBrief \/ ExtractInventory
            \/ AskNobody \/ AskPauses
            \/ ResolveAccepts \/ ResolveRejects \/ ResolveRaises
            \/ PlanSteps \/ Approve \/ Fail

Next == NodeStep \/ AskAnswered \/ FaceExpires \/ Kill \/ ReEnter

Spec == Init /\ [][Next]_vars

\* Nodes run by themselves, every await has a timeout; the user of this
\* specification answers the questions.
FairSpec == Spec /\ WF_vars(NodeStep) /\ WF_vars(AskAnswered)

-----------------------------------------------------------------------------
TypeOK ==
    /\ brief \in MaybeText
    /\ preset \in {"none", "closed", "enum", "free"}
    /\ face \in BOOLEAN /\ inventory \in BOOLEAN
    /\ session \in Session
    /\ graph \in Graph /\ pending \in Graph
    /\ at \in Places
    /\ got \in Result
    /\ used \in Nat /\ hold \in Nat /\ settled \in Nat
    /\ overrun \in Nat /\ stuck \in Nat
    /\ calls \in [PaidNodes -> Nat]
    /\ rejected \subseteq Unsafe
    /\ dropped \in Nat /\ lost \in Nat /\ kills \in Nat

\* No connector returns with its reservation open, whichever way its call went,
\* and no node moves on with a settled cost still in its hands.
CallsAreClosed ==
    /\ at = "open" <=> hold > 0
    /\ at # "have" => got = Nothing

\* Skips, refusals, answers, refunds and kills of four different calls leave
\* the counter at what was settled, is held open, or was left open by a kill.
LedgerBalances == used = settled + hold + stuck

\* Every settled dollar is in cost_spent() or about to be, except what a kill
\* drops between settle() and the checkpoint, and the slot fills of rejected
\* answers, which no record ever shows (nodes.py returns before its own
\* "so cost_spent stays complete").
SpendAccounted == settled = session.cost + got.cost + lost + dropped

\* The counter passes the limit only by under-estimated costs.
NoOverdraft == used <= Limit + overrun

\* The money of the preparation: whatever is skipped, refused, answered, refunded,
\* rejected or killed, calls are closed, and the counter, the limit and the
\* session's own record of its spend stay in these relations.
MoneyInv == TypeOK /\ CallsAreClosed /\ LedgerBalances /\ NoOverdraft /\ SpendAccounted

\* A call is paid for again only because an answer was rejected or because a
\* run was killed before its node committed; the first two nodes, whose state
\* admits no request, never run twice.
CallsBounded ==
    /\ calls["parse_brief"] <= 1 /\ calls["extract_inventory"] <= 1
    /\ calls["resolve_constraints"] <= MaxReasks + 1 + kills
    /\ calls["plan_steps"] <= 1 + kills

\* Whatever a model or a user said, the slots and the addendum a planned
\* session goes on with have passed the guards.
SlotsAreClean ==
    session.fsm \in {"planning", "awaiting_approval"} =>
        /\ session.slot \notin Unsafe
        /\ graph.addendum \notin Unsafe

\* If its user answers, a session that is not cut short gets to its approval or
\* fails cleanly: re-asking comes to an end.
ReachesApproval ==
    Running ~> (graph.next = "approve" \/ at \in {"end", "dead"})

\* The counter's side of the auxiliary calls is a Budget with one caller.
BudgetSpec == Ledger!Spec

\* resolve_constraints: "the poisoned text never survives in state or in the
\* session record".
RejectedTextIsGone ==
    session.fsm \in {"planning", "awaiting_approval"} =>
        \A i \in DOMAIN session.changes : session.changes[i] \notin rejected

=============================================================================
