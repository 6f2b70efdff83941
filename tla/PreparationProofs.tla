-------------------------- MODULE PreparationProofs -------------------------
(***************************************************************************)
(* For every set of texts, every limit, price, number of re-asks and of    *)
(* kills, and every length of a brief's list of changes:                   *)
(*   - the state of the preparation is well typed, its calls are closed,   *)
(*     and the ledger, the limit and the record of the spend agree;        *)
(*   - the money side is a Budget with one caller;                         *)
(*   - slots and addenda a session goes on with have passed the guards;    *)
(*   - every call is paid for at most as often as re-asks and kills allow. *)
(***************************************************************************)
EXTENDS Preparation, TLAPS

\* A fallback costs nothing: what ResolveRaises leaves behind is Nothing.
FallbackIsFree == ~got.llm => got = Nothing

\* The inductive invariant of the money.
PayInv == MoneyInv /\ FallbackIsFree

\* Charging a call to the session keeps its type and adds its cost.
LEMMA ChargedType ==
  ASSUME TypeOK
  PROVE  /\ Charged \in Session
         /\ Charged.cost = session.cost + got.cost
<1>1. session.cost + got.cost \in Nat
  BY DEF TypeOK, Session, Result
<1> QED
  BY <1>1 DEF Charged, TypeOK, Session

\* A position one node further keeps the type.
LEMMA ToType ==
  ASSUME TypeOK, NEW n \in Nodes
  PROVE  /\ To(n) \in Graph
         /\ To(n).next = n
         /\ To(n).reasks = graph.reasks
         /\ To(n).addendum = graph.addendum
  BY DEF TypeOK, Graph, To

\* So does a position that asks again.
LEMMA AskAgainType ==
  ASSUME NEW g \in Graph
  PROVE  LET again == [g EXCEPT !.reasks = @ + 1, !.reask = TRUE]
         IN  /\ again \in Graph
             /\ again.next = g.next
             /\ again.reasks = g.reasks + 1
             /\ again.addendum = g.addendum
<1>1. g.reasks + 1 \in Nat
  BY DEF Graph
<1> QED
  BY <1>1 DEF Graph

\* The lists of changes a model may return are sequences of texts.
LEMMA ChangesType ==
  ASSUME NEW changes \in Changes
  PROVE  changes \in Seq(Texts)
<1>1. PICK n \in 0..MaxChanges : changes \in [1..n -> Texts]
  BY DEF Changes
<1>2. n \in Nat
  BY PreparationAssumption
<1> QED
  BY <1>1, <1>2

\* The state of the preparation is well typed, whatever is skipped, refused,
\* answered, rejected or killed.
THEOREM TypeCorrect == Spec => []TypeOK
<1>1. Init => TypeOK
  <2> SUFFICES ASSUME Init PROVE TypeOK
    OBVIOUS
  <2>1. session \in Session /\ graph \in Graph /\ pending \in Graph
    BY DEF Init, Session, Graph, MaybeText, Nodes, PaidNodes
  <2>2. got \in Result /\ calls \in [PaidNodes -> Nat]
    BY DEF Init, Result, Nothing
  <2> QED
    BY <2>1, <2>2 DEF Init, TypeOK, Places
<1>2. TypeOK /\ [Next]_vars => TypeOK'
  <2> SUFFICES ASSUME TypeOK, [Next]_vars PROVE TypeOK'
    OBVIOUS
  <2> USE PreparationAssumption
  <2>n. Nothing \in Result
    BY DEF Nothing, Result
  <2>p. PaidNodes \subseteq Nodes /\ {"ask", "approve", "fail"} \subseteq Nodes
    BY DEF Nodes
  <2>1. ASSUME NEW n \in PaidNodes, Skip(n) \/ Degrade(n) PROVE TypeOK'
    BY <2>1 DEF Skip, Degrade, TypeOK, Places, inputVars, moneyVars, history
  <2>2. ASSUME NEW n \in PaidNodes, Reserve(n) PROVE TypeOK'
    BY <2>2 DEF Reserve, TypeOK, Places, inputVars, history
  <2>3. ASSUME NEW n \in PaidNodes, Answer(n) PROVE TypeOK'
    <3>1. PICK cost \in Costs \cup {hold} :
            /\ used' = Ledger!Adjust(used, cost - hold)
            /\ settled' = settled + cost
            /\ overrun' = overrun + Ledger!Excess(hold, cost)
            /\ got' = [llm |-> TRUE, cost |-> cost]
      BY <2>3 DEF Answer
    <3>2. cost \in Nat /\ got' \in Result
      BY <3>1 DEF TypeOK, Result
    <3>3. used' \in Nat /\ settled' \in Nat /\ overrun' \in Nat
      BY <3>1, <3>2 DEF TypeOK, Ledger!Adjust, Ledger!Excess
    <3>4. calls' \in [PaidNodes -> Nat]
      BY <2>3 DEF Answer, TypeOK
    <3> QED
      BY <2>3, <3>2, <3>3, <3>4 DEF Answer, TypeOK, Places, inputVars, history
  <2>4. ASSUME NEW n \in PaidNodes, CallFails(n) PROVE TypeOK'
    BY <2>4 DEF CallFails, TypeOK, Places, inputVars, history, Ledger!Adjust
  <2>5. CASE Commit
    BY <2>5 DEF Commit, TypeOK, Places, inputVars, moneyVars, history
  <2>6. CASE ParseBrief
    <3>1. PICK changes \in Changes, preserve \in BOOLEAN :
            Leave([Charged EXCEPT !.changes = changes, !.preserve = preserve],
                  To("extract_inventory"))
      BY <2>6 DEF ParseBrief
    <3>2. session' \in Session
      BY <3>1, ChangesType, ChargedType DEF Leave, Session
    <3>3. pending' \in Graph
      BY <3>1, ToType, <2>p DEF Leave, PaidNodes
    <3> QED
      BY <2>6, <3>1, <3>2, <3>3, <2>n
         DEF ParseBrief, Leave, TypeOK, Places, inputVars, moneyVars, history
  <2>7. CASE ExtractInventory
    <3>1. pending' \in Graph /\ session' \in Session
      BY <2>7, ToType, ChargedType, <2>p DEF ExtractInventory, Leave
    <3> QED
      BY <2>7, <3>1, <2>n
         DEF ExtractInventory, Leave, TypeOK, Places, inputVars, moneyVars, history
  <2>8. CASE FaceExpires
    BY <2>8 DEF FaceExpires, TypeOK, inputVars, moneyVars, history
  <2>9. CASE AskNobody
    <3>1. pending' \in Graph
      <4>1. To("fail") \in Graph /\ To("resolve_constraints") \in Graph
        BY ToType, <2>p DEF PaidNodes
      <4>2. (IF preset = "free" THEN brief ELSE NoText) \in MaybeText
        BY DEF TypeOK, MaybeText
      <4> QED
        BY <2>9, <4>1, <4>2 DEF AskNobody, Leave, Graph
    <3> QED
      BY <2>9, <3>1, <2>n
         DEF AskNobody, Leave, TypeOK, Places, inputVars, moneyVars, history
  <2>10. CASE AskPauses
    <3>1. session' \in Session
      BY <2>10 DEF AskPauses, TypeOK, Session
    <3> QED
      BY <2>10, <3>1
         DEF AskPauses, TypeOK, Places, inputVars, moneyVars, history
  <2>11. CASE AskAnswered
    <3>1. PICK text \in Texts :
            Leave([session EXCEPT !.fsm = "need_input"],
                  [To("resolve_constraints") EXCEPT !.answer = text])
      BY <2>11 DEF AskAnswered
    <3>2. session' \in Session
      BY <3>1 DEF Leave, TypeOK, Session
    <3>3. pending' \in Graph
      <4>1. To("resolve_constraints") \in Graph
        BY ToType, <2>p DEF PaidNodes
      <4> QED
        BY <3>1, <4>1 DEF Leave, Graph, MaybeText
    <3> QED
      BY <2>11, <3>1, <3>2, <3>3, <2>n
         DEF AskAnswered, Leave, TypeOK, Places, inputVars, moneyVars, history
  <2>12. CASE ResolveAccepts
    <3>1. PICK addendum \in Addenda :
            Leave([Charged EXCEPT !.fsm = "planning", !.slot = SlotText],
                  [To("plan_steps") EXCEPT !.addendum = addendum,
                                           !.reask = FALSE])
      BY <2>12 DEF ResolveAccepts
    <3>2. SlotText \in MaybeText /\ addendum \in MaybeText
      BY DEF SlotText, Addenda, MaybeText, TypeOK, Graph
    <3>3. session' \in Session
      BY <3>1, <3>2, ChargedType DEF Leave, Session
    <3>4. pending' \in Graph
      <4>1. To("plan_steps") \in Graph
        BY ToType, <2>p DEF PaidNodes
      <4> QED
        BY <3>1, <3>2, <4>1 DEF Leave, Graph
    <3> QED
      BY <2>12, <3>1, <3>3, <3>4, <2>n
         DEF ResolveAccepts, Leave, TypeOK, Places, inputVars, moneyVars, history
  <2>13. CASE ResolveRejects
    <3>1. pending' \in Graph
      <4>1. To("fail") \in Graph /\ To("ask") \in Graph
        BY ToType, <2>p
      <4> QED
        BY <2>13, <4>1, AskAgainType DEF ResolveRejects, Leave
    <3>2. dropped' \in Nat
      BY <2>13 DEF ResolveRejects, TypeOK, Result
    <3>3. rejected' \subseteq Unsafe
      BY <2>13 DEF ResolveRejects, TypeOK
    <3> QED
      BY <2>13, <3>1, <3>2, <3>3, <2>n
         DEF ResolveRejects, Leave, TypeOK, Places, inputVars, moneyVars
  <2>14. CASE ResolveRaises
    BY <2>14 DEF ResolveRaises, TypeOK, Places, inputVars, moneyVars, history
  <2>15. CASE PlanSteps
    <3>1. pending' \in Graph /\ session' \in Session
      BY <2>15, ToType, ChargedType, <2>p DEF PlanSteps, Leave, Session
    <3> QED
      BY <2>15, <3>1, <2>n
         DEF PlanSteps, Leave, TypeOK, Places, inputVars, moneyVars, history
  <2>16. CASE Approve
    BY <2>16 DEF Approve, TypeOK, Places, inputVars, moneyVars, history
  <2>17. CASE Fail
    <3>1. session' \in Session
      BY <2>17 DEF Fail, TypeOK, Session
    <3> QED
      BY <2>17, <3>1 DEF Fail, TypeOK, Places, inputVars, moneyVars, history
  <2>18. CASE Kill
    <3>1. lost' \in Nat /\ stuck' \in Nat /\ kills' \in Nat
      BY <2>18 DEF Kill, TypeOK, Result
    <3> QED
      BY <2>18, <3>1, <2>n DEF Kill, TypeOK, Places, inputVars
  <2>19. CASE ReEnter
    BY <2>19 DEF ReEnter, TypeOK, Places, inputVars, moneyVars, history
  <2>20. CASE UNCHANGED vars
    BY <2>20 DEF vars, TypeOK, inputVars, moneyVars, history
  <2> QED
    BY <2>1, <2>2, <2>3, <2>4, <2>5, <2>6, <2>7, <2>8, <2>9, <2>10, <2>11,
       <2>12, <2>13, <2>14, <2>15, <2>16, <2>17, <2>18, <2>19, <2>20
       DEF Next, NodeStep, Connector
<1> QED
  BY <1>1, <1>2, PTL DEF Spec

-----------------------------------------------------------------------------
\* Steps that touch neither the money nor what a call returned preserve the
\* invariant, if no call is in flight and no answer is dropped.
LEMMA QuietStep ==
  ASSUME PayInv, TypeOK', UNCHANGED <<moneyVars, got, lost, dropped>>,
         session'.cost = session.cost,
         at # "open", at' # "open",
         at = "have" => got = Nothing
  PROVE  PayInv'
  BY DEF PayInv, MoneyInv, CallsAreClosed, LedgerBalances, NoOverdraft,
         SpendAccounted, FallbackIsFree, moneyVars

\* So do steps with which a node leaves: what its call cost is charged to the
\* session, or dropped with the fill it paid for.
LEMMA LeaveStep ==
  ASSUME PayInv, TypeOK', at # "open", at' = "commit", got' = Nothing,
         UNCHANGED <<moneyVars, lost>>,
         session'.cost + dropped' = session.cost + got.cost + dropped
  PROVE  PayInv'
<1>a. /\ session.cost \in Nat /\ got.cost \in Nat /\ dropped \in Nat
      /\ settled \in Nat /\ lost \in Nat
  BY DEF PayInv, MoneyInv, TypeOK, Session, Result
<1>b. session'.cost \in Nat /\ dropped' \in Nat /\ got'.cost = 0
  BY DEF TypeOK, Session, Nothing
<1>1. SpendAccounted'
  BY <1>a, <1>b DEF PayInv, MoneyInv, SpendAccounted, moneyVars
<1> QED
  BY <1>1 DEF PayInv, MoneyInv, CallsAreClosed, LedgerBalances, NoOverdraft,
         FallbackIsFree, moneyVars

\* The money of the preparation: calls are closed, the ledger balances, the
\* limit is passed only by under-estimated costs, and every settled dollar is on
\* record, about to be, lost to a kill, or that of a rejected fill.
THEOREM MoneyInvariant == Spec => []MoneyInv
<1>1. Init => CallsAreClosed /\ LedgerBalances /\ NoOverdraft /\ SpendAccounted
              /\ FallbackIsFree
  BY PreparationAssumption
     DEF Init, CallsAreClosed, LedgerBalances, NoOverdraft, SpendAccounted,
         FallbackIsFree, Nothing
<1>2. PayInv /\ TypeOK' /\ [Next]_vars => PayInv'
  <2> SUFFICES ASSUME PayInv, TypeOK', [Next]_vars PROVE PayInv'
    OBVIOUS
  <2> USE PreparationAssumption
  <2>t. /\ TypeOK
        /\ session.cost \in Nat /\ got.cost \in Nat /\ dropped \in Nat
    BY DEF PayInv, MoneyInv, TypeOK, Session, Result
  <2>1. ASSUME NEW n \in PaidNodes, Skip(n) \/ Degrade(n) PROVE PayInv'
    BY <2>1, QuietStep DEF Skip, Degrade, On, history
  <2>2. ASSUME NEW n \in PaidNodes, Reserve(n) PROVE PayInv'
    <3>1. hold = 0 /\ got = Nothing
      BY <2>2, <2>t DEF Reserve, On, PayInv, MoneyInv, CallsAreClosed, TypeOK
    <3>2. Estimate[n] \in Nat \ {0}
      OBVIOUS
    <3>3. LedgerBalances' /\ NoOverdraft'
      BY <2>2, <2>t, <3>1, <3>2
         DEF Reserve, PayInv, MoneyInv, LedgerBalances, NoOverdraft, Ledger!Fits,
             TypeOK
    <3>4. SpendAccounted' /\ FallbackIsFree'
      BY <2>2 DEF Reserve, PayInv, MoneyInv, SpendAccounted, FallbackIsFree,
         history
    <3>5. CallsAreClosed'
      BY <2>2, <3>1, <3>2 DEF Reserve, CallsAreClosed
    <3> QED
      BY <3>3, <3>4, <3>5 DEF PayInv, MoneyInv
  <2>3. ASSUME NEW n \in PaidNodes, Answer(n) PROVE PayInv'
    <3>1. PICK cost \in Costs \cup {hold} :
            /\ used' = Ledger!Adjust(used, cost - hold)
            /\ settled' = settled + cost
            /\ overrun' = overrun + Ledger!Excess(hold, cost)
            /\ got' = [llm |-> TRUE, cost |-> cost]
      BY <2>3 DEF Answer
    <3>2. cost \in Nat /\ got = Nothing /\ hold' = 0
      BY <2>3, <2>t DEF Answer, On, PayInv, MoneyInv, CallsAreClosed, TypeOK
    <3>3. LedgerBalances' /\ NoOverdraft'
      BY <2>3, <2>t, <3>1, <3>2
         DEF Answer, PayInv, MoneyInv, LedgerBalances, NoOverdraft, TypeOK,
             Ledger!Adjust, Ledger!Excess
    <3>4. SpendAccounted'
      BY <2>3, <2>t, <3>1, <3>2
         DEF Answer, PayInv, MoneyInv, SpendAccounted, Nothing, history, TypeOK
    <3>5. CallsAreClosed' /\ FallbackIsFree'
      BY <2>3, <3>1, <3>2 DEF Answer, CallsAreClosed, FallbackIsFree
    <3> QED
      BY <3>3, <3>4, <3>5 DEF PayInv, MoneyInv
  <2>4. ASSUME NEW n \in PaidNodes, CallFails(n) PROVE PayInv'
    <3>1. LedgerBalances' /\ NoOverdraft'
      BY <2>4, <2>t
         DEF CallFails, PayInv, MoneyInv, LedgerBalances, NoOverdraft, TypeOK,
             Ledger!Adjust
    <3> QED
      BY <2>4, <3>1 DEF CallFails, On, PayInv, MoneyInv, CallsAreClosed,
         SpendAccounted, FallbackIsFree, history
  <2>5. CASE Commit
    BY <2>5, QuietStep DEF Commit, history
  <2>6. CASE ParseBrief
    <3>1. session'.cost = session.cost + got.cost
      BY <2>6, <2>t, ChargedType DEF ParseBrief, Leave, Session
    <3> QED
      BY <2>6, <2>t, <3>1, LeaveStep DEF ParseBrief, Leave, On, history
  <2>7. CASE ExtractInventory
    BY <2>7, <2>t, ChargedType, LeaveStep DEF ExtractInventory, Leave, On, history
  <2>8. CASE FaceExpires
    BY <2>8, <2>t DEF FaceExpires, PayInv, MoneyInv, CallsAreClosed,
       LedgerBalances, NoOverdraft, SpendAccounted, FallbackIsFree, moneyVars,
       history
  <2>9. CASE AskNobody
    <3>1. got = Nothing
      BY <2>9 DEF AskNobody, On, PayInv, MoneyInv, CallsAreClosed
    <3> QED
      BY <2>9, <2>t, <3>1, LeaveStep DEF AskNobody, Leave, On, history, Nothing
  <2>10. CASE AskPauses
    <3>1. session'.cost = session.cost
      BY <2>10, <2>t DEF AskPauses, TypeOK, Session
    <3> QED
      BY <2>10, <3>1, QuietStep DEF AskPauses, On, history
  <2>11. CASE AskAnswered
    <3>1. got = Nothing
      BY <2>11 DEF AskAnswered, On, PayInv, MoneyInv, CallsAreClosed
    <3>2. session'.cost = session.cost
      BY <2>11, <2>t DEF AskAnswered, Leave, TypeOK, Session
    <3> QED
      BY <2>11, <2>t, <3>1, <3>2, LeaveStep
         DEF AskAnswered, Leave, On, history, Nothing
  <2>12. CASE ResolveAccepts
    <3>1. session'.cost = session.cost + got.cost
      BY <2>12, <2>t, ChargedType DEF ResolveAccepts, Leave, Session
    <3> QED
      BY <2>12, <2>t, <3>1, LeaveStep DEF ResolveAccepts, Leave, On, history
  <2>13. CASE ResolveRejects
    <3>1. session'.cost + dropped' = session.cost + got.cost + dropped
      BY <2>13, <2>t DEF ResolveRejects, Leave
    <3> QED
      BY <2>13, <3>1, LeaveStep DEF ResolveRejects, Leave, On
  <2>14. CASE ResolveRaises
    BY <2>14, QuietStep DEF ResolveRaises, On, history, PayInv, FallbackIsFree
  <2>15. CASE PlanSteps
    <3>1. session'.cost = session.cost + got.cost
      BY <2>15, <2>t, ChargedType DEF PlanSteps, Leave, Session
    <3> QED
      BY <2>15, <2>t, <3>1, LeaveStep DEF PlanSteps, Leave, On, history
  <2>16. CASE Approve
    BY <2>16, QuietStep DEF Approve, On, history
  <2>17. CASE Fail
    <3>1. session'.cost = session.cost
      BY <2>17, <2>t DEF Fail, TypeOK, Session
    <3> QED
      BY <2>17, <3>1, QuietStep DEF Fail, On, history
  <2>18. CASE Kill
    <3>1. LedgerBalances' /\ NoOverdraft'
      BY <2>18, <2>t DEF Kill, PayInv, MoneyInv, LedgerBalances, NoOverdraft,
         TypeOK
    <3>2. SpendAccounted'
      BY <2>18, <2>t DEF Kill, PayInv, MoneyInv, SpendAccounted, Nothing, TypeOK
    <3>3. CallsAreClosed' /\ FallbackIsFree'
      BY <2>18 DEF Kill, CallsAreClosed, FallbackIsFree
    <3> QED
      BY <3>1, <3>2, <3>3 DEF PayInv, MoneyInv
  <2>19. CASE ReEnter
    BY <2>19, QuietStep DEF ReEnter, history
  <2>20. CASE UNCHANGED vars
    BY <2>20, <2>t DEF vars, PayInv, MoneyInv, CallsAreClosed, LedgerBalances,
       NoOverdraft, SpendAccounted, FallbackIsFree, moneyVars, history
  <2> QED
    BY <2>1, <2>2, <2>3, <2>4, <2>5, <2>6, <2>7, <2>8, <2>9, <2>10, <2>11,
       <2>12, <2>13, <2>14, <2>15, <2>16, <2>17, <2>18, <2>19, <2>20
       DEF Next, NodeStep, Connector
<1>3. Init /\ TypeOK => PayInv
  BY <1>1 DEF PayInv, MoneyInv
<1>4. PayInv => MoneyInv
  BY DEF PayInv
<1> QED
  BY <1>2, <1>3, <1>4, TypeCorrect, PTL DEF Spec

-----------------------------------------------------------------------------
\* The one caller's hold, as Budget sees it.
LEMMA HoldUpdate ==
  ASSUME NEW h, hold' = h
  PROVE  [c \in {"run"} |-> hold'] = [[c \in {"run"} |-> hold] EXCEPT !["run"] = h]
  OBVIOUS

\* On the money, every step of the preparation is a step of Budget with one
\* caller or changes nothing: whichever of the four connectors is in flight, it
\* spends only after reserving, and closes its reservation once, unless killed.
THEOREM ImplementsBudget == Spec => BudgetSpec
<1>1. Init => Ledger!Init
  BY DEF Init, Ledger!Init
<1>2. MoneyInv /\ [Next]_vars => [Ledger!Next]_(Ledger!budgetVars)
  <2> SUFFICES ASSUME MoneyInv, [Next]_vars
               PROVE  [Ledger!Next]_(Ledger!budgetVars)
    OBVIOUS
  <2>q. ASSUME UNCHANGED moneyVars PROVE UNCHANGED Ledger!budgetVars
    BY <2>q DEF moneyVars, Ledger!budgetVars
  <2>t. used \in Nat /\ hold \in Nat /\ overrun \in Nat
    BY DEF MoneyInv, TypeOK
  <2>1. ASSUME NEW n \in PaidNodes, Skip(n) \/ Degrade(n)
        PROVE  UNCHANGED Ledger!budgetVars
    BY <2>1, <2>q DEF Skip, Degrade
  <2>2. ASSUME NEW n \in PaidNodes, Reserve(n)
        PROVE  Ledger!Reserve("run")
    <3>1. hold = 0
      BY <2>2, <2>t DEF Reserve, On, MoneyInv, CallsAreClosed
    <3> QED
      BY <2>2, <3>1, HoldUpdate DEF Reserve, Ledger!Reserve
  <2>3. ASSUME NEW n \in PaidNodes, Answer(n)
        PROVE  Ledger!Settle("run") \/ Ledger!SettleUnreported("run")
    <3>1. PICK cost \in Costs \cup {hold} :
            /\ used' = Ledger!Adjust(used, cost - hold)
            /\ settled' = settled + cost
            /\ overrun' = overrun + Ledger!Excess(hold, cost)
      BY <2>3 DEF Answer
    <3>2. hold > 0 /\ hold' = 0 /\ stuck' = stuck
      BY <2>3 DEF Answer, On, MoneyInv, CallsAreClosed
    <3>3. CASE cost \in Costs
      BY <3>1, <3>2, <3>3, HoldUpdate DEF Ledger!Settle
    <3>4. CASE cost = hold
      <4>1. used' = used /\ overrun' = overrun
        BY <2>t, <3>1, <3>4 DEF Ledger!Adjust, Ledger!Excess
      <4> QED
        BY <3>1, <3>2, <3>4, <4>1, HoldUpdate DEF Ledger!SettleUnreported
    <3> QED
      BY <3>3, <3>4
  <2>4. ASSUME NEW n \in PaidNodes, CallFails(n)
        PROVE  Ledger!Cancel("run")
    <3>1. hold > 0
      BY <2>4 DEF CallFails, On, MoneyInv, CallsAreClosed
    <3> QED
      BY <2>4, <3>1, HoldUpdate DEF CallFails, Ledger!Cancel
  <2>5. CASE Kill
    <3>1. CASE hold = 0
      BY <2>5, <3>1, <2>q DEF Kill, moneyVars, MoneyInv, TypeOK
    <3>2. CASE hold > 0
      <4>1. Ledger!Abandon("run")
        BY <2>5, <3>2, HoldUpdate DEF Kill, Ledger!Abandon
      <4> QED
        BY <4>1 DEF Ledger!Next
    <3> QED
      BY <3>1, <3>2, <2>t
  <2>6. CASE \/ Commit \/ ParseBrief \/ ExtractInventory \/ FaceExpires
             \/ AskNobody \/ AskPauses \/ AskAnswered \/ ResolveAccepts
             \/ ResolveRejects \/ ResolveRaises \/ PlanSteps \/ Approve \/ Fail
             \/ ReEnter \/ UNCHANGED vars
    BY <2>6, <2>q DEF Commit, ParseBrief, ExtractInventory, FaceExpires,
       AskNobody, AskPauses, AskAnswered, ResolveAccepts, ResolveRejects,
       ResolveRaises, PlanSteps, Approve, Fail, ReEnter, vars
  <2> QED
    BY <2>1, <2>2, <2>3, <2>4, <2>5, <2>6
       DEF Next, NodeStep, Connector, Ledger!Next
<1> QED
  BY <1>1, <1>2, MoneyInvariant, PTL DEF Spec, BudgetSpec, Ledger!Spec

-----------------------------------------------------------------------------
\* What was accepted is clean in every copy there is of it, so also in the one
\* LangGraph has not written yet.  Only ResolveAccepts writes these fields.
CleanInv == {session.slot, graph.addendum, pending.addendum} \cap Unsafe = {}

\* Whatever a model or a user said, the slots and the addendum a planned session
\* goes on with have passed the guards: a kill between the session's write and
\* LangGraph's checkpoint does not bring a rejected text back.
THEOREM CleanSlots == Spec => []SlotsAreClean
<1>1. Init => CleanInv
  BY PreparationAssumption DEF Init, CleanInv
<1>2. TypeOK /\ CleanInv /\ [Next]_vars => CleanInv'
  <2> SUFFICES ASSUME TypeOK, CleanInv, [Next]_vars PROVE CleanInv'
    OBVIOUS
  <2>p. PaidNodes \subseteq Nodes /\ {"ask", "approve", "fail"} \subseteq Nodes
    BY DEF Nodes
  <2>1. CASE \/ \E n \in PaidNodes : Connector(n)
             \/ FaceExpires \/ ResolveRaises \/ Approve \/ Kill \/ ReEnter
             \/ UNCHANGED vars
    BY <2>1 DEF Connector, Skip, Reserve, Degrade, Answer, CallFails, FaceExpires,
       ResolveRaises, Approve, Kill, ReEnter, vars, CleanInv
  <2>2. CASE Commit
    BY <2>2 DEF Commit, CleanInv
  <2>3. CASE ParseBrief
    <3>1. session'.slot = session.slot
      BY <2>3, ChargedType DEF ParseBrief, Leave, Charged, Session, TypeOK
    <3>2. pending'.addendum = graph.addendum /\ graph' = graph
      BY <2>3, <2>p, ToType DEF ParseBrief, Leave, PaidNodes
    <3> QED
      BY <3>1, <3>2 DEF CleanInv
  <2>4. CASE ExtractInventory
    <3>1. session'.slot = session.slot
      BY <2>4 DEF ExtractInventory, Leave, Charged, Session, TypeOK
    <3>2. pending'.addendum = graph.addendum /\ graph' = graph
      BY <2>4, <2>p, ToType DEF ExtractInventory, Leave
    <3> QED
      BY <3>1, <3>2 DEF CleanInv
  <2>5. CASE AskNobody
    <3>1. /\ To("resolve_constraints") \in Graph /\ To("fail") \in Graph
          /\ To("resolve_constraints").addendum = graph.addendum
          /\ To("fail").addendum = graph.addendum
      BY <2>p, ToType DEF PaidNodes
    <3>2. pending'.addendum = graph.addendum /\ graph' = graph
      BY <2>5, <3>1 DEF AskNobody, Leave, Graph
    <3> QED
      BY <2>5, <3>2 DEF AskNobody, Leave, CleanInv
  <2>6. CASE AskPauses \/ Fail
    BY <2>6 DEF AskPauses, Fail, CleanInv, TypeOK, Session
  <2>7. CASE AskAnswered
    <3>1. /\ To("resolve_constraints") \in Graph
          /\ To("resolve_constraints").addendum = graph.addendum
      BY <2>p, ToType DEF PaidNodes
    <3>2. pending'.addendum = graph.addendum /\ graph' = graph
      BY <2>7, <3>1 DEF AskAnswered, Leave, Graph
    <3>3. session'.slot = session.slot
      BY <2>7 DEF AskAnswered, Leave, TypeOK, Session
    <3> QED
      BY <3>2, <3>3 DEF CleanInv
  <2>8. CASE ResolveAccepts
    <3>1. PICK addendum \in Addenda :
            /\ Accepts(addendum)
            /\ Leave([Charged EXCEPT !.fsm = "planning", !.slot = SlotText],
                     [To("plan_steps") EXCEPT !.addendum = addendum,
                                              !.reask = FALSE])
      BY <2>8 DEF ResolveAccepts
    <3>2. session'.slot = SlotText
      BY <3>1, ChargedType DEF Leave, Session
    <3>3. pending'.addendum = addendum
      BY <3>1, <2>p, ToType DEF Leave, Graph, PaidNodes
    <3> QED
      BY <2>8, <3>1, <3>2, <3>3 DEF ResolveAccepts, Accepts, CleanInv
  <2>9. CASE ResolveRejects
    <3>1. /\ To("ask") \in Graph /\ To("fail") \in Graph
          /\ To("ask").addendum = graph.addendum
          /\ To("fail").addendum = graph.addendum
      BY <2>p, ToType
    <3>2. pending'.addendum = graph.addendum /\ session' = session
      BY <2>9, <3>1, AskAgainType DEF ResolveRejects, Leave
    <3> QED
      BY <2>9, <3>2 DEF ResolveRejects, CleanInv
  <2>10. CASE PlanSteps
    <3>1. session'.slot = session.slot
      BY <2>10 DEF PlanSteps, Leave, Charged, Session, TypeOK
    <3>2. pending'.addendum = graph.addendum /\ graph' = graph
      BY <2>10, <2>p, ToType DEF PlanSteps, Leave
    <3> QED
      BY <3>1, <3>2 DEF CleanInv
  <2> QED
    BY <2>1, <2>2, <2>3, <2>4, <2>5, <2>6, <2>7, <2>8, <2>9, <2>10
       DEF Next, NodeStep
<1>3. CleanInv => SlotsAreClean
  BY DEF CleanInv, SlotsAreClean
<1> QED
  BY <1>1, <1>2, <1>3, TypeCorrect, PTL DEF Spec

-----------------------------------------------------------------------------
\* The edges of the graph up to the approval.
Edges == {<<"parse_brief", "extract_inventory">>, <<"extract_inventory", "ask">>,
          <<"ask", "resolve_constraints">>, <<"ask", "fail">>,
          <<"resolve_constraints", "ask">>, <<"resolve_constraints", "fail">>,
          <<"resolve_constraints", "plan_steps">>, <<"plan_steps", "approve">>}

FirstNodes == {"parse_brief", "extract_inventory"}

\* Where a run can be.  No request is admitted in the state of the first two
\* nodes, so a run that dies there is never started again.
PositionInv ==
    /\ graph.next \in FirstNodes => session.fsm = "face_check"
    /\ at \in {"open", "have"} => graph.next \in PaidNodes
    /\ at = "paused" => graph.next \in {"ask", "approve"}
    /\ at = "commit" => <<graph.next, pending.next>> \in Edges
    /\ got.llm => at = "have"

\* 1 once the run's current visit of its node has, or may have, paid a call.
PaidHere == IF got.llm \/ at = "commit" THEN 1 ELSE 0

\* Only a rejected answer leads back to ask, and it is counted; reasks is kept
\* by every other move.
ReaskInv ==
    /\ graph.reasks <= MaxReasks
    /\ at = "commit" =>
         pending.reasks = IF pending.next = "ask" /\ graph.next = "resolve_constraints"
                          THEN graph.reasks + 1 ELSE graph.reasks
    /\ at = "commit" => pending.reasks <= MaxReasks

\* The calls paid for so far, by where the run is.
CountInv ==
    /\ calls["parse_brief"] <= 1
    /\ graph.next = "parse_brief" /\ at \in {"todo", "open"} =>
          calls["parse_brief"] = 0
    /\ calls["extract_inventory"] <= 1
    /\ graph.next = "parse_brief"
         \/ (graph.next = "extract_inventory" /\ at \in {"todo", "open"}) =>
          calls["extract_inventory"] = 0
    /\ CASE graph.next \in {"parse_brief", "extract_inventory", "ask"} ->
              calls["resolve_constraints"] <= graph.reasks + kills
         [] graph.next = "resolve_constraints" ->
              calls["resolve_constraints"] <= graph.reasks + kills + PaidHere
         [] OTHER ->
              calls["resolve_constraints"] <= MaxReasks + 1 + kills
    /\ CASE graph.next = "approve" -> calls["plan_steps"] <= 1 + kills
         [] graph.next = "plan_steps" -> calls["plan_steps"] <= kills + PaidHere
         [] OTHER -> calls["plan_steps"] <= kills

BoundInv == PositionInv /\ ReaskInv /\ CountInv

\* A node leaves along an edge of the graph.
LEMMA LeaveBound ==
  ASSUME TypeOK, BoundInv, at # "commit", at' = "commit", got' = Nothing,
         UNCHANGED <<graph, calls, kills>>,
         graph.next \in FirstNodes => session'.fsm = session.fsm,
         <<graph.next, pending'.next>> \in Edges,
         pending'.reasks = IF pending'.next = "ask"
                                /\ graph.next = "resolve_constraints"
                           THEN graph.reasks + 1 ELSE graph.reasks,
         pending'.reasks <= MaxReasks
  PROVE  BoundInv'
<1>1. PositionInv'
  BY DEF BoundInv, PositionInv, Nothing
<1>2. ReaskInv'
  BY DEF BoundInv, ReaskInv
<1>3. graph.reasks \in Nat /\ kills \in Nat /\ calls \in [PaidNodes -> Nat]
  BY DEF TypeOK, Graph
<1>4. PaidHere \in 0..1 /\ PaidHere' = 1
  BY DEF PaidHere
<1>5. CountInv'
  BY <1>3, <1>4 DEF BoundInv, CountInv, PaidNodes
<1> QED
  BY <1>1, <1>2, <1>5 DEF BoundInv

\* A step within a node, without a settled call.
LEMMA StayBound ==
  ASSUME TypeOK, BoundInv,
         UNCHANGED <<graph, pending, got, calls, kills>>,
         graph.next \in FirstNodes => session'.fsm = session.fsm,
         at # "commit", at' # "commit",
         graph.next \in FirstNodes /\ at' \in {"todo", "open"} =>
            at \in {"todo", "open"},
         at' \in {"open", "have"} => graph.next \in PaidNodes,
         at' = "paused" => graph.next \in {"ask", "approve"},
         got.llm => at' = "have"
  PROVE  BoundInv'
<1>1. PositionInv'
  BY DEF BoundInv, PositionInv
<1>2. ReaskInv'
  BY DEF BoundInv, ReaskInv
<1>3. PaidHere' = PaidHere
  BY DEF PaidHere
<1>4. CountInv'
  BY <1>3 DEF BoundInv, CountInv, FirstNodes
<1> QED
  BY <1>1, <1>2, <1>4 DEF BoundInv

\* A call is paid for again only because an answer was rejected or because a run
\* was killed before its node committed, for any number of re-asks and kills;
\* the first two nodes never pay twice.
THEOREM BoundedCalls == Spec => []CallsBounded
<1>1. Init => BoundInv
  BY PreparationAssumption
     DEF Init, BoundInv, PositionInv, ReaskInv, CountInv, PaidHere, Nothing,
         FirstNodes, PaidNodes
<1>2. MoneyInv /\ BoundInv /\ [Next]_vars => BoundInv'
  <2> SUFFICES ASSUME MoneyInv, BoundInv, [Next]_vars PROVE BoundInv'
    OBVIOUS
  <2> USE PreparationAssumption
  <2>p. PaidNodes \subseteq Nodes /\ {"ask", "approve", "fail"} \subseteq Nodes
    BY DEF Nodes
  <2>t. /\ TypeOK
        /\ graph.reasks \in Nat /\ kills \in Nat /\ calls \in [PaidNodes -> Nat]
    BY DEF MoneyInv, TypeOK, Graph
  <2>g. ASSUME at # "have" PROVE ~got.llm /\ got = Nothing
    BY <2>g DEF MoneyInv, CallsAreClosed, Nothing
  <2>1. ASSUME NEW n \in PaidNodes, Skip(n) \/ Reserve(n) \/ Degrade(n) \/ CallFails(n)
        PROVE  BoundInv'
    BY <2>1, <2>t, <2>g, StayBound
       DEF Skip, Reserve, Degrade, CallFails, On, history
  <2>2. ASSUME NEW n \in PaidNodes, Answer(n) PROVE BoundInv'
    <3>1. /\ graph.next = n /\ at = "open" /\ at' = "have"
          /\ calls' = [calls EXCEPT ![n] = @ + 1]
          /\ UNCHANGED <<session, graph, pending, kills>>
          /\ got'.llm
      BY <2>2 DEF Answer, On, history
    <3>2. PositionInv' /\ ReaskInv'
      BY <3>1 DEF BoundInv, PositionInv, ReaskInv
    <3>3. PaidHere = 0 /\ PaidHere' = 1
      BY <3>1, <2>g DEF PaidHere
    <3>4. CASE n = "parse_brief"
      <4>1. CountInv'
        BY <2>t, <3>1, <3>3, <3>4 DEF BoundInv, CountInv, PaidNodes
      <4> QED
        BY <3>2, <4>1 DEF BoundInv
    <3>5. CASE n = "extract_inventory"
      <4>1. CountInv'
        BY <2>t, <3>1, <3>3, <3>5 DEF BoundInv, CountInv, PaidNodes
      <4> QED
        BY <3>2, <4>1 DEF BoundInv
    <3>6. CASE n = "resolve_constraints"
      <4>1. CountInv'
        BY <2>t, <3>1, <3>3, <3>6 DEF BoundInv, CountInv, PaidNodes
      <4> QED
        BY <3>2, <4>1 DEF BoundInv
    <3>7. CASE n = "plan_steps"
      <4>1. CountInv'
        BY <2>t, <3>1, <3>3, <3>7 DEF BoundInv, CountInv, PaidNodes
      <4> QED
        BY <3>2, <4>1 DEF BoundInv
    <3> QED
      BY <3>4, <3>5, <3>6, <3>7 DEF PaidNodes
  <2>3. CASE Commit
    <3>1. /\ at = "commit" /\ at' = "todo" /\ graph' = pending
          /\ UNCHANGED <<session, pending, got, calls, kills>>
      BY <2>3 DEF Commit, history
    <3>2. PaidHere = 1 /\ PaidHere' = 0
      BY <3>1, <2>g DEF PaidHere
    <3>3. <<graph.next, graph'.next>> \in Edges
      BY <3>1 DEF BoundInv, PositionInv
    <3>4. PositionInv'
      BY <3>1, <3>3, <2>g DEF BoundInv, PositionInv, Edges, FirstNodes
    <3>5. ReaskInv'
      BY <3>1 DEF BoundInv, ReaskInv
    <3>6. /\ graph'.reasks = IF graph'.next = "ask"
                                  /\ graph.next = "resolve_constraints"
                             THEN graph.reasks + 1 ELSE graph.reasks
          /\ graph.reasks <= MaxReasks
      BY <3>1 DEF BoundInv, ReaskInv
    <3>7. CountInv'
      BY <2>t, <3>1, <3>2, <3>3, <3>6 DEF BoundInv, CountInv, Edges, PaidNodes
    <3> QED
      BY <3>4, <3>5, <3>7 DEF BoundInv
  <2>r. graph.reasks <= MaxReasks
    BY DEF BoundInv, ReaskInv
  <2>4. CASE ParseBrief
    <3>1. session'.fsm = session.fsm
      BY <2>4, <2>t DEF ParseBrief, Leave, Charged, TypeOK, Session
    <3>2. pending'.next = "extract_inventory" /\ pending'.reasks = graph.reasks
      BY <2>4, <2>t, <2>p, ToType DEF ParseBrief, Leave, PaidNodes
    <3> QED
      BY <2>4, <2>t, <2>r, <3>1, <3>2, LeaveBound
         DEF ParseBrief, Leave, On, Edges, history
  <2>5. CASE ExtractInventory
    <3>1. session'.fsm = session.fsm
      BY <2>5, <2>t DEF ExtractInventory, Leave, Charged, TypeOK, Session
    <3>2. pending'.next = "ask" /\ pending'.reasks = graph.reasks
      BY <2>5, <2>t, <2>p, ToType DEF ExtractInventory, Leave
    <3> QED
      BY <2>5, <2>t, <2>r, <3>1, <3>2, LeaveBound
         DEF ExtractInventory, Leave, On, Edges, history
  <2>6. CASE AskNobody
    <3>1. /\ To("resolve_constraints") \in Graph
          /\ To("resolve_constraints").next = "resolve_constraints"
          /\ To("resolve_constraints").reasks = graph.reasks
          /\ To("fail").next = "fail" /\ To("fail").reasks = graph.reasks
      BY <2>t, <2>p, ToType DEF PaidNodes
    <3>2. /\ pending'.next \in {"resolve_constraints", "fail"}
          /\ pending'.reasks = graph.reasks
      BY <2>6, <3>1 DEF AskNobody, Leave, Graph
    <3> QED
      BY <2>6, <2>t, <2>r, <3>2, LeaveBound
         DEF AskNobody, Leave, On, Edges, history
  <2>7. CASE AskPauses
    BY <2>7, <2>t, <2>g, StayBound DEF AskPauses, On, FirstNodes, history
  <2>8. CASE AskAnswered
    <3>1. /\ To("resolve_constraints") \in Graph
          /\ To("resolve_constraints").next = "resolve_constraints"
          /\ To("resolve_constraints").reasks = graph.reasks
      BY <2>t, <2>p, ToType DEF PaidNodes
    <3>2. /\ pending'.next = "resolve_constraints"
          /\ pending'.reasks = graph.reasks
      BY <2>8, <3>1 DEF AskAnswered, Leave, Graph
    <3> QED
      BY <2>8, <2>t, <2>r, <3>2, LeaveBound
         DEF AskAnswered, Leave, On, Edges, FirstNodes, history
  <2>9. CASE ResolveAccepts
    <3>1. /\ To("plan_steps") \in Graph
          /\ To("plan_steps").next = "plan_steps"
          /\ To("plan_steps").reasks = graph.reasks
      BY <2>t, <2>p, ToType DEF PaidNodes
    <3>2. pending'.next = "plan_steps" /\ pending'.reasks = graph.reasks
      BY <2>9, <3>1 DEF ResolveAccepts, Leave, Graph
    <3> QED
      BY <2>9, <2>t, <2>r, <3>2, LeaveBound
         DEF ResolveAccepts, Leave, On, Edges, FirstNodes, history
  <2>10. CASE ResolveRejects
    <3>1. /\ To("ask") \in Graph
          /\ To("ask").next = "ask" /\ To("ask").reasks = graph.reasks
          /\ To("fail").next = "fail" /\ To("fail").reasks = graph.reasks
      BY <2>t, <2>p, ToType
    <3>2. \/ pending'.next = "fail" /\ pending'.reasks = graph.reasks
          \/ /\ graph.reasks < MaxReasks
             /\ pending'.next = "ask" /\ pending'.reasks = graph.reasks + 1
      <4> DEFINE again == [To("ask") EXCEPT !.reasks = @ + 1, !.reask = TRUE]
      <4>1. again.next = "ask" /\ again.reasks = graph.reasks + 1
        BY <3>1, AskAgainType
      <4>2. pending' = IF graph.reasks >= MaxReasks THEN To("fail") ELSE again
        BY <2>10 DEF ResolveRejects, Leave
      <4> HIDE DEF again
      <4> QED
        BY <2>t, <3>1, <4>1, <4>2
    <3>3. pending'.reasks <= MaxReasks
      BY <2>t, <2>r, <3>2
    <3> QED
      BY <2>10, <2>t, <3>2, <3>3, LeaveBound
         DEF ResolveRejects, Leave, On, Edges, FirstNodes
  <2>11. CASE ResolveRaises
    BY <2>11, <2>t, StayBound DEF ResolveRaises, On, FirstNodes, history
  <2>12. CASE PlanSteps
    <3>1. pending'.next = "approve" /\ pending'.reasks = graph.reasks
      BY <2>12, <2>t, <2>p, ToType DEF PlanSteps, Leave
    <3> QED
      BY <2>12, <2>t, <2>r, <3>1, LeaveBound
         DEF PlanSteps, Leave, On, Edges, FirstNodes, history
  <2>13. CASE Approve
    BY <2>13, <2>t, <2>g, StayBound DEF Approve, On, FirstNodes, history
  <2>14. CASE Fail
    BY <2>14, <2>t, <2>g, StayBound DEF Fail, On, FirstNodes, history
  <2>15. CASE Kill
    <3>1. /\ at' = "dead" /\ got' = Nothing /\ kills' = kills + 1
          /\ UNCHANGED <<session, graph, pending, calls>>
      BY <2>15 DEF Kill
    <3>2. PositionInv' /\ ReaskInv'
      BY <3>1 DEF BoundInv, PositionInv, ReaskInv, Nothing
    <3>3. PaidHere \in 0..1 /\ PaidHere' = 0
      BY <3>1 DEF PaidHere, Nothing
    <3>4. CountInv'
      BY <2>t, <3>1, <3>3 DEF BoundInv, CountInv, PaidNodes
    <3> QED
      BY <3>2, <3>4 DEF BoundInv
  <2>16. CASE ReEnter
    <3>1. graph.next \notin FirstNodes
      BY <2>16 DEF ReEnter, BoundInv, PositionInv
    <3> QED
      BY <2>16, <2>t, <2>g, <3>1, StayBound DEF ReEnter, history
  <2>17. CASE FaceExpires \/ UNCHANGED vars
    BY <2>17 DEF FaceExpires, vars, history, BoundInv, PositionInv, ReaskInv,
       CountInv, PaidHere
  <2> QED
    BY <2>1, <2>2, <2>3, <2>4, <2>5, <2>6, <2>7, <2>8, <2>9, <2>10, <2>11,
       <2>12, <2>13, <2>14, <2>15, <2>16, <2>17 DEF Next, NodeStep, Connector
<1>3. TypeOK /\ BoundInv => CallsBounded
  <2> SUFFICES ASSUME TypeOK, BoundInv PROVE CallsBounded
    OBVIOUS
  <2>1. graph.reasks \in Nat /\ kills \in Nat /\ calls \in [PaidNodes -> Nat]
    BY DEF TypeOK, Graph
  <2>2. PaidHere \in 0..1 /\ graph.reasks <= MaxReasks
    BY DEF PaidHere, BoundInv, ReaskInv
  <2> QED
    BY <2>1, <2>2, PreparationAssumption
       DEF BoundInv, CountInv, CallsBounded, PaidNodes
<1> QED
  BY <1>1, <1>2, <1>3, TypeCorrect, MoneyInvariant, PTL DEF Spec

=============================================================================
