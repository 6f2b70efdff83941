------------------------------- MODULE Budget -------------------------------
(***************************************************************************)
(* The per-session dollar budget: services/budget.py on top of the Lua     *)
(* scripts of utils/lua.py, which Redis runs one at a time.                *)
(*                                                                         *)
(* Every paid call (an image generation, or one of the auxiliary LLM       *)
(* calls) reserves a padded estimate before it is sent, and afterwards     *)
(* settles the reservation to what the provider reported, keeps the        *)
(* estimate when nothing was reported, or cancels it.  A caller that is    *)
(* killed in between (process death, wall clock, task cancellation) never  *)
(* closes its reservation.                                                 *)
(*                                                                         *)
(* Amounts are micro-USD, the integer grid of utils/money.py.              *)
(***************************************************************************)
EXTENDS Integers

CONSTANTS
    Callers,    \* the coroutines that may hold a reservation at the same time
    Limit,      \* SessionState.budget_limit
    Estimates,  \* the padded estimates pricing.py hands out
    Costs       \* the costs the provider may report in usage.cost

ASSUME BudgetAssumption ==
    /\ Limit \in Nat
    /\ Estimates \subseteq Nat \ {0}
    /\ Costs \subseteq Nat

VARIABLES
    used,       \* the counter in Redis
    hold,       \* caller -> estimate of its open reservation, 0 when it has none
    settled,    \* history: the sum of what settle() returned
    overrun,    \* history: by how much settled costs exceeded their estimates
    stuck       \* history: estimates of reservations nobody will ever close

budgetVars == <<used, hold, settled, overrun, stuck>>

-----------------------------------------------------------------------------
\* Mutant: the estimate is left out of the comparison.
FitsNow(counter, estimate) == counter <= Limit

\* BUDGET_RESERVE's comparison: the estimate is refused iff it would not fit.
Fits(counter, estimate) == counter + estimate <= Limit

\* BUDGET_ADJUST: the counter never goes below zero.
Adjust(counter, delta) == IF counter + delta < 0 THEN 0 ELSE counter + delta

\* How much of a settled cost was not covered by its estimate.
Excess(estimate, cost) == IF cost > estimate THEN cost - estimate ELSE 0

-----------------------------------------------------------------------------
Init ==
    /\ used = 0
    /\ hold = [c \in Callers |-> 0]
    /\ settled = 0
    /\ overrun = 0
    /\ stuck = 0

\* _Meter.reserve: compare and increment in one script.  A refused reservation
\* changes nothing, so it is not a step of this module.
Reserve(c) ==
    /\ hold[c] = 0
    /\ \E estimate \in Estimates :
        /\ Fits(used, estimate)
        /\ used' = used + estimate
        /\ hold' = [hold EXCEPT ![c] = estimate]
    /\ UNCHANGED <<settled, overrun, stuck>>

\* _Reservation.settle(actual_cost): move the counter by the difference.
Settle(c) ==
    /\ hold[c] > 0
    /\ \E cost \in Costs :
        /\ used' = Adjust(used, cost - hold[c])
        /\ settled' = settled + cost
        /\ overrun' = overrun + Excess(hold[c], cost)
    /\ hold' = [hold EXCEPT ![c] = 0]
    /\ UNCHANGED stuck

\* Mutant: an unreported cost is taken for no cost.
SettleAsFree(c) ==
    /\ hold[c] > 0
    /\ used' = Adjust(used, -hold[c])
    /\ settled' = settled + hold[c]
    /\ hold' = [hold EXCEPT ![c] = 0]
    /\ UNCHANGED <<overrun, stuck>>

\* _Reservation.settle(None): charged, cost unknown, the estimate stands.
SettleUnreported(c) ==
    /\ hold[c] > 0
    /\ settled' = settled + hold[c]
    /\ hold' = [hold EXCEPT ![c] = 0]
    /\ UNCHANGED <<used, overrun, stuck>>

\* _Reservation.cancel: refund the estimate.
Cancel(c) ==
    /\ hold[c] > 0
    /\ used' = Adjust(used, -hold[c])
    /\ hold' = [hold EXCEPT ![c] = 0]
    /\ UNCHANGED <<settled, overrun, stuck>>

\* The caller dies with its reservation open: CancelledError is no Exception,
\* so no handler of the code closes it, and the counter keeps the estimate.
Abandon(c) ==
    /\ hold[c] > 0
    /\ stuck' = stuck + hold[c]
    /\ hold' = [hold EXCEPT ![c] = 0]
    /\ UNCHANGED <<used, settled, overrun>>

Next ==
    \E c \in Callers :
        \/ Reserve(c)
        \/ Settle(c)
        \/ SettleUnreported(c)
        \/ Cancel(c)
        \/ Abandon(c)

Spec == Init /\ [][Next]_budgetVars

-----------------------------------------------------------------------------
TypeOK ==
    /\ used \in Nat
    /\ hold \in [Callers -> Nat]
    /\ settled \in Nat
    /\ overrun \in Nat
    /\ stuck \in Nat

\* However reservations of concurrent callers interleave, the counter passes
\* the limit only by what settled costs exceeded their own estimates: two
\* reservations never both take the last of the budget (utils/lua.py).
NoOverdraft == used <= Limit + overrun

=============================================================================
