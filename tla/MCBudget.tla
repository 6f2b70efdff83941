------------------------------ MODULE MCBudget ------------------------------
(***************************************************************************)
(* Model values for Budget, and the ledger equation that sums over the     *)
(* callers.                                                                *)
(***************************************************************************)
EXTENDS Budget, FiniteSets, Folds, TLC

ASSUME CallersAssumption == IsFiniteSet(Callers)

\* The estimates of all open reservations together.
Total(h) == MapThenFoldSet(+, 0, LAMBDA c : h[c],
                           LAMBDA S : CHOOSE c \in S : TRUE, Callers)

Held == Total(hold)

\* The counter is exactly what was settled, plus what is held open, plus what
\* killed callers left behind: no refund and no settlement of one caller eats
\* into another's, and the floor of BUDGET_ADJUST never hides money.
LedgerBalances == used = settled + Held + stuck

CallerSymmetry == Permutations(Callers)
=============================================================================
