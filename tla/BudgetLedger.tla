------------------------------ MODULE BudgetLedger ------------------------------
(***************************************************************************)
(* What the budget service promises about one origin, without cache,       *)
(* chunks or database: operations are paid for out of what engagement has  *)
(* earned, and only operations that were paid for are performed, whatever  *)
(* fails and however often the browser restarts (budget_service.mojom, as  *)
(* budget_manager.h and budget_database.h describe it).                    *)
(***************************************************************************)
EXTENDS Naturals

CONSTANTS
    OperationCost,  \* GetCost(SILENT_PUSH)
    InitialHours,   \* the hours an origin is granted at first: kBudgetDurationInDays
    HourlyMaximum   \* kMaximumHourlyBudget: what a fully engaged origin earns

VARIABLES
    now,      \* hours since the origin was first seen
    paid,     \* operations the origin was told it had paid for
    consumed  \* operations performed

ledgerVars == <<now, paid, consumed>>

Earned == HourlyMaximum * (InitialHours + now)

LedgerInit == now = 0 /\ paid = 0 /\ consumed = 0

Earn == now' = now + 1 /\ UNCHANGED <<paid, consumed>>

\* Reserve succeeds: an operation is paid for and not performed yet.
Reserve ==
    /\ OperationCost * (paid + 1) <= Earned
    /\ paid' = paid + 1
    /\ UNCHANGED <<now, consumed>>

\* Consume succeeds on a reservation ...
ConsumeReserved ==
    /\ consumed < paid
    /\ consumed' = consumed + 1
    /\ UNCHANGED <<now, paid>>

\* ... or pays for itself.
ConsumeDirectly ==
    /\ OperationCost * (paid + 1) <= Earned
    /\ paid' = paid + 1
    /\ consumed' = consumed + 1
    /\ UNCHANGED now

LedgerNext == Earn \/ Reserve \/ ConsumeReserved \/ ConsumeDirectly

LedgerSpec == LedgerInit /\ [][LedgerNext]_ledgerVars
=============================================================================
