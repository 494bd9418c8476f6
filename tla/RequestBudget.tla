--------------------------- MODULE RequestBudget ---------------------------
(***************************************************************************)
(* The daily budgets of one user (src/governor/budget.ts): a call counts the  *)
(* requests recorded today, asks the provider, and then records its request.  *)
(* A record is counted under a budget by a pattern on its operation's name, so *)
(* the search for investors (src/outreach/investor-research.ts), whose         *)
(* operation has no "research" in its name, is checked and never counted.      *)
(*                                                                         *)
(* Left out: what is asked, and a request the provider rejects, which is not    *)
(* recorded. Calls without a user, which are neither checked nor counted.      *)
(***************************************************************************)
EXTENDS Naturals, FiniteSets

CONSTANTS
    DailyLimit,    \* GOVERNOR_DAILY_..._REQUEST_LIMIT, the same for both
    BudgetCalls,   \* calls that run at the same time
    MaxRequests    \* bound of the requests of a day

ASSUME BudgetAssumption ==
    DailyLimit \in Nat \ {0} /\ MaxRequests \in Nat /\ IsFiniteSet(BudgetCalls)

VARIABLES
    recorded,      \* per budget, the records of today that its count sees
    budgetCalls    \* what each call does

budgetVars == <<recorded, budgetCalls>>

Budgets == {"llm", "research"}
Operations == {"voice_agent.complete_text", "research.search", "outreach.investor_search"}
BudgetOf(op) == IF op = "voice_agent.complete_text" THEN "llm" ELSE "research"

\* The ILIKE patterns of usageCountForUserTodayByOperation.
Counted(op) == op # "outreach.investor_search"

NoBudgetCall == [pc |-> "none"]
NoRequests == [b \in Budgets |-> 0]

BudgetInit ==
    /\ recorded = NoRequests
    /\ budgetCalls = [c \in BudgetCalls |-> NoBudgetCall]

BudgetTypeOK ==
    /\ recorded \in [Budgets -> 0..MaxRequests]
    /\ budgetCalls \in [BudgetCalls ->
         {NoBudgetCall} \cup [pc : {"request", "record"}, op : Operations]]

-----------------------------------------------------------------------------
(* A definition marked "mutant" is a faulty variant of the one after it; no    *)
(* formula uses it.                                                          *)

BudgetExceededPastLimit(b) == recorded[b] > DailyLimit           \* mutant

BudgetExceeded(b) == recorded[b] >= DailyLimit

\* assertGovernorBudgetAvailable
StartRequest(c, op) ==
    /\ budgetCalls[c] = NoBudgetCall
    /\ ~BudgetExceeded(BudgetOf(op))
    /\ budgetCalls' = [budgetCalls EXCEPT ![c] = [pc |-> "request", op |-> op]]
    /\ UNCHANGED recorded

InStep(c, pc) == budgetCalls[c].pc = pc
EndRequest(c) == budgetCalls' = [budgetCalls EXCEPT ![c] = NoBudgetCall]

ProviderAnswers(c) ==
    /\ InStep(c, "request")
    /\ budgetCalls' = [budgetCalls EXCEPT ![c].pc = "record"]
    /\ UNCHANGED recorded

ProviderRejects(c) ==
    /\ InStep(c, "request") /\ EndRequest(c)
    /\ UNCHANGED recorded

RecordUsage(c) ==
    /\ InStep(c, "record")
    /\ LET op == budgetCalls[c].op  b == BudgetOf(op) IN
         /\ recorded[b] < MaxRequests             \* bound
         /\ recorded' = [recorded EXCEPT ![b] = @ + IF Counted(op) THEN 1 ELSE 0]
    /\ EndRequest(c)

\* The error of the INSERT is ignored.
RecordFails(c) ==
    /\ InStep(c, "record") /\ EndRequest(c)
    /\ UNCHANGED recorded

\* The window of the count is the UTC day of the INSERT.
Midnight ==
    /\ recorded # NoRequests /\ recorded' = NoRequests
    /\ UNCHANGED budgetCalls

BudgetNext ==
    \/ \E c \in BudgetCalls, op \in Operations : StartRequest(c, op)
    \/ \E c \in BudgetCalls : \/ ProviderAnswers(c) \/ ProviderRejects(c)
                              \/ RecordUsage(c) \/ RecordFails(c)
    \/ Midnight

BudgetSpec == BudgetInit /\ [][BudgetNext]_budgetVars

-----------------------------------------------------------------------------
(* Properties *)

\* The count is read before the provider is asked and written after: calls that
\* run at the same time take a budget past its limit, but by no more than one
\* request for each of them but one, whatever is asked around midnight.
OvershootBounded == \A b \in Budgets :
    recorded[b] <= DailyLimit - 1 + Cardinality(BudgetCalls)
=============================================================================
