-------------------------- MODULE ActionProposals --------------------------
(***************************************************************************)
(* Action proposals of one user: proposed, approved or rejected, executed    *)
(* (src/actions), with what an execution changes: the task inbox and a       *)
(* learned skill (src/skills/registry.ts). One step per database statement; a *)
(* call may die at any step.                                                 *)
(*                                                                         *)
(* There is one task and one skill that proposals can refer to. Rows that     *)
(* are only appended for the record (approvals, audit events) are left out.   *)
(***************************************************************************)
EXTENDS FiniteSets

CONSTANTS Proposals, ActionCalls

VARIABLES
    proposals,     \* actionProposals: type and status
    logs,          \* actionExecutionLogs: the statuses recorded for a proposal
    task,          \* taskItems: the task a proposal may accept; closed is dismissed or done
    skill,         \* skills: status of the learned skill
    actionCalls,
    approvedOnce,  \* history: proposals that were approved
    applied,       \* history: proposals whose effect took place
    repeated,      \* history: those whose effect took place again
    mayRepeat,     \* history: those of which two executions overlapped, one died after
                   \* the effect, or an approval was written over a later status
    skillApproved  \* history: the user approved the skill

decisionVars == <<proposals, approvedOnce>>
targetVars == <<task, skill, skillApproved>>
effectVars == <<applied, repeated, mayRepeat>>
actionVars == <<decisionVars, logs, targetVars, actionCalls, effectVars>>

\* propose_reminder also stands for research_watchlist_create, and external for
\* every type that is not safe to execute.
SafeTypes == {"propose_reminder", "create_task_from_commitment", "profile_fact_confirm",
              "skill_enable"}
ProposalStatuses == {"none", "proposed", "approved", "rejected", "executed", "failed"}

Idle == [op |-> "none"]

ActionInit ==
    /\ proposals = [p \in Proposals |-> [type |-> "external", status |-> "none"]]
    /\ logs = [p \in Proposals |-> {}]
    /\ task = "missing" /\ skill = "none" /\ skillApproved = FALSE
    /\ actionCalls = [c \in ActionCalls |-> Idle]
    /\ approvedOnce = {} /\ applied = {} /\ repeated = {} /\ mayRepeat = {}

ActionTypeOK ==
    /\ proposals \in [Proposals -> [type : SafeTypes \cup {"external"}, status : ProposalStatuses]]
    /\ logs \in [Proposals -> SUBSET {"completed", "failed", "blocked"}]
    /\ task \in {"missing", "proposed", "accepted", "closed"}
    /\ skill \in {"none", "proposed", "approved", "enabled", "disabled"}
    /\ approvedOnce \cup applied \cup repeated \cup mayRepeat \subseteq Proposals

-----------------------------------------------------------------------------
(* Pieces of the handlers. A definition marked "mutant" is a faulty variant of *)
(* the one after it; no formula uses it.                                      *)

StartAction(c, call) == actionCalls[c] = Idle /\ actionCalls' = [actionCalls EXCEPT ![c] = call]
ActionAt(c, pc) == actionCalls[c] # Idle /\ actionCalls[c].pc = pc
ActionGo(c, pc) == actionCalls' = [actionCalls EXCEPT ![c].pc = pc]
EndAction(c) == actionCalls' = [actionCalls EXCEPT ![c] = Idle]

ExecutionsOf(p) == {c \in ActionCalls : actionCalls[c].op = "execute" /\ actionCalls[c].proposal = p}

Disturb(p, condition) == mayRepeat' = IF condition THEN mayRepeat \cup {p} ELSE mayRepeat

\* The effect of an execution took place; a route of its own just answers.
EffectDone(c) ==
    IF actionCalls[c].op = "execute"
    THEN /\ ActionGo(c, "log") /\ applied' = applied \cup {actionCalls[c].proposal}
         /\ repeated' = repeated \cup ({actionCalls[c].proposal} \cap applied)
         /\ UNCHANGED mayRepeat
    ELSE EndAction(c) /\ UNCHANGED effectVars

-----------------------------------------------------------------------------
(* Proposals and decisions. *)

\* createActionProposal: a payload the policy refuses is stored as rejected.
Propose(p, type, allowed) ==
    /\ proposals[p].status = "none"
    /\ proposals' = [proposals EXCEPT
         ![p] = [type |-> type, status |-> IF allowed THEN "proposed" ELSE "rejected"]]
    /\ UNCHANGED <<approvedOnce, logs, targetVars, actionCalls, effectVars>>

\* decideActionProposal reads the status, and then updates by id.
StartDecide(c, p, decision) ==
    /\ proposals[p].status \in
         IF decision = "approved" THEN {"proposed", "approved"}
         ELSE ProposalStatuses \ {"none", "executed"}
    /\ StartAction(c, [op |-> "decide", pc |-> "decide", proposal |-> p, decision |-> decision])
    /\ UNCHANGED <<decisionVars, logs, targetVars, effectVars>>

DecideProposal(c) ==
    LET p == actionCalls[c].proposal IN
    /\ ActionAt(c, "decide")
    /\ proposals' = [proposals EXCEPT ![p].status = actionCalls[c].decision]
    /\ approvedOnce' = IF actionCalls[c].decision = "approved"
                       THEN approvedOnce \cup {p} ELSE approvedOnce
    /\ Disturb(p, /\ actionCalls[c].decision = "approved"
                  /\ proposals[p].status \notin {"proposed", "approved"})
    /\ EndAction(c)
    /\ UNCHANGED <<logs, targetVars, applied, repeated>>

-----------------------------------------------------------------------------
(* executeActionProposal. *)

StartExecuteAgain(c, p) ==                                       \* mutant
    /\ proposals[p].status \in {"approved", "executed"}
    /\ StartAction(c, [op |-> "execute", proposal |-> p,
         pc |-> IF proposals[p].type \in SafeTypes THEN "effect" ELSE "block"])
    /\ Disturb(p, ExecutionsOf(p) # {})
    /\ UNCHANGED <<decisionVars, logs, targetVars, applied, repeated>>

StartExecute(c, p) ==
    /\ proposals[p].status = "approved"
    /\ StartAction(c, [op |-> "execute", proposal |-> p,
         pc |-> IF proposals[p].type \in SafeTypes THEN "effect" ELSE "block"])
    /\ Disturb(p, ExecutionsOf(p) # {})
    /\ UNCHANGED <<decisionVars, logs, targetVars, applied, repeated>>

ExecutingType(c, type) ==
    ActionAt(c, "effect") /\ proposals[actionCalls[c].proposal].type = type

\* A reminder is a new task; confirming a fact is the update of the fact.
InsertTaskOrConfirmFact(c) ==
    /\ ExecutingType(c, "propose_reminder") \/ ExecutingType(c, "profile_fact_confirm")
    /\ EffectDone(c)
    /\ UNCHANGED <<decisionVars, logs, targetVars>>

\* updateTaskStatus sets the status whatever it was; no row is an error.
AcceptTask(c) ==
    /\ ExecutingType(c, "create_task_from_commitment") /\ task # "missing"
    /\ task' = "accepted"
    /\ EffectDone(c)
    /\ UNCHANGED <<decisionVars, logs, skill, skillApproved>>

TaskNotFound(c) ==
    /\ ExecutingType(c, "create_task_from_commitment") /\ task = "missing"
    /\ ActionGo(c, "logFailed")
    /\ UNCHANGED <<decisionVars, logs, targetVars, effectVars>>

ExecuteSkill(c) ==
    /\ ExecutingType(c, "skill_enable")
    /\ ActionGo(c, IF skill = "none" THEN "logFailed" ELSE "skill")
    /\ UNCHANGED <<decisionVars, logs, targetVars, effectVars>>

Log(c, pc, status, next) ==
    /\ ActionAt(c, pc)
    /\ logs' = [logs EXCEPT ![actionCalls[c].proposal] = @ \cup {status}]
    /\ ActionGo(c, next)
    /\ UNCHANGED <<decisionVars, targetVars, effectVars>>

LogBlocked(c) == Log(c, "block", "blocked", "markFailed")
LogFailed(c) == Log(c, "logFailed", "failed", "markFailed")
LogCompleted(c) == Log(c, "log", "completed", "markExecuted")

Mark(c, pc, status) ==
    /\ ActionAt(c, pc)
    /\ proposals' = [proposals EXCEPT ![actionCalls[c].proposal].status = status]
    /\ EndAction(c)
    /\ UNCHANGED <<approvedOnce, logs, targetVars, effectVars>>

MarkFailed(c) == Mark(c, "markFailed", "failed")
MarkExecuted(c) == Mark(c, "markExecuted", "executed")

\* A statement of the try block is rejected: the catch records a failure.
ExecutionThrows(c) ==
    /\ actionCalls[c].op = "execute"
    /\ actionCalls[c].pc \in {"effect", "skill", "enable", "log", "markExecuted"}
    /\ ActionGo(c, "logFailed")
    /\ UNCHANGED <<decisionVars, logs, targetVars, effectVars>>

-----------------------------------------------------------------------------
(* The task and the skill through their own routes. *)

ProposeTask ==
    /\ task = "missing"
    /\ task' = "proposed"
    /\ UNCHANGED <<decisionVars, logs, skill, skillApproved, actionCalls, effectVars>>

UpdateTaskStatus(s) ==
    /\ task # "missing"
    /\ task' = s
    /\ UNCHANGED <<decisionVars, logs, skill, skillApproved, actionCalls, effectVars>>

CreateProposedSkill ==
    /\ skill = "none"
    /\ skill' = "proposed"
    /\ UNCHANGED <<decisionVars, logs, task, skillApproved, actionCalls, effectVars>>

ApproveSkill ==
    /\ skill # "none"
    /\ skill' = "approved" /\ skillApproved' = TRUE
    /\ UNCHANGED <<decisionVars, logs, task, actionCalls, effectVars>>

DisableSkill ==
    /\ skill # "none"
    /\ skill' = "disabled"
    /\ UNCHANGED <<decisionVars, logs, task, skillApproved, actionCalls, effectVars>>

StartEnableSkill(c) ==
    /\ skill # "none"
    /\ StartAction(c, [op |-> "route", pc |-> "skill"])
    /\ UNCHANGED <<decisionVars, logs, targetVars, effectVars>>

\* enableSkill answers null for a skill that is not approved; an execution takes
\* that for a result.
ReadSkill(c) ==
    /\ ActionAt(c, "skill")
    /\ IF skill \in {"approved", "enabled"} THEN ActionGo(c, "enable")
       ELSE IF actionCalls[c].op = "execute" THEN ActionGo(c, "log") ELSE EndAction(c)
    /\ UNCHANGED <<decisionVars, logs, targetVars, effectVars>>

WriteSkill(c) ==
    /\ ActionAt(c, "enable")
    /\ skill' = "enabled"
    /\ EffectDone(c)
    /\ UNCHANGED <<decisionVars, logs, task, skillApproved>>

-----------------------------------------------------------------------------
ActionCallDies(c) ==
    LET call == actionCalls[c] IN
    /\ call # Idle
    /\ IF call.op = "execute" THEN Disturb(call.proposal, call.proposal \in applied)
       ELSE UNCHANGED mayRepeat
    /\ EndAction(c)
    /\ UNCHANGED <<decisionVars, logs, targetVars, applied, repeated>>

ActionNext ==
    \/ \E p \in Proposals, type \in SafeTypes \cup {"external"}, allowed \in BOOLEAN :
         Propose(p, type, allowed)
    \/ \E s \in {"accepted", "closed"} : UpdateTaskStatus(s)
    \/ ProposeTask \/ CreateProposedSkill \/ ApproveSkill \/ DisableSkill
    \/ \E c \in ActionCalls, p \in Proposals :
         \/ \E d \in {"approved", "rejected"} : StartDecide(c, p, d)
         \/ StartExecute(c, p)
    \/ \E c \in ActionCalls :
         \/ DecideProposal(c) \/ InsertTaskOrConfirmFact(c) \/ AcceptTask(c) \/ TaskNotFound(c)
         \/ ExecuteSkill(c) \/ LogBlocked(c) \/ LogFailed(c)
         \/ LogCompleted(c) \/ MarkFailed(c) \/ MarkExecuted(c) \/ ExecutionThrows(c)
         \/ StartEnableSkill(c) \/ ReadSkill(c) \/ WriteSkill(c) \/ ActionCallDies(c)

ActionSpec == ActionInit /\ [][ActionNext]_actionVars

-----------------------------------------------------------------------------
(* Properties. *)

\* A proposal marked executed has an execution log, which has an effect behind
\* it, which has an approval behind it, and an external action has no effect at
\* all: although approvals, rejections and executions of one proposal overwrite
\* each other's status (executor.ts, approval.ts). The exception is a skill that
\* was not approved: its execution is logged with nothing done.
ExecutedIsBacked ==
    \A p \in Proposals :
      /\ proposals[p].status = "executed" => "completed" \in logs[p]
      /\ "completed" \in logs[p] =>
           p \in approvedOnce /\ (p \in applied \/ proposals[p].type = "skill_enable")
      /\ p \in applied => p \in approvedOnce /\ proposals[p].type # "external"

\* A learned skill is enabled only if the user approved it, whether it is enabled
\* by its route or by executing a proposal, and however these overlap with
\* disabling it (enableSkill; README: "user approval is required before enablement").
EnabledWasApproved == skill = "enabled" => skillApproved

\* The effect of a proposal takes place a second time only when two executions of it
\* overlapped, one died between the effect and its mark, or an approval that was under
\* way overwrote a rejection or the mark: executions one after the other, and those
\* that fail, do not repeat it (executeActionProposal, decideActionProposal).
EffectNotRepeated == repeated \subseteq mayRepeat

\* No effect, log, mark or skill without the approval it needs, and none twice but in
\* the races named.
ActionsAreApproved == ExecutedIsBacked /\ EnabledWasApproved /\ EffectNotRepeated
=============================================================================
