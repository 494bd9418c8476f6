---------------------------- MODULE ReportDelivery ----------------------------
(***************************************************************************)
(* How the report of a research task reaches the voice session that asked for   *)
(* it. A watcher polls for the report until a deadline, and every notification  *)
(* of the task starts a handler; all of them go through emitSubagentReport, one  *)
(* await after the other, and whoever comes first marks the report as emitted.  *)
(*                                                                         *)
(* Left out: progress messages, the report's contents, and what ends a session. *)
(***************************************************************************)
EXTENDS Naturals

CONSTANT Handlers    \* handlers of notifications

VARIABLES
    report,       \* the row of subagent_reports
    writable,     \* the session is active, and in the generation that asked
    emitted,      \* session.emittedSubagentReports has the task
    delivery,     \* where the watcher and the handlers are
    overdue,      \* the watcher's deadline has passed
    shown         \* how often voice_subagent_report was sent

deliveryVars == <<report, writable, emitted, delivery, overdue, shown>>

Watcher == "watcher"
Deliverers == Handlers \cup {Watcher}

DeliveryInit ==
    /\ report = "none" /\ writable = TRUE /\ emitted = FALSE /\ overdue = FALSE /\ shown = 0
    /\ delivery = [d \in Deliverers |-> "none"]

DeliveryTypeOK ==
    /\ report \in {"none", "stored", "deleted"}
    /\ {writable, emitted, overdue} \subseteq BOOLEAN /\ shown \in Nat
    /\ delivery \in [Deliverers ->
         {"none", "enter", "has", "select", "write", "add", "record", "done", "failed"}]

-----------------------------------------------------------------------------
(* A definition marked "mutant" is a faulty variant of the one after it; no    *)
(* formula uses it.                                                          *)

DeliveryGoes(d, pc) == delivery' = [delivery EXCEPT ![d] = pc]

\* emitSubagentReport returns false: the watcher sleeps and goes round, a
\* handler is done.
NotEmitted(d) == DeliveryGoes(d, IF d = Watcher THEN "enter" ELSE "done")

\* The task is started and, by startVoiceResearchSubagent, watched ...
WatchReport ==
    /\ delivery[Watcher] = "none" /\ DeliveryGoes(Watcher, IF writable THEN "enter" ELSE "done")
    /\ UNCHANGED <<report, writable, emitted, overdue, shown>>

\* ... and a notification of it that is not of progress calls emitSubagentProgress.
Notified(h) ==
    /\ delivery[h] = "none" /\ DeliveryGoes(h, "enter")
    /\ UNCHANGED <<report, writable, emitted, overdue, shown>>

\* The first canWrite. The watcher has looked whether the report is emitted.
EnterDelivery(d) ==
    /\ delivery[d] = "enter"
    /\ DeliveryGoes(d, IF writable /\ ~(d = Watcher /\ emitted) THEN "has" ELSE "done")
    /\ UNCHANGED <<report, writable, emitted, overdue, shown>>

WatcherGivesUp ==
    /\ delivery[Watcher] = "enter" /\ overdue /\ DeliveryGoes(Watcher, "done")
    /\ UNCHANGED <<report, writable, emitted, overdue, shown>>

CheckEmitted(d) ==
    /\ delivery[d] = "has" /\ DeliveryGoes(d, IF emitted THEN "done" ELSE "select")
    /\ UNCHANGED <<report, writable, emitted, overdue, shown>>

\* getOwnedSubagentReport
SelectReport(d) ==
    /\ delivery[d] = "select"
    /\ IF report = "stored" THEN DeliveryGoes(d, "write") ELSE NotEmitted(d)
    /\ UNCHANGED <<report, writable, emitted, overdue, shown>>

CheckWriteMarks(d) ==                                            \* mutant
    /\ delivery[d] = "write" /\ emitted' = TRUE
    /\ IF writable THEN DeliveryGoes(d, "add") ELSE NotEmitted(d)
    /\ UNCHANGED <<report, writable, overdue, shown>>

\* The second canWrite.
CheckWrite(d) ==
    /\ delivery[d] = "write"
    /\ IF writable THEN DeliveryGoes(d, "add") ELSE NotEmitted(d)
    /\ UNCHANGED <<report, writable, emitted, overdue, shown>>

\* The report is marked, whoever marked it meanwhile, then a latency event
\* recorded, whose failure is caught.
MarkEmitted(d) ==
    /\ delivery[d] = "add" /\ emitted' = TRUE /\ DeliveryGoes(d, "record")
    /\ UNCHANGED <<report, writable, overdue, shown>>

ShowReport(d) ==
    /\ delivery[d] = "record" /\ shown' = shown + 1 /\ DeliveryGoes(d, "done")
    /\ UNCHANGED <<report, writable, emitted, overdue>>

\* A SELECT fails. That of the call which would start the watcher is answered with an
\* error; nobody catches the rejection of a watcher or a handler, which ends that one
\* and, as Node treats it by default, the process, with what it remembers.
DeliveryFails(d) ==
    /\ \/ delivery[d] \in {"enter", "select", "write"}
       \/ delivery[d] = "none" /\ d = Watcher
    /\ \E gone \in {{d}, Deliverers} :
         /\ delivery' = [x \in Deliverers |-> IF x \in gone THEN "failed" ELSE delivery[x]]
         /\ emitted' = (emitted /\ gone = {d})
    /\ UNCHANGED <<report, writable, overdue, shown>>

\* The worker stores the report, also of a task that failed.
ReportStored ==
    /\ report = "none" /\ report' = "stored"
    /\ UNCHANGED <<writable, emitted, delivery, overdue, shown>>

\* A barge-in starts another generation, or the session ends; a discard deletes
\* the report.
SessionMovesOn ==
    /\ writable' = FALSE
    /\ report' \in {report, IF report = "stored" THEN "deleted" ELSE report}
    /\ UNCHANGED <<emitted, delivery, overdue, shown>>

DeadlinePasses == overdue' = TRUE /\ UNCHANGED <<report, writable, emitted, delivery, shown>>

-----------------------------------------------------------------------------

DeliveryNext ==
    \/ WatchReport \/ WatcherGivesUp \/ ReportStored \/ SessionMovesOn \/ DeadlinePasses
    \/ \E h \in Handlers : Notified(h)
    \/ \E d \in Deliverers :
         \/ EnterDelivery(d) \/ CheckEmitted(d) \/ SelectReport(d) \/ CheckWrite(d)
         \/ MarkEmitted(d) \/ ShowReport(d) \/ DeliveryFails(d)

-----------------------------------------------------------------------------
(* Properties *)

\* A report marked as emitted, for which everyone else gives up, is shown or about to be,
\* also when another statement of a delivery fails. The watcher leaves a session that goes
\* on only with the report emitted or its deadline passed, unless a statement of its own
\* failed: such a report may never be shown.
ReportsAreShown ==
    /\ emitted => shown > 0 \/ \E d \in Deliverers : delivery[d] = "record"
    /\ delivery[Watcher] = "done" => emitted \/ ~writable \/ overdue
    /\ shown > 0 => report # "none"
=============================================================================
