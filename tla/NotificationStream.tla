-------------------------- MODULE NotificationStream --------------------------
(***************************************************************************)
(* GET /sessions/:id/subagents/stream (src/server.ts): every second a tick reads  *)
(* the notifications after a cursor, first rows first, sends those of the       *)
(* session and moves the cursor to the last one sent. The next tick does not     *)
(* wait for a slow one. createdAt comes back from the database in whole          *)
(* milliseconds, so a row of the cursor's millisecond is after it. The column     *)
(* defaults to the start of the insert, and the row can be read once that commits: *)
(* the rows are numbered as they were stamped.                                *)
(*                                                                         *)
(* Left out: the task filter, which is part of the SELECT, and keep-alives.     *)
(***************************************************************************)
EXTENDS Naturals, Sequences, FiniteSets

CONSTANTS
    Ticks,               \* ticks that may be under way
    MaxNotifications,    \* rows there may be
    StreamLimit          \* rows of one read (100)

ASSUME StreamAssumption == StreamLimit \in Nat

VARIABLES
    notifications,    \* subagent_notifications: each row's stamp, whose it is, whether it committed
    now,              \* the millisecond
    since,            \* the cursor
    reads,            \* what each tick has read
    sent,             \* history: rows that were sent
    outrun            \* history: rows not committed when a tick read one stamped after them

streamVars == <<notifications, now, since, reads, sent, outrun>>

Rows == DOMAIN notifications
NotReading == [pc |-> "none"]

StreamInit ==
    /\ notifications = <<>> /\ now = 1 /\ since = 0
    /\ reads = [t \in Ticks |-> NotReading] /\ sent = {} /\ outrun = {}

StreamTypeOK ==
    /\ notifications \in Seq([at : Nat, own : BOOLEAN, committed : BOOLEAN])
    /\ now \in Nat /\ since \in 0..now /\ sent \cup outrun \subseteq Rows
    /\ \A t \in Ticks : reads[t] # NotReading => reads[t].rows \subseteq Rows

-----------------------------------------------------------------------------
(* A definition marked "mutant" is a faulty variant of the one after it; no    *)
(* formula uses it.                                                          *)

\* createSubagentNotification: its insert starts, which stamps the row ...
Notify(own) ==
    /\ Len(notifications) < MaxNotifications
    /\ notifications' = Append(notifications, [at |-> now, own |-> own, committed |-> FALSE])
    /\ UNCHANGED <<now, since, reads, sent, outrun>>

\* ... and commits, after those of other tasks that were stamped later, it may be.
CommitNotify(i) ==
    /\ ~notifications[i].committed
    /\ notifications' = [notifications EXCEPT ![i].committed = TRUE]
    /\ UNCHANGED <<now, since, reads, sent, outrun>>

TimePasses ==
    /\ now <= MaxNotifications /\ now' = now + 1
    /\ UNCHANGED <<notifications, since, reads, sent, outrun>>

\* listSubagentNotifications: the first rows after the cursor.
After(cursor) ==
    LET after == {i \in Rows : notifications[i].committed /\ notifications[i].at >= cursor} IN
    {i \in after : Cardinality({j \in after : j < i}) < StreamLimit}

StartTick(t) ==
    /\ reads[t] = NotReading
    /\ reads' = [reads EXCEPT ![t] = [pc |-> "read", rows |-> After(since)]]
    /\ outrun' = outrun \cup
         {i \in Rows : ~notifications[i].committed /\ \E j \in After(since) : i < j}
    /\ UNCHANGED <<notifications, now, since, sent>>

SendRowsSinceNow(t) ==                                           \* mutant
    /\ reads[t] # NotReading /\ reads' = [reads EXCEPT ![t] = NotReading]
    /\ sent' = sent \cup {i \in reads[t].rows : notifications[i].own}
    /\ since' = now
    /\ UNCHANGED <<notifications, now, outrun>>

\* The rows of another session are skipped, and do not move the cursor.
SendRows(t) ==
    /\ reads[t] # NotReading /\ reads' = [reads EXCEPT ![t] = NotReading]
    /\ LET own == {i \in reads[t].rows : notifications[i].own} IN
         /\ sent' = sent \cup own
         /\ since' = IF own = {} THEN since
                     ELSE notifications[CHOOSE i \in own : \A j \in own : j <= i].at
    /\ UNCHANGED <<notifications, now, outrun>>

\* The SELECT of a tick fails: an event says so.
TickFails(t) ==
    /\ reads[t] # NotReading /\ reads' = [reads EXCEPT ![t] = NotReading]
    /\ UNCHANGED <<notifications, now, since, sent, outrun>>

-----------------------------------------------------------------------------

StreamNext ==
    \/ \E own \in BOOLEAN : Notify(own)
    \/ \E i \in Rows : CommitNotify(i)
    \/ TimePasses
    \/ \E t \in Ticks : StartTick(t) \/ SendRows(t) \/ TickFails(t)

-----------------------------------------------------------------------------
(* Properties *)

\* The cursor passes no notification of the session that was not sent, however the ticks
\* overlap and whatever the other sessions' rows, unless the row's insert was still under
\* way while a tick read a row stamped after it: that one may never be sent.
StreamPassesNothing == \A i \in Rows :
    notifications[i].own /\ notifications[i].at < since => i \in sent \cup outrun
=============================================================================
