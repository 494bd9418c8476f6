----------------------------- MODULE DayDigest -----------------------------
(***************************************************************************)
(* The daily brief and the weekly review of one user (src/daily): a call reads  *)
(* the tasks, marks the digests of the period stale and inserts a new one, in    *)
(* three awaits. Calls come from HTTP, from a worker and from the voice agent,   *)
(* and overlap. The brief of a day and the review of a week are made alike.     *)
(*                                                                         *)
(* Left out: the sections and their ranking, and the feedback to a brief. A     *)
(* digest keeps of what it read the version of the tasks.                     *)
(***************************************************************************)
EXTENDS Naturals, Sequences, FiniteSets

CONSTANTS
    DigestCalls,    \* calls that run at the same time
    MaxDigests,     \* digests ever inserted (bound)
    MaxVersion      \* changes of the tasks (bound)

ASSUME DigestAssumption == MaxDigests \in Nat /\ MaxVersion \in Nat

Periods == {"day", "week"}

VARIABLES
    version,        \* the tasks, as counted changes
    digests,        \* dailyBriefs and weeklyReviews in insertion order; "after" is
                    \* history: how many there were when the call began
    digestCalls,    \* what each call does
    digestCut       \* history: periods of a call that was cut after its mark

digestVars == <<version, digests, digestCalls, digestCut>>

NoDigest == [pc |-> "none"]

DigestInit ==
    /\ version = 0 /\ digests = <<>>
    /\ digestCalls = [c \in DigestCalls |-> NoDigest]
    /\ digestCut = {}

DigestTypeOK ==
    /\ version \in 0..MaxVersion
    /\ digests \in Seq([period : Periods, read : 0..MaxVersion, after : Nat, stale : BOOLEAN])
    /\ digestCalls \in [DigestCalls -> {NoDigest}
         \cup [pc : {"mark", "insert"}, period : Periods, read : 0..MaxVersion, after : Nat]]
    /\ digestCut \subseteq Periods

-----------------------------------------------------------------------------
(* A definition marked "mutant" is a faulty variant of the one after it; no    *)
(* formula uses it.                                                          *)

DigestAt(c, pc) == digestCalls[c].pc = pc
DigestGo(c, call) == digestCalls' = [digestCalls EXCEPT ![c] = call]
Making(p) == {c \in DigestCalls : digestCalls[c] # NoDigest /\ digestCalls[c].period = p}

TasksChange ==
    /\ version < MaxVersion /\ version' = version + 1
    /\ UNCHANGED <<digests, digestCalls, digestCut>>

\* buildDailyBriefDraft, buildWeeklyReviewDraft: what is read, in one Promise.all.
BuildDraft(c, p) ==
    /\ digestCalls[c] = NoDigest
    /\ DigestGo(c, [pc |-> "mark", period |-> p, read |-> version, after |-> Len(digests)])
    /\ UNCHANGED <<version, digests, digestCut>>

MarkStaleAll(c) ==                                               \* mutant
    /\ DigestAt(c, "mark")
    /\ digests' = [i \in DOMAIN digests |-> [digests[i] EXCEPT !.stale = TRUE]]
    /\ DigestGo(c, [digestCalls[c] EXCEPT !.pc = "insert"])
    /\ UNCHANGED <<version, digestCut>>

MarkStale(c) ==
    /\ DigestAt(c, "mark")
    /\ digests' = [i \in DOMAIN digests |->
         IF digests[i].period = digestCalls[c].period
         THEN [digests[i] EXCEPT !.stale = TRUE] ELSE digests[i]]
    /\ DigestGo(c, [digestCalls[c] EXCEPT !.pc = "insert"])
    /\ UNCHANGED <<version, digestCut>>

InsertDigest(c) ==
    /\ DigestAt(c, "insert") /\ Len(digests) < MaxDigests
    /\ LET made == digestCalls[c] IN digests' = Append(digests,
         [period |-> made.period, read |-> made.read, after |-> made.after, stale |-> FALSE])
    /\ digestCut' = digestCut \ {digestCalls[c].period}
    /\ DigestGo(c, NoDigest)
    /\ UNCHANGED version

\* getTodayBrief, getLatestWeeklyReview: the newest that is not stale.
Latest(p) ==
    LET current == {i \in DOMAIN digests : digests[i].period = p /\ ~digests[i].stale}
    IN IF current = {} THEN 0 ELSE CHOOSE i \in current : \A j \in current : j <= i

\* A statement fails or the process dies.
DigestFails(c) ==
    /\ digestCalls[c] # NoDigest
    /\ digestCut' = IF DigestAt(c, "insert") THEN digestCut \cup {digestCalls[c].period}
                    ELSE digestCut
    /\ DigestGo(c, NoDigest)
    /\ UNCHANGED <<version, digests>>

DigestNext ==
    \/ TasksChange
    \/ \E c \in DigestCalls :
         \/ \E p \in Periods : BuildDraft(c, p)
         \/ MarkStale(c) \/ InsertDigest(c) \/ DigestFails(c)

DigestSpec == DigestInit /\ [][DigestNext]_digestVars

-----------------------------------------------------------------------------
(* Properties *)

\* A period that had a digest shows its newest, unless a call is between its two
\* statements or was cut there, which shows none. A digest that was there when the call
\* of another began is stale and read no later tasks: two that are current, and a newest
\* of earlier tasks, are of calls that overlapped (generateDailyBrief,
\* generateWeeklyReview).
DigestIsCurrent == \A p \in Periods :
    LET of == {i \in DOMAIN digests : digests[i].period = p}
    IN /\ \/ of = {} \/ p \in digestCut \/ \E c \in Making(p) : DigestAt(c, "insert")
          \/ Latest(p) \in of /\ \A i \in of : i <= Latest(p)
       /\ \A i, j \in of : i <= digests[j].after =>
            digests[i].stale /\ digests[i].read <= digests[j].read
=============================================================================
