----------------------------- MODULE MobileFeed -----------------------------
(***************************************************************************)
(* The cursor feed a mobile client polls (mobileSync in src/mobile/          *)
(* notifications.ts): ten sources are read at once, each by a SELECT of its   *)
(* own, their rows merged by time, cut to a page, and the time of the page's  *)
(* last row is the next cursor.                                             *)
(*                                                                         *)
(* A tick is half a millisecond: the database stamps a row with the tick, a   *)
(* date made by the program and a cursor are whole milliseconds. A row may    *)
(* become visible one tick after its stamp. Rows of equal time come in any    *)
(* order. "created" is a source of rows that keep their stamp, "changed" one  *)
(* whose stamp moves with each update, "latest" one that is cut to its newest  *)
(* rows (storage and account events), and "plan" the user's plan, which is in  *)
(* every page. Relay messages, which are cut before those of other users are  *)
(* filtered out, are left out.                                              *)
(***************************************************************************)
EXTENDS Naturals, FiniteSets, Sequences

CONSTANTS
    MaxPage,       \* the largest limit a client asks for
    MaxFeedRows,   \* bound of the rows of all sources
    MaxTick        \* bound of the clock

ASSUME FeedAssumption ==
    /\ MaxPage \in Nat \ {0} /\ {MaxFeedRows, MaxTick} \subseteq Nat
    /\ MaxTick >= 2      \* the clock reaches the time of the plan

VARIABLES
    feedRows,      \* the rows, in the order they became visible: source and stamp
    tick,          \* the clock
    cursor,        \* what the client sends next, 0 for none
    sync,          \* the request being served
    page           \* the items of the answer this step sends, else none

feedVars == <<feedRows, tick, cursor, sync, page>>

FeedSources == {"created", "changed", "latest"}
NoSync == [limit |-> 0]
Plan == [row |-> 0, at |-> 2]

Millisecond(t) == t - (t % 2)

FeedInit ==
    /\ feedRows = <<>>
    /\ tick = 1 /\ cursor = 0 /\ sync = NoSync /\ page = {}

Items == [row : 1..MaxFeedRows, at : 0..MaxTick] \cup {Plan}

FeedTypeOK ==
    /\ feedRows \in Seq([source : FeedSources, at : 0..MaxTick])
    /\ tick \in 1..MaxTick /\ cursor \in 0..MaxTick /\ page \subseteq Items
    /\ sync = NoSync \/
         /\ sync.limit \in 1..MaxPage /\ sync.since \in 0..MaxTick
         /\ sync.left \subseteq FeedSources
         /\ sync.read \subseteq Items /\ sync.known \subseteq Items

-----------------------------------------------------------------------------
(* Pieces of the handler. A definition marked "mutant" is a faulty variant of  *)
(* the one after it; no formula uses it.                                      *)

Existing == {[row |-> r, at |-> feedRows[r].at] : r \in DOMAIN feedRows}

SourceOf(i) == feedRows[i.row].source

LowerOf(n, S) == IF Cardinality(S) < n THEN Cardinality(S) ELSE n

\* The rows of a SELECT of at most n, whatever the order of ties.
FirstOf(n, S) ==
    {P \in SUBSET S : /\ Cardinality(P) = LowerOf(n, S)
                      /\ \A p \in P, q \in S \ P : p.at <= q.at}
NewestOf(n, S) ==
    {P \in SUBSET S : /\ Cardinality(P) = LowerOf(n, S)
                      /\ \A p \in P, q \in S \ P : p.at >= q.at}

\* The page: the oldest n items, compared by the milliseconds that dates have.
PagesOf(n, S) ==
    {P \in SUBSET S : /\ Cardinality(P) = LowerOf(n, S)
                      /\ \A p \in P, q \in S \ P : Millisecond(p.at) <= Millisecond(q.at)}

NewestIn(S) == CHOOSE t \in {p.at : p \in S} : \A p \in S : p.at <= t

NextCursorOfRead(items) ==                                       \* mutant
    IF items = {} THEN cursor ELSE Millisecond(NewestIn(sync.read \cup items))

NextCursor(items) == IF items = {} THEN cursor ELSE Millisecond(NewestIn(items))

Silent == page' = {}

-----------------------------------------------------------------------------
(* Rows *)

Tick ==
    /\ tick < MaxTick /\ tick' = tick + 1
    /\ Silent /\ UNCHANGED <<feedRows, cursor, sync>>

\* A row is stamped now, or was a tick ago.
Stamps(source) ==
    {IF source = "changed" THEN Millisecond(t) ELSE t : t \in {tick, tick - 1}}

InsertRow(source) ==
    /\ Len(feedRows) < MaxFeedRows
    /\ \E t \in Stamps(source) : feedRows' = Append(feedRows, [source |-> source, at |-> t])
    /\ Silent /\ UNCHANGED <<tick, cursor, sync>>

UpdateRow(r) ==
    /\ feedRows[r].source = "changed"
    /\ \E t \in Stamps("changed") :
         t > feedRows[r].at /\ feedRows' = [feedRows EXCEPT ![r].at = t]
    /\ Silent /\ UNCHANGED <<tick, cursor, sync>>

-----------------------------------------------------------------------------
(* mobileSync *)

StartSync(n) ==
    /\ sync = NoSync
    /\ sync' = [limit |-> n, since |-> cursor, left |-> FeedSources,
                read |-> {}, known |-> Existing]
    /\ Silent /\ UNCHANGED <<feedRows, tick, cursor>>

\* One of the SELECTs, which run in any order.
ReadSource(s) ==
    /\ sync # NoSync /\ s \in sync.left
    /\ LET newer == {i \in Existing : SourceOf(i) = s /\ i.at > sync.since} IN
       \E rows \in IF s = "latest" THEN NewestOf(sync.limit, newer)
                                   ELSE FirstOf(sync.limit, newer) :
         sync' = [sync EXCEPT !.left = @ \ {s}, !.read = @ \cup rows]
    /\ Silent /\ UNCHANGED <<feedRows, tick, cursor>>

\* The plan is selected without a look at the cursor.
Merged == sync.read \cup {Plan}

EndSync ==
    /\ sync # NoSync /\ sync.left = {}
    /\ page' \in PagesOf(sync.limit, Merged)
    /\ cursor' = NextCursor(page')
    /\ sync' = NoSync
    /\ UNCHANGED <<feedRows, tick>>

FeedNext ==
    \/ Tick
    \/ \E s \in FeedSources : InsertRow(s)
    \/ \E r \in DOMAIN feedRows : UpdateRow(r)
    \/ \E n \in 1..MaxPage : StartSync(n)
    \/ \E s \in FeedSources : ReadSource(s)
    \/ EndSync

FeedSpec == FeedInit /\ [][FeedNext]_feedVars
-----------------------------------------------------------------------------
(* Properties *)

\* The cursor of an answer passes over no row that was there when the request
\* came, is still as it was, and is newer than the request's cursor: such a row
\* is on the page. Not so for a row of a source cut to its newest rows, nor for
\* one of the same time as the cursor; and rows written while the sources are
\* read may be passed over. The cursor goes back only on a page that holds
\* nothing but the plan, and then to the time of the plan.
CursorPassesNothing == [][
    (EndSync =>
        /\ \A i \in sync.known \cap Existing :
             (i.at > sync.since /\ i.at < cursor' /\ SourceOf(i) # "latest") => i \in page'
        /\ cursor' < sync.since => page' = {Plan})]_feedVars
=============================================================================
