------------------------------ MODULE RoomPage ------------------------------
(***************************************************************************)
(* The page of a call room (services/voice-gateway/src/room-client): a join    *)
(* fetches a token, leaves the room there is, connects a new one and turns the   *)
(* camera and the microphone on, each awaited; Leave, a second Join and the end   *)
(* of the room may be clicked at any time, and the calls share one global room.   *)
(*                                                                         *)
(* Left out: what the page shows, its read-only requests and the tracks of other  *)
(* participants. LiveKit is external: a room that is left captures nothing and    *)
(* its pending connect is rejected.                                           *)
(***************************************************************************)
EXTENDS Naturals, Sequences, FiniteSets

CONSTANTS
    JoinClicks,     \* clicks on Join
    MaxLeaves       \* clicks on Leave or End (bound)

ASSUME RoomPageAssumption == MaxLeaves \in Nat

VARIABLES
    pageMode,       \* "host" or "guest"
    pageConsent,    \* the checkbox, and the guest's consent as last loaded
    joins,          \* what each join does
    lkRooms,        \* LiveKit rooms in the order they were made
    lkRoom,         \* the page's room, 0 for null
    leaves,         \* clicks so far
    allowed,        \* history: joins that consent allowed when they were clicked
    leftJoins       \* history: joins that had their token at a leave

roomPageVars == <<pageMode, pageConsent, joins, lkRooms, lkRoom, leaves, allowed, leftJoins>>

GuestConsents == {"pending", "granted", "denied"}
Media == {"camera", "microphone"}

RoomPageInit ==
    /\ pageMode \in {"host", "guest"}
    /\ pageConsent = [checked |-> FALSE, guest |-> "pending"]
    /\ joins = [j \in JoinClicks |-> "none"] /\ lkRooms = <<>> /\ lkRoom = 0
    /\ leaves = 0 /\ allowed = {} /\ leftJoins = {}

RoomPageTypeOK ==
    /\ pageMode \in {"host", "guest"}
    /\ pageConsent \in [checked : BOOLEAN, guest : GuestConsents]
    /\ joins \in [JoinClicks -> {"none", "token", "connect", "camera", "microphone", "done"}]
    /\ lkRooms \in Seq([join : JoinClicks, media : SUBSET Media,
                        state : {"connecting", "connected", "dropped", "left"}])
    /\ lkRoom \in 0..Len(lkRooms)
    /\ leaves \in 0..MaxLeaves
    /\ allowed \cup leftJoins \subseteq JoinClicks

-----------------------------------------------------------------------------
(* A definition marked "mutant" is a faulty variant of the one after it; no    *)
(* formula uses it.                                                          *)

JoinAt(j, step) == joins[j] = step
JoinGo(j, step) == joins' = [joins EXCEPT ![j] = step]
RoomOf(j) == CHOOSE r \in DOMAIN lkRooms : lkRooms[r].join = j

\* consentAllowsJoin
ConsentAllowsJoin ==
    /\ pageConsent.checked
    /\ pageMode = "guest" => pageConsent.guest = "granted"

\* The checkbox, or the answer to a load or to a decision of the guest.
SetPageConsent(consent) ==
    /\ pageConsent' = consent
    /\ UNCHANGED <<pageMode, joins, lkRooms, lkRoom, leaves, allowed, leftJoins>>

JoinClick(j) ==
    /\ JoinAt(j, "none") /\ ConsentAllowsJoin
    /\ JoinGo(j, "token")
    /\ allowed' = allowed \cup {j}
    /\ UNCHANGED <<pageMode, pageConsent, lkRooms, lkRoom, leaves, leftJoins>>

\* The rooms once the page has left the one it was in.
LeftRooms == [r \in DOMAIN lkRooms |->
    IF r = lkRoom THEN [lkRooms[r] EXCEPT !.state = "left", !.media = {}] ELSE lkRooms[r]]

ConnectKeepsRoom(j) ==                                           \* mutant
    /\ JoinAt(j, "token") /\ JoinGo(j, "connect")
    /\ lkRooms' = Append(lkRooms, [join |-> j, state |-> "connecting", media |-> {}])
    /\ lkRoom' = Len(lkRooms')
    /\ UNCHANGED <<pageMode, pageConsent, leaves, allowed, leftJoins>>

\* The token arrives: the room there is is left, and a new one connects.
ConnectRoom(j) ==
    /\ JoinAt(j, "token") /\ JoinGo(j, "connect")
    /\ lkRooms' = Append(LeftRooms, [join |-> j, state |-> "connecting", media |-> {}])
    /\ lkRoom' = Len(lkRooms')
    /\ UNCHANGED <<pageMode, pageConsent, leaves, allowed, leftJoins>>

RoomConnected(j) ==
    /\ JoinAt(j, "connect") /\ lkRooms[RoomOf(j)].state = "connecting"
    /\ lkRooms' = [lkRooms EXCEPT ![RoomOf(j)].state = "connected"]
    /\ \E canPublish \in BOOLEAN : JoinGo(j, IF canPublish THEN "camera" ELSE "done")
    /\ UNCHANGED <<pageMode, pageConsent, lkRoom, leaves, allowed, leftJoins>>

\* setCameraEnabled was called on the room the join had made; it has its camera if
\* it is still connected.
CameraOn(j) ==
    /\ JoinAt(j, "camera") /\ lkRooms[RoomOf(j)].state = "connected"
    /\ lkRooms' = [lkRooms EXCEPT ![RoomOf(j)].media = @ \cup {"camera"}]
    /\ JoinGo(j, "microphone")
    /\ UNCHANGED <<pageMode, pageConsent, lkRoom, leaves, allowed, leftJoins>>

\* setMicrophoneEnabled is called on the room the page has when the camera's call
\* ends, and acts while that room is connected.
MicrophoneEnabled(j) ==
    /\ JoinAt(j, "microphone") /\ lkRoom # 0 /\ lkRooms[lkRoom].state = "connected"
    /\ lkRooms' = [lkRooms EXCEPT ![lkRoom].media = @ \cup {"microphone"}]
    /\ JoinGo(j, "done")
    /\ UNCHANGED <<pageMode, pageConsent, lkRoom, leaves, allowed, leftJoins>>

\* No token, a connect or a call for media that is rejected, or no room any more.
JoinFails(j) ==
    /\ joins[j] \notin {"none", "done"} /\ JoinGo(j, "done")
    /\ lkRooms' = IF JoinAt(j, "connect") /\ lkRooms[RoomOf(j)].state = "connecting"
                  THEN [lkRooms EXCEPT ![RoomOf(j)].state = "dropped"] ELSE lkRooms
    /\ UNCHANGED <<pageMode, pageConsent, lkRoom, leaves, allowed, leftJoins>>

\* The page keeps a room whose connection ended.
RoomDisconnected(r) ==
    /\ lkRooms[r].state = "connected"
    /\ lkRooms' = [lkRooms EXCEPT ![r].state = "dropped", ![r].media = {}]
    /\ UNCHANGED <<pageMode, pageConsent, joins, lkRoom, leaves, allowed, leftJoins>>

\* Leave, or the end of the room: the host leaves and then asks the backend for it.
LeaveClick ==
    /\ leaves < MaxLeaves /\ leaves' = leaves + 1
    /\ lkRooms' = LeftRooms /\ lkRoom' = 0
    /\ leftJoins' = leftJoins \cup {j \in JoinClicks : joins[j] \notin {"none", "token"}}
    /\ UNCHANGED <<pageMode, pageConsent, joins, allowed>>

RoomPageNext ==
    \/ \E checked \in BOOLEAN, guest \in GuestConsents :
         SetPageConsent([checked |-> checked, guest |-> guest])
    \/ \E j \in JoinClicks :
         \/ JoinClick(j) \/ ConnectRoom(j) \/ RoomConnected(j)
         \/ CameraOn(j) \/ MicrophoneEnabled(j) \/ JoinFails(j)
    \/ \E r \in DOMAIN lkRooms : RoomDisconnected(r)
    \/ LeaveClick

RoomPageSpec == RoomPageInit /\ [][RoomPageNext]_roomPageVars

-----------------------------------------------------------------------------
(* Properties *)

\* However joins and leaves overlap, at most the page's own room is connecting or
\* connected, and no other has the camera or the microphone; it is the room of a
\* join that consent allowed, and that had no room yet at any leave: only a join
\* that waited for its token then goes on (connect, leave, consentAllowsJoin).
OneRoomAtMost ==
    /\ \A r \in DOMAIN lkRooms \ {lkRoom} :
         lkRooms[r].state \in {"left", "dropped"} /\ lkRooms[r].media = {}
    /\ lkRoom # 0 => lkRooms[lkRoom].join \in allowed \ leftJoins
=============================================================================
