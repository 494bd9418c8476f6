---------------------------- MODULE RoomConsent ----------------------------
(***************************************************************************)
(* Consent and transcript of one room (src/rooms): the host's room, guests    *)
(* that answer an invitation, may change their mind and join, and transcript  *)
(* segments that are only stored when every human participant has granted.    *)
(*                                                                         *)
(* Left out: audit rows, the media room of the provider and its tokens, the    *)
(* summary made from the segments. The room requires consent.                 *)
(***************************************************************************)
EXTENDS Naturals

CONSTANTS
    Guests,
    RoomCalls      \* calls that run at the same time

ASSUME RoomAssumption == "host" \notin Guests

Participants == Guests \cup {"host"}

VARIABLES
    roomStatus,    \* "none", "draft" or "ended"
    consent,       \* consentStatus of each participant, "none" without a row
    joined,        \* participants with a joinedAt
    roomCalls,     \* what each call does
    overheard      \* history: who lacked consent when a call that checked later stored a segment

roomVars == <<roomStatus, consent, joined, roomCalls, overheard>>

NoRoomCall == [pc |-> "none"]
Consents == {"none", "pending", "granted", "denied"}

RoomInit ==
    /\ roomStatus = "none" /\ joined = {} /\ overheard = {}
    /\ consent = [p \in Participants |-> "none"]
    /\ roomCalls = [c \in RoomCalls |-> NoRoomCall]

RoomTypeOK ==
    /\ roomStatus \in {"none", "draft", "ended"}
    /\ consent \in [Participants -> Consents]
    /\ joined \subseteq Guests /\ overheard \subseteq Participants
    /\ roomCalls \in [RoomCalls -> {NoRoomCall} \cup [pc : {"host"}]
         \cup [pc : {"participants"}] \cup [pc : {"segment"}, late : SUBSET Participants]
         \cup [pc : {"join"}, guest : Guests]]

-----------------------------------------------------------------------------
(* A definition marked "mutant" is a faulty variant of the one after it; no    *)
(* formula uses it.                                                          *)

RoomAt(c, pc) == roomCalls[c].pc = pc
StartRoomCall(c, call) ==
    roomCalls[c] = NoRoomCall /\ roomCalls' = [roomCalls EXCEPT ![c] = call]
EndRoomCall(c) == roomCalls' = [roomCalls EXCEPT ![c] = NoRoomCall]

Present == {p \in Participants : consent[p] # "none"}
Lacking == {p \in Present : consent[p] # "granted"}

\* canTranscriptAfterConsent
CanTranscriptJoined ==                                           \* mutant
    /\ Present # {}
    /\ \A p \in Present : p \in joined \cup {"host"} => consent[p] = "granted"

CanTranscript == Present # {} /\ \A p \in Present : consent[p] = "granted"

-----------------------------------------------------------------------------
(* createRoom, createGuestLink, endRoom *)

CreateRoom(c) ==
    /\ roomStatus = "none" /\ roomStatus' = "draft"
    /\ StartRoomCall(c, [pc |-> "host"])
    /\ UNCHANGED <<consent, joined, overheard>>

InsertHost(c) ==
    /\ RoomAt(c, "host") /\ EndRoomCall(c)
    /\ consent' = [consent EXCEPT !["host"] = "granted"]
    /\ UNCHANGED <<roomStatus, joined, overheard>>

\* A call that has found every consent given is not told of who lacks it now.
TooLate(g) == roomCalls' = [c \in RoomCalls |->
    IF roomCalls[c].pc = "segment" THEN [roomCalls[c] EXCEPT !.late = @ \cup {g}] ELSE roomCalls[c]]

\* A guest may be invited to a room that has ended.
CreateGuestLink(g) ==
    /\ roomStatus # "none" /\ consent[g] = "none"
    /\ consent' = [consent EXCEPT ![g] = "pending"] /\ TooLate(g)
    /\ UNCHANGED <<roomStatus, joined, overheard>>

EndRoom ==
    /\ roomStatus = "draft" /\ roomStatus' = "ended"
    /\ UNCHANGED <<consent, joined, roomCalls, overheard>>

-----------------------------------------------------------------------------
(* setGuestConsent, guestTokenForInvite *)

SetConsent(g, answer) ==
    /\ consent[g] # "none"
    /\ consent' = [consent EXCEPT ![g] = answer]
    /\ IF answer = "granted" THEN UNCHANGED roomCalls ELSE TooLate(g)
    /\ UNCHANGED <<roomStatus, joined, overheard>>

StartJoin(c, g) ==
    /\ consent[g] = "granted"
    /\ StartRoomCall(c, [pc |-> "join", guest |-> g])
    /\ UNCHANGED <<roomStatus, consent, joined, overheard>>

Join(c) ==
    /\ RoomAt(c, "join") /\ EndRoomCall(c)
    /\ joined' = joined \cup {roomCalls[c].guest}
    /\ UNCHANGED <<roomStatus, consent, overheard>>

-----------------------------------------------------------------------------
(* addRoomTranscriptSegment: the room, its participants, and then the INSERT. *)

StartSegment(c) ==
    /\ roomStatus = "draft"
    /\ StartRoomCall(c, [pc |-> "participants"])
    /\ UNCHANGED <<roomStatus, consent, joined, overheard>>

CheckConsent(c) ==
    /\ RoomAt(c, "participants")
    /\ roomCalls' = [roomCalls EXCEPT
         ![c] = IF CanTranscript THEN [pc |-> "segment", late |-> {}] ELSE NoRoomCall]
    /\ UNCHANGED <<roomStatus, consent, joined, overheard>>

InsertSegment(c) ==
    /\ RoomAt(c, "segment") /\ EndRoomCall(c)
    /\ overheard' = overheard \cup (Lacking \ roomCalls[c].late)
    /\ UNCHANGED <<roomStatus, consent, joined>>

\* A statement fails or the process dies: a room may be left without its host.
RoomCallFails(c) ==
    /\ roomCalls[c] # NoRoomCall /\ EndRoomCall(c)
    /\ UNCHANGED <<roomStatus, consent, joined, overheard>>

RoomNext ==
    \/ EndRoom
    \/ \E g \in Guests : \/ CreateGuestLink(g)
                         \/ \E a \in {"granted", "denied"} : SetConsent(g, a)
    \/ \E c \in RoomCalls :
         \/ CreateRoom(c) \/ InsertHost(c) \/ \E g \in Guests : StartJoin(c, g)
         \/ Join(c) \/ StartSegment(c) \/ CheckConsent(c) \/ InsertSegment(c)
         \/ RoomCallFails(c)

RoomSpec == RoomInit /\ [][RoomNext]_roomVars

-----------------------------------------------------------------------------
(* Properties *)

\* A segment is stored in spite of a participant who lacks consent, joined or not, only by
\* a call that had found every consent given before the participant withdrew it or was
\* invited: one segment of each such call, and none of a call that checks later.
SegmentsHaveConsent == overheard = {}
=============================================================================
