-------------------------- MODULE AssistantClients --------------------------
(***************************************************************************)
(* The clients of the assistant: the voice session, the chat, the speech, the   *)
(* account and the Relay screens of the phone, the live page, the room page and     *)
(* the Brain Console of the gateway, and the adapter of the speech recogniser. Each  *)
(* keeps its state in its own process or view, and in what is modelled here none     *)
(* touches another's: a behaviour is one of one client, with the others at rest.    *)
(***************************************************************************)
EXTENDS PhoneSession, PhoneChat, PhoneSpeech, PhoneAccount, PhoneRelay, LivePage, RoomPage,
        SpeechSegments, ConsolePage

VARIABLE client     \* the client that runs

Clients == {"phone", "chat", "speech", "account", "relay", "page", "room", "recogniser",
             "console"}

clientVars == <<client, phoneVars, chatVars, speechVars, accountVars,
                        phoneRelayVars, pageVars, roomPageVars, segmentVars, consoleVars>>

ClientsInit ==
    /\ client \in Clients
    /\ PhoneInit /\ ChatInit /\ SpeechInit /\ AccountInit
    /\ PhoneRelayInit /\ PageInit /\ RoomPageInit /\ SegmentsInit /\ ConsoleInit
    /\ client # "room" => pageMode = "host"      \* a room page at rest

Phone ==
    /\ client = "phone" /\ PhoneNext
    /\ UNCHANGED <<chatVars, speechVars, accountVars, phoneRelayVars,
                    pageVars, roomPageVars, segmentVars, consoleVars>>
Chat ==
    /\ client = "chat" /\ ChatNext
    /\ UNCHANGED <<phoneVars, speechVars, accountVars, phoneRelayVars,
                    pageVars, roomPageVars, segmentVars, consoleVars>>
Speech ==
    /\ client = "speech" /\ SpeechNext
    /\ UNCHANGED <<phoneVars, chatVars, accountVars, phoneRelayVars, pageVars,
                    roomPageVars, segmentVars, consoleVars>>
Account ==
    /\ client = "account" /\ AccountNext
    /\ UNCHANGED <<phoneVars, chatVars, speechVars, phoneRelayVars, pageVars,
                    roomPageVars, segmentVars, consoleVars>>
RelayScreens ==
    /\ client = "relay" /\ PhoneRelayNext
    /\ UNCHANGED <<phoneVars, chatVars, speechVars, accountVars, pageVars,
                    roomPageVars, segmentVars, consoleVars>>
Page ==
    /\ client = "page" /\ PageNext
    /\ UNCHANGED <<phoneVars, chatVars, speechVars, accountVars,
                    phoneRelayVars, roomPageVars, segmentVars, consoleVars>>
CallRoom ==
    /\ client = "room" /\ RoomPageNext
    /\ UNCHANGED <<phoneVars, chatVars, speechVars, accountVars,
                    phoneRelayVars, pageVars, segmentVars, consoleVars>>
Recogniser ==
    /\ client = "recogniser" /\ TranscriptArrives
    /\ UNCHANGED <<phoneVars, chatVars, speechVars, accountVars,
                    phoneRelayVars, pageVars, roomPageVars, consoleVars>>
Console ==
    /\ client = "console" /\ ConsoleNext
    /\ UNCHANGED <<phoneVars, chatVars, speechVars, accountVars, phoneRelayVars,
                    pageVars, roomPageVars, segmentVars>>

ClientsNext ==
    /\ UNCHANGED client
    /\ Phone \/ Chat \/ Speech \/ Account
       \/ RelayScreens \/ Page \/ CallRoom \/ Recogniser \/ Console

ClientsSpec == ClientsInit /\ [][ClientsNext]_clientVars

\* The fairness of the phone's tasks; it asks nothing of a client at rest.
ClientsFairSpec == ClientsSpec /\ PhoneFairness /\ ChatFairness

-----------------------------------------------------------------------------
(* Properties; those of several clients say the same of each. *)

\* Every variable of the client has its type.
ClientsTypeOK ==
    /\ client = "phone" => PhoneTypeOK
    /\ client = "chat" => ChatTypeOK
    /\ client = "speech" => SpeechTypeOK
    /\ client = "page" => PageTypeOK
    /\ client = "room" => RoomPageTypeOK
    /\ client = "account" => AccountTypeOK
    /\ client = "relay" => PhoneRelayTypeOK
    /\ client = "recogniser" => SegmentsTypeOK
    /\ client = "console" => ConsoleTypeOK

\* What several calls of one client share, but for the overlaps named here, which the
\* code does not handle. An answer resumes one start, a text has one reply, a canceled
\* speech is silent, the room page is in one room, and the console shows and decides for
\* the user whose token it has. The account shown is the stored token's, or of one that
\* was replaced or removed under a request that bore it (outdated); a request shows its
\* own messages, or those that came for a view closed before (messagesLate); the list
\* shows what a decision made of a request, or two loads waited together (overlapped);
\* the page's microphone is off once its session is over, or was granted after the stop
\* (late) or replaced by a second one (lost).
OverlapsAreHandled ==
    /\ ResumedOnce /\ ChatRepliesOnce /\ CanceledIsSilent /\ AccountIsOwn /\ RelayShowsItsOwn
    /\ PageMicFollowsSession /\ OneRoomAtMost /\ ConsoleIsConsistent

\* What the user asked the phone for comes to an end: a start of a session, unless it
\* waits for good for the user's permission or for a pong, which no timer ends; a text of
\* the chat; and the microphone when its audio can no longer be sent.
AskedIsAnswered == StartEnds /\ TextsAreDone /\ MicrophoneFollowsSession
=============================================================================
