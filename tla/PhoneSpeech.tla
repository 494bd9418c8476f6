---------------------------- MODULE PhoneSpeech ----------------------------
(***************************************************************************)
(* What the phone says aloud (apps/ios, SpeechOutputManager): a native          *)
(* utterance is queued at once, a natural one is synthesised by the gateway      *)
(* first, in a task that awaits the audio and then plays it. A cancel comes from *)
(* the gateway, for one speech, or from a stop or a barge-in, for all.          *)
(*                                                                         *)
(* Left out: the voices, the limits on the length of a text, and status texts.  *)
(* A speech is its number in the order they are asked for.                     *)
(***************************************************************************)
EXTENDS Naturals, SequencesExt

CONSTANT MaxSpeeches     \* speeches asked for (bound)

ASSUME SpeechAssumption == MaxSpeeches \in Nat

VARIABLES
    isMuted,
    outputMode,
    speechAsked,     \* speeches asked for so far
    currentSpeech,   \* currentSpeechId, 0 for none
    nativeQueue,     \* utterances at the synthesizer, the first sounds
    naturalSound,    \* what the natural player plays, 0 for nothing
    synthesizing,    \* speeches whose audio is awaited
    silenced         \* history: speeches the last cancel that took effect was to end

speechVars == <<isMuted, outputMode, speechAsked, currentSpeech, nativeQueue,
                naturalSound, synthesizing, silenced>>

Speeches == 1..MaxSpeeches

SpeechInit ==
    /\ isMuted = FALSE /\ outputMode = "native" /\ speechAsked = 0 /\ currentSpeech = 0
    /\ nativeQueue = <<>> /\ naturalSound = 0 /\ synthesizing = {} /\ silenced = {}

SpeechTypeOK ==
    /\ isMuted \in BOOLEAN /\ outputMode \in {"native", "natural"}
    /\ {speechAsked, currentSpeech, naturalSound} \subseteq 0..MaxSpeeches
    /\ nativeQueue \in Seq(Speeches)
    /\ synthesizing \subseteq 1..speechAsked /\ silenced \subseteq 1..speechAsked

-----------------------------------------------------------------------------
(* A definition marked "mutant" is a faulty variant of the one after it; no    *)
(* formula uses it.                                                          *)

\* speak: nothing is said while muted.
Speak ==
    /\ ~isMuted /\ speechAsked < MaxSpeeches
    /\ speechAsked' = speechAsked + 1 /\ currentSpeech' = speechAsked + 1
    /\ IF outputMode = "natural"
       THEN synthesizing' = synthesizing \cup {speechAsked + 1} /\ UNCHANGED nativeQueue
       ELSE nativeQueue' = Append(nativeQueue, speechAsked + 1) /\ UNCHANGED synthesizing
    /\ UNCHANGED <<isMuted, outputMode, naturalSound, silenced>>

\* The audio arrives and is played, whatever was canceled or muted meanwhile.
PlayNatural(n) ==
    /\ n \in synthesizing /\ synthesizing' = synthesizing \ {n}
    /\ naturalSound' = n
    /\ UNCHANGED <<isMuted, outputMode, speechAsked, currentSpeech, nativeQueue, silenced>>

\* fallbackOrFail, with the fallback and without it.
SynthesisFails(n) ==
    /\ n \in synthesizing /\ synthesizing' = synthesizing \ {n}
    /\ \/ naturalSound' = 0 /\ nativeQueue' = Append(nativeQueue, n)
       \/ UNCHANGED <<naturalSound, nativeQueue>>
    /\ UNCHANGED <<isMuted, outputMode, speechAsked, currentSpeech, silenced>>

CancelKeepsNatural(n) ==                                         \* mutant
    /\ n = 0 \/ n = currentSpeech \/ nativeQueue # <<>>
    /\ nativeQueue' = <<>> /\ currentSpeech' = 0
    /\ silenced' = (1..speechAsked) \ synthesizing
    /\ UNCHANGED <<isMuted, outputMode, speechAsked, naturalSound, synthesizing>>

\* cancel, of one speech or of all (0).
Cancel(n) ==
    /\ n = 0 \/ n = currentSpeech \/ nativeQueue # <<>>
    /\ nativeQueue' = <<>> /\ naturalSound' = 0 /\ currentSpeech' = 0
    /\ silenced' = (1..speechAsked) \ synthesizing
    /\ UNCHANGED <<isMuted, outputMode, speechAsked, synthesizing>>

NativeEnds ==
    /\ nativeQueue # <<>> /\ nativeQueue' = Tail(nativeQueue)
    /\ UNCHANGED <<isMuted, outputMode, speechAsked, currentSpeech, naturalSound, synthesizing, silenced>>

NaturalEnds ==
    /\ naturalSound # 0 /\ naturalSound' = 0
    /\ UNCHANGED <<isMuted, outputMode, speechAsked, currentSpeech, nativeQueue, synthesizing, silenced>>

\* The settings; muting cancels nothing.
SetMuted ==
    /\ isMuted' = ~isMuted
    /\ UNCHANGED <<outputMode, speechAsked, currentSpeech, nativeQueue, naturalSound, synthesizing, silenced>>

ConfigureNaturalVoice(mode) ==
    /\ outputMode' = mode
    /\ UNCHANGED <<isMuted, speechAsked, currentSpeech, nativeQueue, naturalSound, synthesizing, silenced>>

SpeechNext ==
    \/ Speak \/ NativeEnds \/ NaturalEnds \/ SetMuted
    \/ \E n \in Speeches : PlayNatural(n) \/ SynthesisFails(n)
    \/ \E n \in {0} \cup Speeches : Cancel(n)
    \/ \E mode \in {"native", "natural"} : ConfigureNaturalVoice(mode)

SpeechSpec == SpeechInit /\ [][SpeechNext]_speechVars

-----------------------------------------------------------------------------
(* Properties *)

Sounding == ToSet(nativeQueue) \cup ({naturalSound} \ {0})

\* What sounded or waited at the synthesizer when speech was canceled does not
\* sound again; only a speech whose audio was awaited at the cancel may still begin
\* (cancel, speakNatural).
CanceledIsSilent == Sounding \cap silenced = {}
=============================================================================
