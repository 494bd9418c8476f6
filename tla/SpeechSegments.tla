--------------------------- MODULE SpeechSegments ---------------------------
(***************************************************************************)
(* How a transcript of the speech recogniser becomes segments of one speaker    *)
(* each. The backend (src/asr/deepgram.ts) and the gateway (services/           *)
(* voice-gateway/src/asr/deepgram.ts) split it by the same loop, and differ in    *)
(* the names of speakers. Deepgram is external: a transcript is final or not, and  *)
(* lists its words, or none.                                                 *)
(*                                                                         *)
(* Left out: the connection, and letters: a word is where it stands. Of its time a *)
(* segment keeps the word it starts at, and of its confidence the words it is the  *)
(* mean of; with none of them it has those of the transcript. Nothing is kept from  *)
(* one transcript to the next: a behaviour has one.                              *)
(***************************************************************************)
EXTENDS Integers, Sequences, FiniteSetsExt

CONSTANT MaxWords       \* words of a transcript (bound)

ASSUME SegmentsAssumption == MaxWords \in Nat

VARIABLES
    heardBy,        \* "backend" or "gateway", "none" before
    selfSpeaker,    \* the speaker of selfSpeakerIndex, "none" for null
    heard,          \* the last transcript
    segments        \* what was made of it

segmentVars == <<heardBy, selfSpeaker, heard, segments>>

Speakers == {"speaker_0", "speaker_1"}
NoSpeaker == "none"

\* A word as it comes: its speaker, if it has text, if it has a confidence.
Words == [speaker : Speakers \cup {NoSpeaker}, text : BOOLEAN, sure : BOOLEAN]
Transcripts == [final : BOOLEAN, words : UNION {[1..n -> Words] : n \in 0..MaxWords}]

SegmentsInit ==
    /\ heardBy = "none" /\ selfSpeaker = NoSpeaker
    /\ heard = [final |-> FALSE, words |-> <<>>] /\ segments = <<>>

SegmentsTypeOK ==
    /\ heardBy \in {"none", "backend", "gateway"} /\ selfSpeaker \in {NoSpeaker, "speaker_0"}
    /\ heard \in Transcripts
    /\ segments \in Seq([speaker : Speakers \cup {"me", "speaker_unknown"}, words : SUBSET (1..MaxWords),
                         start : 0..MaxWords, sure : SUBSET (1..MaxWords), final : BOOLEAN])

-----------------------------------------------------------------------------
(* A definition marked "mutant" is a faulty variant of the one after it; no    *)
(* formula uses it.                                                          *)

SpeakerOf(word) == IF word.speaker = NoSpeaker THEN "speaker_0" ELSE word.speaker

LabelSpeaker(speaker, self) == IF speaker = self THEN "me" ELSE speaker

\* The first of the speakers who said the most words.
DominantSpeaker(words) ==
    LET said(s) == {i \in DOMAIN words : SpeakerOf(words[i]) = s}
        most == {s \in Speakers : \A o \in Speakers : Cardinality(said(s)) >= Cardinality(said(o))}
    IN IF words = <<>> THEN "speaker_0"
       ELSE CHOOSE s \in most : \A o \in most \ {s} :
              said(o) = {} \/ Min(said(s)) < Min(said(o))

\* splitSpeakerRuns keeps the run it is in: its speaker, words, start and the words
\* whose confidence is summed.
NoRun == [speaker |-> NoSpeaker, words |-> {}, start |-> 0, sure |-> {}]

FlushKeepsConfidence(split) ==                                   \* mutant
    IF split.run.words = {} THEN split
    ELSE [runs |-> Append(split.runs, split.run), run |-> [split.run EXCEPT !.words = {}]]

\* The run ends, and its words and confidences are reset.
Flush(split) ==
    IF split.run.words = {} THEN split
    ELSE [runs |-> Append(split.runs, split.run),
          run |-> [split.run EXCEPT !.words = {}, !.sure = {}]]

TakeWord(split, words, i) ==
    LET speaker == SpeakerOf(words[i])
        same == speaker = split.run.speaker
        run == IF same THEN split.run
               ELSE [Flush(split).run EXCEPT !.speaker = speaker, !.start = i]
    IN [runs |-> IF same THEN split.runs ELSE Flush(split).runs,
        run |-> [run EXCEPT !.words = @ \cup {i},
                            !.sure = IF words[i].sure THEN @ \cup {i} ELSE @]]

\* The runs of the words, in order.
SpeakerRuns(words) ==
    LET split[n \in 0..Len(words)] ==
          IF n = 0 THEN [runs |-> <<>>, run |-> NoRun] ELSE TakeWord(split[n - 1], words, n)
    IN Flush(split[Len(words)]).runs

\* Those with text: filter, as a function of how many runs it has looked at.
WithText(runs, words) ==
    LET kept[n \in 0..Len(runs)] ==
          IF n = 0 THEN <<>>
          ELSE IF \E i \in runs[n].words : words[i].text THEN Append(kept[n - 1], runs[n])
          ELSE kept[n - 1]
    IN kept[Len(runs)]

SplitSpeakerRuns(words) == WithText(SpeakerRuns(words), words)

Segment(speaker, run, final) ==
    [speaker |-> speaker, words |-> run.words, start |-> run.start, sure |-> run.sure, final |-> final]

\* A transcript that is not final, or lists no words, is one segment.
Whole(transcript, speaker) ==
    <<Segment(speaker, [words |-> DOMAIN transcript.words, start |-> 0, sure |-> {}], transcript.final)>>

Split(transcript, self) ==
    LET runs == SplitSpeakerRuns(transcript.words)
    IN [k \in DOMAIN runs |-> Segment(LabelSpeaker(runs[k].speaker, self), runs[k], TRUE)]

BackendSegments(transcript, self) ==
    IF transcript.final /\ transcript.words # <<>> THEN Split(transcript, self)
    ELSE Whole(transcript, LabelSpeaker(DominantSpeaker(transcript.words), self))

GatewaySegments(transcript) ==
    IF transcript.final /\ transcript.words # <<>> THEN Split(transcript, NoSpeaker)
    ELSE Whole(transcript, IF transcript.words = <<>> THEN "speaker_unknown"
                           ELSE DominantSpeaker(transcript.words))

\* A transcript arrives that has some text.
TranscriptArrives ==
    \E transcript \in Transcripts :
      /\ heardBy = "none"
      /\ transcript.words = <<>> \/ \E i \in DOMAIN transcript.words : transcript.words[i].text
      /\ heard' = transcript
      /\ \/ /\ heardBy' = "backend" /\ selfSpeaker' \in {NoSpeaker, "speaker_0"}
            /\ segments' = BackendSegments(transcript, selfSpeaker')
         \/ /\ heardBy' = "gateway" /\ UNCHANGED selfSpeaker
            /\ segments' = GatewaySegments(transcript)

SegmentsSpec == SegmentsInit /\ [][TranscriptArrives]_segmentVars

-----------------------------------------------------------------------------
(* Properties *)

\* What was said by the same speaker without another one between: the words from i
\* to j, not to be made longer on either side.
RunOf(i, j) ==
    LET words == heard.words IN
    /\ \A k \in i..j : SpeakerOf(words[k]) = SpeakerOf(words[i])
    /\ i = 1 \/ SpeakerOf(words[i - 1]) # SpeakerOf(words[i])
    /\ j = Len(words) \/ SpeakerOf(words[j + 1]) # SpeakerOf(words[i])

Spoken(i, j) == \E k \in i..j : heard.words[k].text

\* The segments of a final transcript are its runs, each once and in order, said by
\* who said its words, starting at its first word, with the confidence of its own
\* words only; none has no text, and none that has text is lost (splitSpeakerRuns).
SegmentsAreRuns ==
    heard.final /\ heard.words # <<>> =>
      LET runs == {r \in (DOMAIN heard.words) \X (DOMAIN heard.words) :
                     r[1] <= r[2] /\ RunOf(r[1], r[2]) /\ Spoken(r[1], r[2])}
          segmentOf(r) == Segment(LabelSpeaker(SpeakerOf(heard.words[r[1]]), selfSpeaker),
             [words |-> r[1]..r[2], start |-> r[1],
              sure |-> {k \in r[1]..r[2] : heard.words[k].sure}], TRUE)
      IN /\ Len(segments) = Cardinality(runs)
         /\ \A r \in runs : segments[Cardinality({s \in runs : s[1] <= r[1]})] = segmentOf(r)

\* Any other transcript is one segment of all of its words, and nobody said more of
\* them than its speaker (dominantSpeaker).
OthersAreWhole ==
    ~heard.final /\ heard.words # <<>> /\ segments # <<>> =>
      /\ Len(segments) = 1 /\ segments[1].words = DOMAIN heard.words
      /\ \E s \in Speakers : segments[1].speaker = LabelSpeaker(s, selfSpeaker) /\ \A o \in Speakers :
           Cardinality({i \in DOMAIN heard.words : SpeakerOf(heard.words[i]) = o})
             <= Cardinality({i \in DOMAIN heard.words : SpeakerOf(heard.words[i]) = s})

SegmentsAreHeard == SegmentsAreRuns /\ OthersAreWhole
=============================================================================
