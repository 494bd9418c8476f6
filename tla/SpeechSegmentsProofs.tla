------------------------ MODULE SpeechSegmentsProofs ------------------------
(***************************************************************************)
(* What the loop of splitSpeakerRuns returns, for transcripts of any length:     *)
(* after n words it has cut them into maximal runs, of which the last one is       *)
(* still open; the filter keeps the runs with text, each once and in order. The     *)
(* recursive functions are unfolded by a solution of their equations, which exists  *)
(* for every length, and an induction is the absence of a least counterexample.     *)
(***************************************************************************)
EXTENDS SpeechSegments, FiniteSetTheorems, SequenceTheorems, WellFoundedInduction, TLAPS

-----------------------------------------------------------------------------
(* Induction *)

\* A set of numbers with 0 that is closed under successors up to n has all up to n.
LEMMA UpTo ==
    ASSUME NEW n \in Nat, NEW P, 0 \in P, \A k \in 0..n : k < n /\ k \in P => k + 1 \in P
    PROVE  \A k \in 0..n : k \in P
<1>. DEFINE Q == (0..n) \ P
<1>. SUFFICES ASSUME Q # {} PROVE FALSE
  OBVIOUS
<1>1. PICK x \in Q : \A y \in Q : ~(<<y, x>> \in OpToRel(<, Nat))
  <2>1. Q \subseteq Nat
    OBVIOUS
  <2>. HIDE DEF Q
  <2>. QED
    BY <2>1, NatLessThanWellFounded, WFMin
<1>2. x \in Nat /\ x # 0 /\ x \in 0..n /\ x \notin P
  OBVIOUS
<1>3. x - 1 \in P
  <2>1. x - 1 \in Nat /\ x - 1 < x /\ x - 1 \in 0..n
    BY <1>2
  <2>2. x - 1 \notin Q
    BY <1>1, <1>2, <2>1 DEF OpToRel
  <2>. QED
    BY <2>1, <2>2
<1>4. (x - 1) + 1 \in P
  BY <1>2, <1>3
<1>. QED
  BY <1>2, <1>4

-----------------------------------------------------------------------------
(* Runs *)

\* A run as the loop records it.
RunType == [speaker : Speakers, words : SUBSET Nat, start : Nat, sure : SUBSET Nat]

\* The run from word a to word b.
RunRecord(w, a, b) ==
    [speaker |-> SpeakerOf(w[a]), words |-> a..b, start |-> a, sure |-> {k \in a..b : w[k].sure}]

\* Words a to b are of one speaker, and the one before a of another.
SpokenBy(w, a, b) ==
    /\ \A k \in a..b : SpeakerOf(w[k]) = SpeakerOf(w[a])
    /\ a = 1 \/ SpeakerOf(w[a - 1]) # SpeakerOf(w[a])

\* The runs of the first m words: run k is of the words after end[k - 1] up to end[k].
RunsEndAt(runs, w, m, end) ==
    /\ runs \in Seq(RunType)
    /\ end \in [0..Len(runs) -> 0..m] /\ end[0] = 0 /\ end[Len(runs)] = m
    /\ \A k \in 1..Len(runs) :
         /\ end[k - 1] < end[k]
         /\ runs[k] = RunRecord(w, end[k - 1] + 1, end[k])
         /\ SpokenBy(w, end[k - 1] + 1, end[k])

Cut(runs, w, m) == \E end : RunsEndAt(runs, w, m, end)

LEMMA SpeakerTypes ==
    ASSUME NEW word \in Words
    PROVE  SpeakerOf(word) \in Speakers /\ SpeakerOf(word) # NoSpeaker
BY DEF Words, SpeakerOf, Speakers, NoSpeaker

LEMMA RunTyped ==
    ASSUME NEW N \in Nat, NEW w \in [1..N -> Words], NEW a \in 1..N, NEW b \in 1..N
    PROVE  RunRecord(w, a, b) \in RunType
<1>1. SpeakerOf(w[a]) \in Speakers
  BY SpeakerTypes
<1>2. a..b \in SUBSET Nat /\ {k \in a..b : w[k].sure} \in SUBSET Nat /\ a \in Nat
  OBVIOUS
<1>. QED
  BY <1>1, <1>2 DEF RunRecord, RunType

\* No word, no run.
LEMMA CutNothing == ASSUME NEW w, NEW runs, runs = <<>> PROVE Cut(runs, w, 0)
<1>1. runs \in Seq(RunType) /\ Len(runs) = 0
  BY EmptySeq
<1>2. \A k \in 1..Len(runs) : FALSE
  BY <1>1
<1>3. [k \in 0..0 |-> 0] \in [0..0 -> 0..0] /\ [k \in 0..0 |-> 0][0] = 0
  OBVIOUS
<1>4. RunsEndAt(runs, w, 0, [k \in 0..0 |-> 0])
  BY <1>1, <1>2, <1>3 DEF RunsEndAt
<1>. QED
  BY <1>4 DEF Cut

\* One run more.
LEMMA CutAppend ==
    ASSUME NEW n \in Nat, NEW w, NEW runs, NEW m \in Nat, Cut(runs, w, m), n > m,
           SpokenBy(w, m + 1, n), NEW r \in RunType, r = RunRecord(w, m + 1, n)
    PROVE  Cut(Append(runs, r), w, n)
<1>. DEFINE longer == Append(runs, r)
<1>1. PICK end : RunsEndAt(runs, w, m, end)
  BY DEF Cut
<1>2. runs \in Seq(RunType)
  BY <1>1 DEF RunsEndAt
<1>. DEFINE L == Len(runs)
            e == [k \in 0..L + 1 |-> IF k = L + 1 THEN n ELSE end[k]]
<1>3. /\ longer \in Seq(RunType) /\ Len(longer) = L + 1 /\ L \in Nat
      /\ \A k \in 1..L : longer[k] = runs[k]
      /\ longer[L + 1] = r
  BY <1>2, AppendProperties, LenProperties
<1>4. /\ end \in [0..L -> 0..m] /\ end[0] = 0 /\ end[L] = m
      /\ \A k \in 1..L : /\ end[k - 1] < end[k]
                         /\ runs[k] = RunRecord(w, end[k - 1] + 1, end[k])
                         /\ SpokenBy(w, end[k - 1] + 1, end[k])
  BY <1>1 DEF RunsEndAt, L
<1>. HIDE DEF L, longer
<1>5. /\ e \in [0..L + 1 -> 0..n] /\ e[0] = 0 /\ e[L + 1] = n /\ e[L] = m
      /\ \A k \in 0..L : e[k] = end[k]
  <2>1. L \in Nat /\ \A k \in 0..L : end[k] \in 0..m /\ k # L + 1 /\ k \in 0..L + 1
    BY <1>3, <1>4
  <2>2. \A k \in 0..L : e[k] = end[k]
    BY <2>1
  <2>3. e[L + 1] = n
    BY <2>1
  <2>4. \A k \in 0..L + 1 : e[k] \in 0..n
    <3>1. \A k \in 0..L + 1 : k = L + 1 \/ k \in 0..L
      BY <2>1
    <3>2. 0..m \subseteq 0..n /\ n \in 0..n
      OBVIOUS
    <3>. QED
      BY <2>1, <2>2, <2>3, <3>1, <3>2
  <2>5. e \in [0..L + 1 -> 0..n]
    BY <2>4
  <2>6. 0 \in 0..L /\ L \in 0..L
    BY <2>1
  <2>. HIDE DEF e
  <2>. QED
    BY <1>4, <2>2, <2>3, <2>5, <2>6
<1>. HIDE DEF e
<1>6. ASSUME NEW k \in 1..L + 1
      PROVE  /\ e[k - 1] < e[k]
             /\ longer[k] = RunRecord(w, e[k - 1] + 1, e[k])
             /\ SpokenBy(w, e[k - 1] + 1, e[k])
  <2>1. CASE k = L + 1
    <3>1. k - 1 = L /\ e[k - 1] = m /\ e[k] = n
      BY <1>3, <1>5, <2>1
    <3>2. longer[k] = RunRecord(w, m + 1, n)
      BY <1>3, <2>1
    <3>. QED
      BY <3>1, <3>2
  <2>2. CASE k # L + 1
    <3>1. k \in 1..L /\ k \in 0..L /\ k - 1 \in 0..L
      BY <1>3, <2>2
    <3>2. e[k] = end[k] /\ e[k - 1] = end[k - 1] /\ longer[k] = runs[k]
      BY <1>3, <1>5, <3>1
    <3>3. /\ end[k - 1] < end[k]
          /\ runs[k] = RunRecord(w, end[k - 1] + 1, end[k])
          /\ SpokenBy(w, end[k - 1] + 1, end[k])
      BY <1>4, <3>1
    <3>. QED
      BY <3>2, <3>3
  <2>. QED
    BY <2>1, <2>2
<1>7. RunsEndAt(longer, w, n, e)
  BY <1>3, <1>5, <1>6 DEF RunsEndAt
<1>. QED
  BY <1>7 DEF Cut, longer

-----------------------------------------------------------------------------
(* The loop *)

\* What it holds after n words: the runs before the last, and the last.
LoopOK(s, w, n) ==
    IF n = 0 THEN s = [runs |-> <<>>, run |-> NoRun]
    ELSE \E a \in 1..n :
           s = [runs |-> s.runs, run |-> RunRecord(w, a, n)] /\ SpokenBy(w, a, n) /\ Cut(s.runs, w, a - 1)

LEMMA SpokenAlone ==
    ASSUME NEW w, NEW n \in Nat, n = 1 \/ SpeakerOf(w[n - 1]) # SpeakerOf(w[n])
    PROVE  SpokenBy(w, n, n)
BY DEF SpokenBy

LEMMA SpokenOn ==
    ASSUME NEW w, NEW n \in Nat, NEW a \in 1..n, SpokenBy(w, a, n), SpeakerOf(w[n + 1]) = SpeakerOf(w[a])
    PROVE  SpokenBy(w, a, n + 1)
<1>1. \A k \in a..n + 1 : k = n + 1 \/ k \in a..n
  OBVIOUS
<1>. QED
  BY <1>1 DEF SpokenBy

\* What TakeWord does to a record of the loop.
LoopIs(s, R, p, W, a, U) ==
    s = [runs |-> R, run |-> [speaker |-> p, words |-> W, start |-> a, sure |-> U]]

LEMMA TakesAlike ==
    ASSUME NEW w, NEW i, NEW s, NEW R, NEW p, NEW W, NEW a, NEW U, SpeakerOf(w[i]) = p,
           LoopIs(s, R, p, W, a, U)
    PROVE  LoopIs(TakeWord(s, w, i), R, p, W \cup {i}, a, IF w[i].sure THEN U \cup {i} ELSE U)
<1>. DEFINE run == [speaker |-> p, words |-> W, start |-> a, sure |-> U]
            X == W \cup {i}
            V == IF w[i].sure THEN U \cup {i} ELSE U
<1>4. run = [speaker |-> p, words |-> W, start |-> a, sure |-> U] /\ s = [runs |-> R, run |-> run]
  BY DEF LoopIs
<1>. HIDE DEF run
<1>1. s.run = run /\ s.runs = R /\ run.speaker = p /\ run.sure = U /\ run.words = W
  BY <1>4
<1>2. (IF w[i].sure THEN run.sure \cup {i} ELSE run.sure) = V /\ run.words \cup {i} = X
  BY <1>1
<1>. HIDE DEF V, X
<1>3. TakeWord(s, w, i) = [runs |-> R, run |-> [run EXCEPT !.words = X, !.sure = V]]
  BY <1>1, <1>2 DEF TakeWord
<1>5. [run EXCEPT !.words = X, !.sure = V] = [speaker |-> p, words |-> X, start |-> a, sure |-> V]
  <2>1. [run EXCEPT !.words = X, !.sure = V] = [[run EXCEPT !.words = X] EXCEPT !.sure = V]
    OBVIOUS
  <2>2. [run EXCEPT !.words = X] = [speaker |-> p, words |-> X, start |-> a, sure |-> U]
    BY <1>4
  <2>3. ASSUME NEW r, r = [speaker |-> p, words |-> X, start |-> a, sure |-> U]
       PROVE  [r EXCEPT !.sure = V] = [speaker |-> p, words |-> X, start |-> a, sure |-> V]
    BY <2>3
  <2>. QED
    BY <2>1, <2>2, <2>3
<1>. QED
  BY <1>3, <1>5 DEF LoopIs, V, X

LEMMA TakesOther ==
    ASSUME NEW w, NEW i, NEW s, NEW R, NEW p, NEW a, NEW flushed, SpeakerOf(w[i]) # s.run.speaker,
           flushed = [speaker |-> p, words |-> {}, start |-> a, sure |-> {}],
           Flush(s) = [runs |-> R, run |-> flushed]
    PROVE  TakeWord(s, w, i) = [runs |-> R, run |-> [speaker |-> SpeakerOf(w[i]), words |-> {i}, start |-> i,
                                                     sure |-> IF w[i].sure THEN {i} ELSE {}]]
<1>. DEFINE q == SpeakerOf(w[i])
            V == IF w[i].sure THEN {i} ELSE {}
            X == {i}
<1>1. Flush(s).run = flushed /\ Flush(s).runs = R /\ flushed = [speaker |-> p, words |-> {}, start |-> a, sure |-> {}]
  OBVIOUS
<1>. HIDE DEF q
<1>2. [flushed EXCEPT !.speaker = q, !.start = i] = [speaker |-> q, words |-> {}, start |-> i, sure |-> {}]
  <2>1. [flushed EXCEPT !.speaker = q, !.start = i] = [[flushed EXCEPT !.speaker = q] EXCEPT !.start = i]
    OBVIOUS
  <2>2. [flushed EXCEPT !.speaker = q] = [speaker |-> q, words |-> {}, start |-> a, sure |-> {}]
    BY <1>1
  <2>3. ASSUME NEW r, r = [speaker |-> q, words |-> {}, start |-> a, sure |-> {}]
       PROVE  [r EXCEPT !.start = i] = [speaker |-> q, words |-> {}, start |-> i, sure |-> {}]
    BY <2>3
  <2>. QED
    BY <2>1, <2>2, <2>3
<1>3. PICK run : run = [speaker |-> q, words |-> {}, start |-> i, sure |-> {}]
  OBVIOUS
<1>4. run.words \cup {i} = X /\ (IF w[i].sure THEN run.sure \cup {i} ELSE run.sure) = V
  BY <1>3
<1>. HIDE DEF V, X
<1>5. TakeWord(s, w, i) = [runs |-> R, run |-> [run EXCEPT !.words = X, !.sure = V]]
  BY <1>1, <1>2, <1>3, <1>4 DEF TakeWord, q
<1>6. [run EXCEPT !.words = X, !.sure = V] = [speaker |-> q, words |-> X, start |-> i, sure |-> V]
  <2>1. [run EXCEPT !.words = X, !.sure = V] = [[run EXCEPT !.words = X] EXCEPT !.sure = V]
    OBVIOUS
  <2>2. [run EXCEPT !.words = X] = [speaker |-> q, words |-> X, start |-> i, sure |-> {}]
    BY <1>3, SMTT(40)
  <2>3. ASSUME NEW r, r = [speaker |-> q, words |-> X, start |-> i, sure |-> {}]
       PROVE  [r EXCEPT !.sure = V] = [speaker |-> q, words |-> X, start |-> i, sure |-> V]
    BY <2>3
  <2>. QED
    BY <2>1, <2>2, <2>3
<1>. QED
  BY <1>5, <1>6 DEF V, X, q

\* The first word.
LEMMA LoopStarts ==
    ASSUME NEW N \in Nat, NEW w \in [1..N -> Words], N > 0, NEW s, LoopOK(s, w, 0)
    PROVE  LoopOK(TakeWord(s, w, 1), w, 1)
<1>1. s = [runs |-> <<>>, run |-> NoRun] /\ Flush(s) = s
  BY DEF LoopOK, Flush, NoRun
<1>2. SpeakerOf(w[1]) # NoSpeaker
  BY SpeakerTypes
<1>3. TakeWord(s, w, 1) = [runs |-> <<>>, run |-> RunRecord(w, 1, 1)]
  <2>1. {1} = 1..1 /\ (IF w[1].sure THEN {1} ELSE {}) = {k \in 1..1 : w[k].sure}
    OBVIOUS
  <2>2. /\ Flush(s) = [runs |-> <<>>, run |-> [speaker |-> NoSpeaker, words |-> {}, start |-> 0, sure |-> {}]]
        /\ SpeakerOf(w[1]) # s.run.speaker
    BY <1>1, <1>2 DEF NoRun
  <2>3. TakeWord(s, w, 1) = [runs |-> <<>>, run |-> [speaker |-> SpeakerOf(w[1]), words |-> {1}, start |-> 1,
                                                     sure |-> IF w[1].sure THEN {1} ELSE {}]]
    BY <2>2, TakesOther
  <2>. QED
    BY <2>1, <2>3 DEF RunRecord
<1>4. SpokenBy(w, 1, 1)
  BY SpokenAlone
<1>5. Cut(TakeWord(s, w, 1).runs, w, 0)
  BY <1>3, CutNothing
<1>. QED
  BY <1>3, <1>4, <1>5 DEF LoopOK

\* A word of the same speaker makes the last run longer.
LEMMA LoopGoesOn ==
    ASSUME NEW N \in Nat, NEW w \in [1..N -> Words], NEW n \in 1..N, n < N, NEW s, LoopOK(s, w, n),
           SpeakerOf(w[n + 1]) = s.run.speaker
    PROVE  LoopOK(TakeWord(s, w, n + 1), w, n + 1)
<1>1. PICK a \in 1..n : s = [runs |-> s.runs, run |-> RunRecord(w, a, n)] /\ SpokenBy(w, a, n) /\ Cut(s.runs, w, a - 1)
  BY DEF LoopOK
<1>2. s.run = RunRecord(w, a, n)
  BY <1>1
<1>3. SpeakerOf(w[n + 1]) = SpeakerOf(w[a])
  BY <1>2 DEF RunRecord
<1>4. TakeWord(s, w, n + 1) = [runs |-> s.runs, run |-> RunRecord(w, a, n + 1)]
  <2>1. (a..n) \cup {n + 1} = a..n + 1
    OBVIOUS
  <2>2. (IF w[n + 1].sure THEN {k \in a..n : w[k].sure} \cup {n + 1} ELSE {k \in a..n : w[k].sure})
          = {k \in a..n + 1 : w[k].sure}
    BY <2>1
  <2>3. s = [runs |-> s.runs, run |-> [speaker |-> SpeakerOf(w[a]), words |-> a..n, start |-> a,
                                       sure |-> {k \in a..n : w[k].sure}]]
    BY <1>1 DEF RunRecord
  <2>4. TakeWord(s, w, n + 1) = [runs |-> s.runs, run |->
           [speaker |-> SpeakerOf(w[a]), words |-> (a..n) \cup {n + 1}, start |-> a,
            sure |-> IF w[n + 1].sure THEN {k \in a..n : w[k].sure} \cup {n + 1} ELSE {k \in a..n : w[k].sure}]]
    <3>. DEFINE R == s.runs
                W == a..n
                U == {k \in a..n : w[k].sure}
    <3>1. LoopIs(s, R, SpeakerOf(w[a]), W, a, U)
      BY <2>3 DEF LoopIs
    <3>. HIDE DEF R, W, U
    <3>2. LoopIs(TakeWord(s, w, n + 1), R, SpeakerOf(w[a]), W \cup {n + 1}, a, IF w[n + 1].sure THEN U \cup {n + 1} ELSE U)
      BY <1>3, <3>1, TakesAlike
    <3>. QED
      BY <3>2 DEF R, W, U, LoopIs
  <2>. QED
    BY <2>1, <2>2, <2>4 DEF RunRecord
<1>5. SpokenBy(w, a, n + 1)
  BY <1>1, <1>3, SpokenOn
<1>. QED
  BY <1>1, <1>4, <1>5 DEF LoopOK

\* What a flush adds to the runs.
LEMMA FlushCuts ==
    ASSUME NEW N \in Nat, NEW w \in [1..N -> Words], NEW n \in 1..N, NEW s, LoopOK(s, w, n)
    PROVE  Cut(Flush(s).runs, w, n)
<1>1. PICK a \in 1..n : s = [runs |-> s.runs, run |-> RunRecord(w, a, n)] /\ SpokenBy(w, a, n) /\ Cut(s.runs, w, a - 1)
  BY DEF LoopOK
<1>. DEFINE r == RunRecord(w, a, n)
<1>2. a \in s.run.words /\ s.run = r
  BY <1>1 DEF RunRecord
<1>3. Flush(s).runs = Append(s.runs, r)
  BY <1>2 DEF Flush
<1>4. r \in RunType /\ a - 1 \in Nat /\ (a - 1) + 1 = a /\ n > a - 1 /\ n \in Nat /\ r = RunRecord(w, (a - 1) + 1, n)
  BY RunTyped
<1>. HIDE DEF r
<1>5. Cut(Append(s.runs, r), w, n)
  BY <1>1, <1>4, CutAppend
<1>. QED
  BY <1>3, <1>5

\* A word of another speaker closes it and begins the next.
LEMMA LoopTurns ==
    ASSUME NEW N \in Nat, NEW w \in [1..N -> Words], NEW n \in 1..N, n < N, NEW s, LoopOK(s, w, n),
           SpeakerOf(w[n + 1]) # s.run.speaker
    PROVE  LoopOK(TakeWord(s, w, n + 1), w, n + 1)
<1>1. PICK a \in 1..n : s = [runs |-> s.runs, run |-> RunRecord(w, a, n)] /\ SpokenBy(w, a, n) /\ Cut(s.runs, w, a - 1)
  BY DEF LoopOK
<1>2. s.run = RunRecord(w, a, n) /\ a \in s.run.words
  BY <1>1 DEF RunRecord
<1>3. Flush(s) = [runs |-> Append(s.runs, s.run), run |-> [s.run EXCEPT !.words = {}, !.sure = {}]]
  BY <1>2 DEF Flush
<1>4. TakeWord(s, w, n + 1) = [runs |-> Flush(s).runs, run |-> RunRecord(w, n + 1, n + 1)]
  <2>1. {n + 1} = (n + 1)..(n + 1)
        /\ (IF w[n + 1].sure THEN {n + 1} ELSE {}) = {k \in (n + 1)..(n + 1) : w[k].sure}
    OBVIOUS
  <2>2. [RunRecord(w, a, n) EXCEPT !.words = {}, !.sure = {}]
          = [speaker |-> SpeakerOf(w[a]), words |-> {}, start |-> a, sure |-> {}]
    <3>. DEFINE W == a..n
                U == {k \in a..n : w[k].sure}
                q == SpeakerOf(w[a])
                E == {}
    <3>1. ASSUME NEW r, r = RunRecord(w, a, n)
          PROVE  [r EXCEPT !.words = E, !.sure = E] = [speaker |-> q, words |-> E, start |-> a, sure |-> E]
      <4>1. r = [speaker |-> q, words |-> W, start |-> a, sure |-> U]
        BY <3>1 DEF RunRecord
      <4>. HIDE DEF W, U, q, E
      <4>. QED
        <5>1. [r EXCEPT !.words = E, !.sure = E] = [[r EXCEPT !.words = E] EXCEPT !.sure = E]
          OBVIOUS
        <5>2. [r EXCEPT !.words = E] = [speaker |-> q, words |-> E, start |-> a, sure |-> U]
          BY <4>1
        <5>3. ASSUME NEW o, o = [speaker |-> q, words |-> E, start |-> a, sure |-> U]
             PROVE  [o EXCEPT !.sure = E] = [speaker |-> q, words |-> E, start |-> a, sure |-> E]
          BY <5>3
        <5>. QED
          BY <5>1, <5>2, <5>3
    <3>. QED
      BY <3>1 DEF E
  <2>3. Flush(s) = [runs |-> Flush(s).runs,
                    run |-> [speaker |-> SpeakerOf(w[a]), words |-> {}, start |-> a, sure |-> {}]]
    <3>1. Flush(s) = [runs |-> Append(s.runs, s.run), run |-> [RunRecord(w, a, n) EXCEPT !.words = {}, !.sure = {}]]
      BY <1>2, <1>3
    <3>2. Flush(s) = [runs |-> Append(s.runs, s.run),
                      run |-> [speaker |-> SpeakerOf(w[a]), words |-> {}, start |-> a, sure |-> {}]]
      BY <2>2, <3>1
    <3>. QED
      BY <3>2
  <2>4. TakeWord(s, w, n + 1) =
          [runs |-> Flush(s).runs, run |-> [speaker |-> SpeakerOf(w[n + 1]), words |-> {n + 1}, start |-> n + 1,
                                            sure |-> IF w[n + 1].sure THEN {n + 1} ELSE {}]]
    BY <2>3, TakesOther
  <2>. QED
    BY <2>1, <2>4 DEF RunRecord
<1>5. SpeakerOf(w[n]) = SpeakerOf(w[a]) /\ SpeakerOf(w[n + 1]) # SpeakerOf(w[a])
  <2>1. s.run.speaker = SpeakerOf(w[a])
    BY <1>2 DEF RunRecord
  <2>2. n \in a..n
    OBVIOUS
  <2>. QED
    BY <1>1, <2>1, <2>2 DEF SpokenBy
<1>6. SpokenBy(w, n + 1, n + 1)
  BY <1>5, SpokenAlone
<1>7. Cut(Flush(s).runs, w, n)
  BY FlushCuts
<1>. QED
  BY <1>4, <1>6, <1>7 DEF LoopOK

\* The equations of splitSpeakerRuns have a solution for any number of words.
SplitOver(split, w, n) ==
    split = [k \in 0..n |-> IF k = 0 THEN [runs |-> <<>>, run |-> NoRun] ELSE TakeWord(split[k - 1], w, k)]

LEMMA SplitSolved == ASSUME NEW n \in Nat, NEW w PROVE \E split : SplitOver(split, w, n)
<1>. DEFINE P == {m \in 0..n : \E split : SplitOver(split, w, m)}
<1>1. 0 \in P
  <2>1. SplitOver([k \in 0..0 |-> [runs |-> <<>>, run |-> NoRun]], w, 0)
    BY DEF SplitOver
  <2>. QED
    BY <2>1
<1>2. ASSUME NEW m \in 0..n, m < n, m \in P PROVE m + 1 \in P
  <2>1. PICK g : SplitOver(g, w, m)
    BY <1>2
  <2>. DEFINE f == [k \in 0..m + 1 |-> IF k = m + 1 THEN TakeWord(g[m], w, m + 1) ELSE g[k]]
  <2>2. \A k \in 0..m : f[k] = g[k]
    OBVIOUS
  <2>3. f[m + 1] = TakeWord(g[m], w, m + 1)
    OBVIOUS
  <2>4. f = [k \in 0..m + 1 |-> f[k]]
    OBVIOUS
  <2>. HIDE DEF f
  <2>5. ASSUME NEW k \in 0..m + 1
        PROVE  f[k] = IF k = 0 THEN [runs |-> <<>>, run |-> NoRun] ELSE TakeWord(f[k - 1], w, k)
    <3>1. CASE k = m + 1
      <4>1. m \in 0..m /\ k # 0 /\ k - 1 = m
        BY <3>1
      <4>. QED
        BY <2>2, <2>3, <3>1, <4>1
    <3>2. CASE k # m + 1
      <4>1. k \in 0..m
        BY <3>2
      <4>2. g[k] = IF k = 0 THEN [runs |-> <<>>, run |-> NoRun] ELSE TakeWord(g[k - 1], w, k)
        BY <2>1, <4>1 DEF SplitOver
      <4>3. CASE k = 0
        BY <2>2, <4>1, <4>2, <4>3
      <4>4. CASE k # 0
        <5>1. k - 1 \in 0..m
          BY <4>1, <4>4
        <5>. QED
          BY <2>2, <4>1, <4>2, <4>4, <5>1
      <4>. QED
        BY <4>3, <4>4
    <3>. QED
      BY <3>1, <3>2
  <2>6. SplitOver(f, w, m + 1)
    BY <2>4, <2>5 DEF SplitOver
  <2>7. m + 1 \in 0..n
    BY <1>2
  <2>. QED
    BY <2>6, <2>7
<1>. HIDE DEF P
<1>3. \A m \in 0..n : m \in P
  BY <1>1, <1>2, UpTo
<1>. QED
  BY <1>3 DEF P

LEMMA SplitUnfolds ==
    ASSUME NEW w, NEW n, n = Len(w), NEW g, SplitOver(g, w, n)
    PROVE  \E split : SplitOver(split, w, n) /\ SpeakerRuns(w) = Flush(split[n]).runs
BY DEF SpeakerRuns, SplitOver

\* splitSpeakerRuns cuts the words into maximal runs of one speaker each.
LEMMA SpeakerRunsCut ==
    ASSUME NEW N \in Nat, N > 0, NEW w \in [1..N -> Words], Len(w) = N
    PROVE  Cut(SpeakerRuns(w), w, N)
<1>1. PICK g : SplitOver(g, w, N)
  BY SplitSolved
<1>2. PICK split : SplitOver(split, w, N) /\ SpeakerRuns(w) = Flush(split[N]).runs
  BY <1>1, SplitUnfolds
<1>3. \A k \in 0..N : split[k] = IF k = 0 THEN [runs |-> <<>>, run |-> NoRun] ELSE TakeWord(split[k - 1], w, k)
  BY <1>2 DEF SplitOver
<1>. DEFINE P == {k \in 0..N : LoopOK(split[k], w, k)}
<1>4. 0 \in P
  BY <1>3 DEF LoopOK
<1>5. ASSUME NEW k \in 0..N, k < N, k \in P PROVE k + 1 \in P
  <2>1. k + 1 \in 0..N /\ k + 1 # 0 /\ (k + 1) - 1 = k
    BY <1>5
  <2>2. split[k + 1] = TakeWord(split[k], w, k + 1)
    BY <1>3, <2>1
  <2>3. LoopOK(TakeWord(split[k], w, k + 1), w, k + 1)
    <3>1. LoopOK(split[k], w, k)
      BY <1>5
    <3>2. CASE k = 0
      <4>1. LoopOK(split[k], w, 0)
        BY <3>1, <3>2
      <4>2. LoopOK(TakeWord(split[k], w, 1), w, 1)
        BY <4>1, LoopStarts
      <4>. QED
        BY <3>2, <4>2
    <3>3. CASE k # 0
      <4>1. k \in 1..N
        BY <3>3
      <4>2. CASE SpeakerOf(w[k + 1]) = split[k].run.speaker
        BY <1>5, <3>1, <4>1, <4>2, LoopGoesOn
      <4>3. CASE SpeakerOf(w[k + 1]) # split[k].run.speaker
        BY <1>5, <3>1, <4>1, <4>3, LoopTurns
      <4>. QED
        BY <4>2, <4>3
    <3>. QED
      BY <3>2, <3>3
  <2>. QED
    BY <2>1, <2>2, <2>3
<1>. HIDE DEF P
<1>6. \A k \in 0..N : k \in P
  BY <1>4, <1>5, UpTo
<1>7. LoopOK(split[N], w, N) /\ N \in 1..N
  BY <1>6 DEF P
<1>8. Cut(Flush(split[N]).runs, w, N)
  BY <1>7, FlushCuts
<1>. QED
  BY <1>2, <1>8
-----------------------------------------------------------------------------
(* The filter *)

HasText(w, a, b) == \E k \in a..b : w[k].text

\* Words a to b are a run that is not to be made longer, of a transcript of N words.
Maximal(w, N, a, b) ==
    SpokenBy(w, a, b) /\ (b = N \/ SpeakerOf(w[b + 1]) # SpeakerOf(w[a]))

\* The runs kept of the first m words: their first and last words, in order, and no
\* run with text of these words is missing.
KeptAre(q, w, N, m, from, to) ==
    /\ q \in Seq(RunType)
    /\ from \in [1..Len(q) -> 1..N] /\ to \in [1..Len(q) -> 1..N]
    /\ \A k \in 1..Len(q) :
         /\ from[k] <= to[k] /\ to[k] <= m /\ q[k] = RunRecord(w, from[k], to[k])
         /\ Maximal(w, N, from[k], to[k]) /\ HasText(w, from[k], to[k])
    /\ \A k, l \in 1..Len(q) : k < l => from[k] < from[l]
    /\ \A i, j \in 1..N : i <= j /\ j <= m /\ Maximal(w, N, i, j) /\ HasText(w, i, j) =>
         \E k \in 1..Len(q) : from[k] = i /\ to[k] = j

Kept(q, w, N, m) == \E from, to : KeptAre(q, w, N, m, from, to)

LEMMA KeptNothing ==
    ASSUME NEW N \in Nat, NEW w, NEW q, q = <<>> PROVE Kept(q, w, N, 0)
<1>1. q \in Seq(RunType) /\ Len(q) = 0
  BY EmptySeq
<1>2. PICK none : none \in [1..0 -> 1..N]
  BY [k \in 1..0 |-> k] \in [1..0 -> 1..N]
<1>3. 1..Len(q) = {} /\ 1..0 = {}
  BY <1>1
<1>4. ASSUME NEW i \in 1..N, NEW j \in 1..N, i <= j, j <= 0 PROVE FALSE
  BY <1>4
<1>5. KeptAre(q, w, N, 0, none, none)
  BY <1>1, <1>2, <1>3, <1>4 DEF KeptAre
<1>. QED
  BY <1>5 DEF Kept

\* Of the words m + 1 to b, a maximal run, no other maximal run has the last word.
LEMMA OneMaximal ==
    ASSUME NEW N \in Nat, NEW w, NEW m \in Nat, NEW b \in (m + 1)..N, Maximal(w, N, m + 1, b),
           NEW i \in 1..N, NEW j \in 1..N, i <= j, j <= b, j > m, Maximal(w, N, i, j)
    PROVE  i = m + 1 /\ j = b
<1>1. /\ \A k \in (m + 1)..b : SpeakerOf(w[k]) = SpeakerOf(w[m + 1])
      /\ m + 1 = 1 \/ SpeakerOf(w[m]) # SpeakerOf(w[m + 1])
  <2>1. (m + 1) - 1 = m
    OBVIOUS
  <2>. QED
    BY <2>1 DEF Maximal, SpokenBy
<1>2. /\ \A k \in i..j : SpeakerOf(w[k]) = SpeakerOf(w[i])
      /\ i = 1 \/ SpeakerOf(w[i - 1]) # SpeakerOf(w[i])
      /\ j = N \/ SpeakerOf(w[j + 1]) # SpeakerOf(w[i])
  BY DEF Maximal, SpokenBy
<1>3. j \in (m + 1)..b /\ j \in i..j
  OBVIOUS
<1>4. SpeakerOf(w[i]) = SpeakerOf(w[m + 1])
  BY <1>1, <1>2, <1>3
<1>5. j = b
  <2>. SUFFICES ASSUME j < b PROVE FALSE
    OBVIOUS
  <2>1. j + 1 \in (m + 1)..b /\ j # N
    BY <1>3
  <2>. QED
    BY <1>1, <1>2, <1>4, <2>1
<1>6. ~(i <= m)
  <2>. SUFFICES ASSUME i <= m PROVE FALSE
    OBVIOUS
  <2>1. m \in i..j /\ m + 1 # 1
    OBVIOUS
  <2>. QED
    BY <1>1, <1>2, <1>4, <2>1
<1>7. ~(i > m + 1)
  <2>. SUFFICES ASSUME i > m + 1 PROVE FALSE
    OBVIOUS
  <2>1. i - 1 \in (m + 1)..b /\ i # 1
    OBVIOUS
  <2>. QED
    BY <1>1, <1>2, <1>4, <2>1
<1>. QED
  BY <1>5, <1>6, <1>7

\* A run without text is not kept.
LEMMA KeptSkip ==
    ASSUME NEW N \in Nat, NEW w, NEW q, NEW m \in Nat, Kept(q, w, N, m), NEW b \in (m + 1)..N,
           Maximal(w, N, m + 1, b), ~HasText(w, m + 1, b)
    PROVE  Kept(q, w, N, b)
<1>1. PICK from, to : KeptAre(q, w, N, m, from, to)
  BY DEF Kept
<1>. DEFINE L == Len(q)
<1>2. /\ q \in Seq(RunType) /\ from \in [1..L -> 1..N] /\ to \in [1..L -> 1..N]
      /\ \A k \in 1..L :
           /\ from[k] <= to[k] /\ to[k] <= m /\ q[k] = RunRecord(w, from[k], to[k])
           /\ Maximal(w, N, from[k], to[k]) /\ HasText(w, from[k], to[k])
      /\ \A k, l \in 1..L : k < l => from[k] < from[l]
      /\ \A i, j \in 1..N : i <= j /\ j <= m /\ Maximal(w, N, i, j) /\ HasText(w, i, j) =>
           \E k \in 1..L : from[k] = i /\ to[k] = j
  BY <1>1 DEF KeptAre
<1>. HIDE DEF L
<1>3. \A k \in 1..L : to[k] <= b
  <2>1. \A k \in 1..L : to[k] \in 1..N /\ to[k] <= m
    BY <1>2
  <2>. QED
    BY <2>1
<1>4. ASSUME NEW i \in 1..N, NEW j \in 1..N, i <= j, j <= b, Maximal(w, N, i, j), HasText(w, i, j)
      PROVE  \E k \in 1..L : from[k] = i /\ to[k] = j
  <2>1. CASE j <= m
    BY <1>2, <1>4, <2>1
  <2>2. CASE j > m
    <3>1. i = m + 1 /\ j = b
      BY <1>4, <2>2, OneMaximal
    <3>. QED
      BY <1>4, <3>1
  <2>. QED
    BY <2>1, <2>2
<1>5. KeptAre(q, w, N, b, from, to)
  BY <1>2, <1>3, <1>4 DEF KeptAre, L
<1>. QED
  BY <1>5 DEF Kept

\* One with text is, after the others.
LEMMA KeptAppend ==
    ASSUME NEW N \in Nat, NEW w, NEW q, NEW m \in Nat, Kept(q, w, N, m), NEW b \in (m + 1)..N,
           Maximal(w, N, m + 1, b), HasText(w, m + 1, b), NEW r \in RunType, r = RunRecord(w, m + 1, b)
    PROVE  Kept(Append(q, r), w, N, b)
<1>. DEFINE longer == Append(q, r)
            L == Len(q)
<1>1. PICK from, to : KeptAre(q, w, N, m, from, to)
  BY DEF Kept
<1>2. /\ q \in Seq(RunType) /\ from \in [1..L -> 1..N] /\ to \in [1..L -> 1..N]
      /\ \A k \in 1..L :
           /\ from[k] <= to[k] /\ to[k] <= m /\ q[k] = RunRecord(w, from[k], to[k])
           /\ Maximal(w, N, from[k], to[k]) /\ HasText(w, from[k], to[k])
      /\ \A k, l \in 1..L : k < l => from[k] < from[l]
      /\ \A i, j \in 1..N : i <= j /\ j <= m /\ Maximal(w, N, i, j) /\ HasText(w, i, j) =>
           \E k \in 1..L : from[k] = i /\ to[k] = j
  BY <1>1 DEF KeptAre
<1>3. /\ longer \in Seq(RunType) /\ Len(longer) = L + 1 /\ L \in Nat
      /\ \A k \in 1..L : longer[k] = q[k]
      /\ longer[L + 1] = r
  BY <1>2, AppendProperties, LenProperties
<1>. HIDE DEF longer, L
<1>. DEFINE f == [k \in 1..L + 1 |-> IF k = L + 1 THEN m + 1 ELSE from[k]]
            g == [k \in 1..L + 1 |-> IF k = L + 1 THEN b ELSE to[k]]
<1>4. \A k \in 1..L : /\ from[k] \in 1..N /\ to[k] \in 1..N /\ from[k] <= to[k] /\ to[k] <= m
                      /\ k # L + 1 /\ k \in 1..L + 1
  BY <1>2, <1>3
<1>5. \A k \in 1..L + 1 : k = L + 1 \/ k \in 1..L
  BY <1>3
<1>6. m + 1 \in 1..N /\ b \in 1..N /\ m + 1 <= b /\ L + 1 \in 1..L + 1
  BY <1>3
<1>7. (\A k \in 1..L : f[k] = from[k] /\ g[k] = to[k]) /\ f[L + 1] = m + 1 /\ g[L + 1] = b
  BY <1>4, <1>6
<1>8. f \in [1..L + 1 -> 1..N] /\ g \in [1..L + 1 -> 1..N]
  <2>1. \A k \in 1..L + 1 : f[k] \in 1..N /\ g[k] \in 1..N
    BY <1>4, <1>5, <1>6, <1>7
  <2>. QED
    BY <2>1
<1>. HIDE DEF f, g
<1>9. ASSUME NEW k \in 1..L + 1
      PROVE  /\ f[k] <= g[k] /\ g[k] <= b /\ longer[k] = RunRecord(w, f[k], g[k])
             /\ Maximal(w, N, f[k], g[k]) /\ HasText(w, f[k], g[k])
  <2>1. CASE k = L + 1
    <3>1. f[k] = m + 1 /\ g[k] = b /\ longer[k] = r
      BY <1>3, <1>7, <2>1
    <3>2. b <= b
      OBVIOUS
    <3>. QED
      BY <1>6, <3>1, <3>2
  <2>2. CASE k \in 1..L
    <3>1. f[k] = from[k] /\ g[k] = to[k] /\ longer[k] = q[k]
      BY <1>3, <1>7, <2>2
    <3>2. to[k] <= b
      BY <1>4, <2>2
    <3>. QED
      BY <1>2, <2>2, <3>1, <3>2
  <2>. QED
    BY <1>5, <2>1, <2>2
<1>10. ASSUME NEW k \in 1..L + 1, NEW l \in 1..L + 1, k < l PROVE f[k] < f[l]
  <2>1. k \in 1..L
    BY <1>3, <1>10
  <2>2. CASE l = L + 1
    <3>1. f[k] = from[k] /\ f[l] = m + 1
      BY <1>7, <2>1, <2>2
    <3>2. from[k] < m + 1
      BY <1>4, <2>1
    <3>. QED
      BY <3>1, <3>2
  <2>3. CASE l \in 1..L
    BY <1>2, <1>7, <1>10, <2>1, <2>3
  <2>. QED
    BY <1>5, <2>2, <2>3
<1>11. ASSUME NEW i \in 1..N, NEW j \in 1..N, i <= j, j <= b, Maximal(w, N, i, j), HasText(w, i, j)
       PROVE  \E k \in 1..L + 1 : f[k] = i /\ g[k] = j
  <2>1. CASE j <= m
    <3>1. PICK k \in 1..L : from[k] = i /\ to[k] = j
      BY <1>2, <1>11, <2>1
    <3>. QED
      BY <1>4, <1>7, <3>1
  <2>2. CASE j > m
    <3>1. i = m + 1 /\ j = b
      BY <1>11, <2>2, OneMaximal
    <3>. QED
      BY <1>6, <1>7, <3>1
  <2>. QED
    BY <2>1, <2>2
<1>12. KeptAre(longer, w, N, b, f, g)
  BY <1>3, <1>8, <1>9, <1>10, <1>11 DEF KeptAre
<1>. QED
  BY <1>12 DEF Kept, longer

\* The equations of the filter.
KeptOver(kept, runs, words, n) ==
    kept = [k \in 0..n |->
              IF k = 0 THEN <<>>
              ELSE IF \E i \in runs[k].words : words[i].text THEN Append(kept[k - 1], runs[k])
              ELSE kept[k - 1]]

LEMMA KeptSolved == ASSUME NEW n \in Nat, NEW runs, NEW words PROVE \E kept : KeptOver(kept, runs, words, n)
<1>. DEFINE P == {m \in 0..n : \E kept : KeptOver(kept, runs, words, m)}
            T(k) == \E i \in runs[k].words : words[i].text
            More(q, k) == IF T(k) THEN Append(q, runs[k]) ELSE q
<1>1. 0 \in P
  <2>1. KeptOver([k \in 0..0 |-> <<>>], runs, words, 0)
    BY DEF KeptOver
  <2>. QED
    BY <2>1
<1>2. ASSUME NEW m \in 0..n, m < n, m \in P PROVE m + 1 \in P
  <2>1. PICK g : KeptOver(g, runs, words, m)
    BY <1>2
  <2>. DEFINE f == [k \in 0..m + 1 |-> IF k = m + 1 THEN More(g[m], m + 1) ELSE g[k]]
  <2>. HIDE DEF More
  <2>2. \A k \in 0..m : f[k] = g[k]
    OBVIOUS
  <2>3. f[m + 1] = More(g[m], m + 1)
    OBVIOUS
  <2>4. f = [k \in 0..m + 1 |-> f[k]]
    OBVIOUS
  <2>. HIDE DEF f
  <2>5. ASSUME NEW k \in 0..m + 1 PROVE f[k] = IF k = 0 THEN <<>> ELSE More(f[k - 1], k)
    <3>1. CASE k = m + 1
      <4>1. m \in 0..m /\ k # 0 /\ k - 1 = m
        BY <3>1
      <4>. QED
        BY <2>2, <2>3, <3>1, <4>1
    <3>2. CASE k # m + 1
      <4>1. k \in 0..m
        BY <3>2
      <4>2. g[k] = IF k = 0 THEN <<>> ELSE More(g[k - 1], k)
        BY <2>1, <4>1 DEF KeptOver, More
      <4>3. CASE k = 0
        BY <2>2, <4>1, <4>2, <4>3
      <4>4. CASE k # 0
        <5>1. k - 1 \in 0..m
          BY <4>1, <4>4
        <5>. QED
          BY <2>2, <4>1, <4>2, <4>4, <5>1
      <4>. QED
        BY <4>3, <4>4
    <3>. QED
      BY <3>1, <3>2
  <2>6. KeptOver(f, runs, words, m + 1)
    BY <2>4, <2>5 DEF KeptOver, More
  <2>7. m + 1 \in 0..n
    BY <1>2
  <2>. QED
    BY <2>6, <2>7
<1>. HIDE DEF P
<1>3. \A m \in 0..n : m \in P
  BY <1>1, <1>2, UpTo
<1>. QED
  BY <1>3 DEF P

LEMMA KeptUnfolds ==
    ASSUME NEW runs, NEW words, NEW n, n = Len(runs), NEW g, KeptOver(g, runs, words, n)
    PROVE  \E kept : KeptOver(kept, runs, words, n) /\ WithText(runs, words) = kept[n]
BY DEF WithText, KeptOver

\* What splitSpeakerRuns returns.
LEMMA SplitKeeps ==
    ASSUME NEW N \in Nat, N > 0, NEW w \in [1..N -> Words], Len(w) = N
    PROVE  Kept(SplitSpeakerRuns(w), w, N, N)
<1>. DEFINE runs == SpeakerRuns(w)
            L == Len(runs)
<1>1. PICK end : RunsEndAt(runs, w, N, end)
  BY SpeakerRunsCut DEF Cut
<1>2. /\ runs \in Seq(RunType) /\ end \in [0..L -> 0..N] /\ end[0] = 0 /\ end[L] = N
      /\ \A k \in 1..L : /\ end[k - 1] < end[k]
                         /\ runs[k] = RunRecord(w, end[k - 1] + 1, end[k])
                         /\ SpokenBy(w, end[k - 1] + 1, end[k])
  BY <1>1 DEF RunsEndAt
<1>. HIDE DEF runs
<1>3. L \in Nat
  BY <1>2, LenProperties
<1>4. PICK g : KeptOver(g, runs, w, L)
  BY <1>3, KeptSolved
<1>5. PICK kept : KeptOver(kept, runs, w, L) /\ WithText(runs, w) = kept[L]
  BY <1>4, KeptUnfolds
<1>. HIDE DEF L
<1>6. \A k \in 0..L : kept[k] =
        IF k = 0 THEN <<>>
        ELSE IF \E i \in runs[k].words : w[i].text THEN Append(kept[k - 1], runs[k])
        ELSE kept[k - 1]
  BY <1>5 DEF KeptOver
<1>. DEFINE P == {k \in 0..L : Kept(kept[k], w, N, end[k])}
<1>7. 0 \in P
  <2>1. kept[0] = <<>> /\ 0 \in 0..L
    BY <1>3, <1>6
  <2>2. Kept(kept[0], w, N, 0)
    BY <2>1, KeptNothing
  <2>. QED
    BY <1>2, <2>1, <2>2
<1>8. ASSUME NEW k \in 0..L, k < L, k \in P PROVE k + 1 \in P
  <2>1. k + 1 \in 1..L /\ k + 1 \in 0..L /\ k + 1 # 0 /\ (k + 1) - 1 = k
    BY <1>3, <1>8
  <2>. DEFINE m == end[k]
              b == end[k + 1]
              r == runs[k + 1]
  <2>2. /\ m \in 0..N /\ b \in 0..N /\ m < b /\ r = RunRecord(w, m + 1, b) /\ SpokenBy(w, m + 1, b)
        /\ Kept(kept[k], w, N, m)
    BY <1>2, <1>8, <2>1
  <2>3. Maximal(w, N, m + 1, b)
    <3>1. CASE k + 1 = L
      <4>1. b = N
        BY <1>2, <3>1
      <4>. QED
        BY <2>2, <4>1 DEF Maximal
    <3>2. CASE k + 1 # L
      <4>1. k + 2 \in 1..L /\ (k + 2) - 1 = k + 1
        BY <1>3, <2>1, <3>2
      <4>2. SpokenBy(w, b + 1, end[k + 2])
        BY <1>2, <4>1
      <4>3. b + 1 # 1 /\ (b + 1) - 1 = b /\ b \in (m + 1)..b
        BY <2>2
      <4>4. SpeakerOf(w[b]) # SpeakerOf(w[b + 1])
        BY <4>2, <4>3 DEF SpokenBy
      <4>5. SpeakerOf(w[b]) = SpeakerOf(w[m + 1])
        BY <2>2, <4>3 DEF SpokenBy
      <4>. QED
        BY <2>2, <4>4, <4>5 DEF Maximal
    <3>. QED
      BY <3>1, <3>2
  <2>4. m \in Nat /\ b \in (m + 1)..N /\ m + 1 \in 1..N /\ b \in 1..N
    BY <2>2
  <2>5. r \in RunType
    BY <2>2, <2>4, RunTyped
  <2>6. (\E i \in r.words : w[i].text) <=> HasText(w, m + 1, b)
    BY <2>2 DEF HasText, RunRecord
  <2>7. kept[k + 1] = IF HasText(w, m + 1, b) THEN Append(kept[k], r) ELSE kept[k]
    BY <1>6, <2>1, <2>6
  <2>. HIDE DEF m, b, r
  <2>8. Kept(kept[k + 1], w, N, b)
    <3>1. CASE HasText(w, m + 1, b)
      <4>1. Kept(Append(kept[k], r), w, N, b)
        BY <2>2, <2>3, <2>4, <2>5, <3>1, KeptAppend
      <4>. QED
        BY <2>7, <3>1, <4>1
    <3>2. CASE ~HasText(w, m + 1, b)
      <4>1. Kept(kept[k], w, N, b)
        BY <2>2, <2>3, <2>4, <3>2, KeptSkip
      <4>. QED
        BY <2>7, <3>2, <4>1
    <3>. QED
      BY <3>1, <3>2
  <2>. QED
    BY <2>1, <2>8 DEF b
<1>. HIDE DEF P
<1>9. \A k \in 0..L : k \in P
  BY <1>3, <1>7, <1>8, UpTo
<1>10. Kept(kept[L], w, N, N)
  <2>1. L \in 0..L
    BY <1>3
  <2>. QED
    BY <1>2, <1>9, <2>1 DEF P
<1>. QED
  BY <1>5, <1>10 DEF runs, SplitSpeakerRuns
-----------------------------------------------------------------------------
(* Counting *)

Before(S, x) == {s \in S : s[1] <= x}

\* K pairs in order of their first components: there are K, and the k-th is the k-th.
LEMMA Ranks ==
    ASSUME NEW K \in Nat, NEW S, NEW f \in [1..K -> S], \A s \in S : \E k \in 1..K : f[k] = s,
           \A k \in 1..K : f[k][1] \in Nat, \A k, l \in 1..K : k < l => f[k][1] < f[l][1]
    PROVE  /\ Cardinality(S) = K
           /\ \A k \in 1..K : Cardinality(Before(S, f[k][1])) = k
<1>1. ASSUME NEW k \in 0..K, NEW T, T \subseteq S, \A i \in 1..K : f[i] \in T <=> i <= k
      PROVE  Cardinality(T) = k
  <2>. DEFINE g == [i \in 1..k |-> f[i]]
  <2>1. \A i \in 1..k : i \in 1..K /\ g[i] = f[i] /\ f[i] \in T
    BY <1>1
  <2>2. g \in [1..k -> T]
    BY <2>1
  <2>3. \A i, j \in 1..k : g[i] = g[j] => i = j
    <3>1. ASSUME NEW i \in 1..k, NEW j \in 1..k, i < j PROVE g[i] # g[j]
      <4>1. f[i][1] < f[j][1] /\ f[i][1] \in Nat /\ f[j][1] \in Nat
        BY <2>1, <3>1
      <4>. QED
        BY <2>1, <4>1
    <3>. HIDE DEF g
    <3>2. \A i, j \in 1..k : i < j \/ j < i \/ i = j
      OBVIOUS
    <3>. QED
      BY <3>1, <3>2
  <2>4. \A s \in T : \E i \in 1..k : g[i] = s
    <3>. SUFFICES ASSUME NEW s \in T PROVE \E i \in 1..k : g[i] = s
      OBVIOUS
    <3>1. PICK i \in 1..K : f[i] = s
      BY <1>1
    <3>2. i \in 1..k
      BY <1>1, <3>1
    <3>. QED
      BY <2>1, <3>1, <3>2
  <2>. HIDE DEF g
  <2>5. g \in Bijection(1..k, T)
    BY <2>2, <2>3, <2>4 DEF Bijection, Injection, IsInjective, Surjection
  <2>6. ExistsBijection(1..k, T) /\ k \in Nat
    BY <2>5 DEF ExistsBijection
  <2>. QED
    BY <2>6, FS_CountingElements
<1>2. Cardinality(S) = K
  <2>1. \A i \in 1..K : f[i] \in S <=> i <= K
    OBVIOUS
  <2>. QED
    BY <1>1, <2>1
<1>3. ASSUME NEW k \in 1..K PROVE Cardinality(Before(S, f[k][1])) = k
  <2>. DEFINE T == {s \in S : s[1] <= f[k][1]}
  <2>1. ASSUME NEW i \in 1..K PROVE f[i] \in T <=> i <= k
    <3>1. f[i][1] \in Nat /\ f[k][1] \in Nat /\ (i < k => f[i][1] < f[k][1]) /\ (k < i => f[k][1] < f[i][1])
      OBVIOUS
    <3>2. f[i][1] <= f[k][1] <=> i <= k
      BY <3>1
    <3>. QED
      BY <3>2
  <2>2. T \subseteq S /\ k \in 0..K
    OBVIOUS
  <2>. HIDE DEF T
  <2>3. Cardinality(T) = k
    BY <1>1, <2>1, <2>2
  <2>. QED
    BY <2>3 DEF T, Before
<1>. QED
  BY <1>2, <1>3

\* The runs of splitSpeakerRuns are all the maximal runs with text, in order.
LEMMA SplitIsRuns ==
    ASSUME NEW N \in Nat, N > 0, NEW w \in [1..N -> Words], Len(w) = N, NEW S,
           \A r : r \in S <=> /\ r \in (1..N) \X (1..N) /\ r[1] <= r[2]
                              /\ Maximal(w, N, r[1], r[2]) /\ HasText(w, r[1], r[2])
    PROVE  /\ SplitSpeakerRuns(w) \in Seq(RunType)
           /\ Len(SplitSpeakerRuns(w)) = Cardinality(S)
           /\ \A r \in S : /\ Cardinality(Before(S, r[1])) \in 1..Len(SplitSpeakerRuns(w))
                           /\ SplitSpeakerRuns(w)[Cardinality(Before(S, r[1]))] = RunRecord(w, r[1], r[2])
<1>. DEFINE q == SplitSpeakerRuns(w)
            K == Len(q)
<1>1. PICK from, to : KeptAre(q, w, N, N, from, to)
  BY SplitKeeps DEF Kept
<1>. HIDE DEF q
<1>2. /\ q \in Seq(RunType) /\ from \in [1..K -> 1..N] /\ to \in [1..K -> 1..N]
      /\ \A k \in 1..K :
           /\ from[k] <= to[k] /\ q[k] = RunRecord(w, from[k], to[k])
           /\ Maximal(w, N, from[k], to[k]) /\ HasText(w, from[k], to[k])
      /\ \A k, l \in 1..K : k < l => from[k] < from[l]
      /\ \A i, j \in 1..N : i <= j /\ j <= N /\ Maximal(w, N, i, j) /\ HasText(w, i, j) =>
           \E k \in 1..K : from[k] = i /\ to[k] = j
  BY <1>1 DEF KeptAre
<1>3. K \in Nat
  BY <1>2, LenProperties
<1>. HIDE DEF K
<1>. DEFINE f == [k \in 1..K |-> <<from[k], to[k]>>]
<1>4. ASSUME NEW k \in 1..K PROVE f[k] = <<from[k], to[k]>> /\ f[k][1] = from[k] /\ f[k][2] = to[k] /\ f[k][1] \in Nat /\ f[k] \in S
  <2>1. f[k] = <<from[k], to[k]>> /\ f[k][1] = from[k] /\ f[k][2] = to[k]
    OBVIOUS
  <2>2. from[k] \in 1..N /\ to[k] \in 1..N
    BY <1>2
  <2>3. f[k] \in (1..N) \X (1..N)
    BY <2>1, <2>2
  <2>. HIDE DEF f
  <2>4. from[k] <= to[k] /\ Maximal(w, N, from[k], to[k]) /\ HasText(w, from[k], to[k])
    BY <1>2
  <2>5. f[k][1] <= f[k][2] /\ Maximal(w, N, f[k][1], f[k][2]) /\ HasText(w, f[k][1], f[k][2])
    BY <2>1, <2>4, Zenon
  <2>6. f[k] \in S
    BY <2>3, <2>5, Zenon
  <2>7. f[k][1] \in Nat
    <3>1. \A x \in 1..N : x \in Nat
      OBVIOUS
    <3>. QED
      BY <2>1, <2>2, <3>1, Zenon
  <2>. QED
    BY <2>1, <2>6, <2>7, Zenon
<1>5. f \in [1..K -> S]
  BY <1>4
<1>. HIDE DEF f
<1>6. ASSUME NEW s \in S PROVE \E k \in 1..K : f[k] = s
  <2>1. /\ s \in (1..N) \X (1..N) /\ s[1] <= s[2] /\ Maximal(w, N, s[1], s[2]) /\ HasText(w, s[1], s[2])
    OBVIOUS
  <2>2. s[1] \in 1..N /\ s[2] \in 1..N /\ s[2] <= N /\ s = <<s[1], s[2]>>
    BY <2>1
  <2>3. PICK k \in 1..K : from[k] = s[1] /\ to[k] = s[2]
    BY <1>2, <2>1, <2>2
  <2>. QED
    BY <1>4, <2>2, <2>3, SMTT(40)
<1>7. \A k, l \in 1..K : k < l => f[k][1] < f[l][1]
  BY <1>2, <1>4, SMTT(40)
<1>8. /\ Cardinality(S) = K
      /\ \A k \in 1..K : Cardinality(Before(S, f[k][1])) = k
  <2>1. (\A s \in S : \E k \in 1..K : f[k] = s) /\ (\A k \in 1..K : f[k][1] \in Nat)
    BY <1>4, <1>6
  <2>. QED
    BY <1>3, <1>5, <1>7, <2>1, Ranks
<1>9. ASSUME NEW r \in S
      PROVE  /\ Cardinality(Before(S, r[1])) \in 1..K
             /\ q[Cardinality(Before(S, r[1]))] = RunRecord(w, r[1], r[2])
  <2>1. PICK k \in 1..K : f[k] = r
    BY <1>6
  <2>2. Cardinality(Before(S, r[1])) = k
    BY <1>8, <2>1
  <2>3. q[k] = RunRecord(w, r[1], r[2])
    BY <1>2, <1>4, <2>1
  <2>. QED
    BY <2>2, <2>3
<1>. QED
  BY <1>2, <1>8, <1>9 DEF q, K
-----------------------------------------------------------------------------
(* Segments *)

LEMMA LenOf ==
    ASSUME NEW K \in Nat, NEW S, NEW e \in [1..K -> S]
    PROVE  e \in Seq(S) /\ Len(e) = K
<1>1. e \in Seq(S)
  BY SeqDef
<1>2. Len(e) \in Nat /\ DOMAIN e = 1..Len(e)
  BY <1>1, LenProperties
<1>3. 1..Len(e) = 1..K
  BY <1>2
<1>. QED
  BY <1>1, <1>2, <1>3

\* The words of a transcript.
LEMMA WordsOf ==
    ASSUME NEW t \in Transcripts
    PROVE  /\ t.words \in Seq(Words) /\ Len(t.words) \in 0..MaxWords
           /\ t.words \in [1..Len(t.words) -> Words] /\ DOMAIN t.words = 1..Len(t.words)
           /\ t.words # <<>> => Len(t.words) > 0
           /\ t.final \in BOOLEAN
<1>1. PICK n \in 0..MaxWords : t.words \in [1..n -> Words]
  BY DEF Transcripts
<1>2. n \in Nat
  BY SegmentsAssumption
<1>3. t.words \in Seq(Words) /\ Len(t.words) = n
  BY <1>1, <1>2, LenOf
<1>4. t.words # <<>> => Len(t.words) \in Nat \ {0}
  BY <1>3, EmptySeq
<1>5. t.final \in BOOLEAN
  BY DEF Transcripts
<1>. QED
  BY <1>1, <1>2, <1>3, <1>4, <1>5

SegmentType == [speaker : Speakers \cup {"me", "speaker_unknown"}, words : SUBSET (1..MaxWords),
                start : 0..MaxWords, sure : SUBSET (1..MaxWords), final : BOOLEAN]

LEMMA Labelled ==
    ASSUME NEW s \in Speakers, NEW self
    PROVE  LabelSpeaker(s, self) \in Speakers \cup {"me"}
           /\ LabelSpeaker(s, NoSpeaker) = s
BY DEF LabelSpeaker, Speakers, NoSpeaker

\* A transcript that is split: its segments are the maximal runs with text.
LEMMA SplitSegments ==
    ASSUME NEW t \in Transcripts, t.words # <<>>, NEW self, NEW S,
           \A r : r \in S <=> /\ r \in (DOMAIN t.words) \X (DOMAIN t.words) /\ r[1] <= r[2]
                              /\ Maximal(t.words, Len(t.words), r[1], r[2]) /\ HasText(t.words, r[1], r[2])
    PROVE  /\ Split(t, self) \in Seq(SegmentType)
           /\ Len(Split(t, self)) = Cardinality(S)
           /\ \A r \in S : Split(t, self)[Cardinality(Before(S, r[1]))] =
                Segment(LabelSpeaker(SpeakerOf(t.words[r[1]]), self),
                        [words |-> r[1]..r[2], start |-> r[1], sure |-> {k \in r[1]..r[2] : t.words[k].sure}], TRUE)
<1>. DEFINE w == t.words
            N == Len(w)
            q == SplitSpeakerRuns(w)
            e == Split(t, self)
            K == Len(q)
<1>1. /\ N \in Nat /\ N \in 0..MaxWords /\ N > 0 /\ w \in [1..N -> Words] /\ DOMAIN w = 1..N
  BY WordsOf, SegmentsAssumption
<1>2. \A r : r \in S <=> /\ r \in (1..N) \X (1..N) /\ r[1] <= r[2]
                         /\ Maximal(w, N, r[1], r[2]) /\ HasText(w, r[1], r[2])
  BY <1>1
<1>3. e = [k \in DOMAIN q |-> Segment(LabelSpeaker(q[k].speaker, self), q[k], TRUE)]
  BY DEF Split
<1>n. N = Len(w)
  OBVIOUS
<1>. HIDE DEF w, N, q, e
<1>4. /\ q \in Seq(RunType) /\ K = Cardinality(S)
      /\ \A r \in S : /\ Cardinality(Before(S, r[1])) \in 1..K
                      /\ q[Cardinality(Before(S, r[1]))] = RunRecord(w, r[1], r[2])
  BY <1>1, <1>2, <1>n, SplitIsRuns, SMTT(40) DEF q
<1>5. K \in Nat /\ DOMAIN q = 1..K
  BY <1>4, LenProperties
<1>6. PICK from, to : KeptAre(q, w, N, N, from, to)
  BY <1>1, <1>n, SplitKeeps DEF Kept, q
<1>7. \A k \in 1..K : from[k] \in 1..N /\ to[k] \in 1..N /\ q[k] = RunRecord(w, from[k], to[k])
  BY <1>6 DEF KeptAre
<1>. HIDE DEF K
<1>8. ASSUME NEW k \in 1..K PROVE e[k] \in SegmentType
  <2>. DEFINE a == from[k]
              b == to[k]
              p == LabelSpeaker(SpeakerOf(w[a]), self)
              sure == {i \in a..b : w[i].sure}
  <2>1. a \in 1..N /\ b \in 1..N /\ q[k] = RunRecord(w, a, b)
    BY <1>7
  <2>2. e[k] = Segment(LabelSpeaker(q[k].speaker, self), q[k], TRUE)
    BY <1>3, <1>5
  <2>3. e[k] = [speaker |-> p, words |-> a..b, start |-> a, sure |-> sure, final |-> TRUE]
    BY <2>1, <2>2 DEF Segment, RunRecord
  <2>. HIDE DEF a, b
  <2>4. w[a] \in Words
    BY <1>1, <2>1
  <2>5. p \in Speakers \cup {"me", "speaker_unknown"}
    BY <2>4, SpeakerTypes, Labelled
  <2>6. a..b \in SUBSET (1..MaxWords) /\ sure \in SUBSET (1..MaxWords) /\ a \in 0..MaxWords
    BY <1>1, <2>1, SegmentsAssumption
  <2>. HIDE DEF p, sure
  <2>. QED
    BY <2>3, <2>5, <2>6 DEF SegmentType
<1>9. e \in [1..K -> SegmentType]
  BY <1>3, <1>5, <1>8
<1>10. e \in Seq(SegmentType) /\ Len(e) = K
  BY <1>5, <1>9, LenOf
<1>11. ASSUME NEW r \in S
       PROVE  e[Cardinality(Before(S, r[1]))] =
                Segment(LabelSpeaker(SpeakerOf(w[r[1]]), self),
                        [words |-> r[1]..r[2], start |-> r[1], sure |-> {k \in r[1]..r[2] : w[k].sure}], TRUE)
  <2>. DEFINE c == Cardinality(Before(S, r[1]))
  <2>1. c \in 1..K /\ q[c] = RunRecord(w, r[1], r[2])
    BY <1>4
  <2>. HIDE DEF c
  <2>2. e[c] = Segment(LabelSpeaker(q[c].speaker, self), q[c], TRUE)
    BY <1>3, <1>5, <2>1
  <2>. QED
    BY <2>1, <2>2 DEF Segment, RunRecord, c
<1>. QED
  BY <1>4, <1>10, <1>11 DEF e, w

\* Who said the words: of two speakers one said at least as many as the other, and of
\* two who said as many the first words are not the same.
Said(w, s) == {i \in DOMAIN w : SpeakerOf(w[i]) = s}

LEMMA Least == ASSUME NEW S, S \subseteq Nat, S # {} PROVE Min(S) \in S /\ \A x \in S : Min(S) <= x
<1>1. PICK x \in S : \A y \in S : ~(<<y, x>> \in OpToRel(<, Nat))
  BY NatLessThanWellFounded, WFMin
<1>2. ASSUME NEW y \in S PROVE x <= y
  <2>1. x \in Nat /\ y \in Nat
    OBVIOUS
  <2>2. ~(y < x)
    BY <1>1, <2>1 DEF OpToRel
  <2>. QED
    BY <2>1, <2>2
<1>. QED
  BY <1>2 DEF Min

LEMMA DominantSaysMost ==
    ASSUME NEW N \in Nat, NEW w \in [1..N -> Words], w # <<>>, N > 0
    PROVE  /\ DominantSpeaker(w) \in Speakers
           /\ \A o \in Speakers : Cardinality(Said(w, o)) <= Cardinality(Said(w, DominantSpeaker(w)))
<1>. DEFINE said(s) == Said(w, s)
            most == {s \in Speakers : \A o \in Speakers : Cardinality(said(s)) >= Cardinality(said(o))}
            first(s) == \A o \in most \ {s} : said(o) = {} \/ Min(said(s)) < Min(said(o))
<1>1. DominantSpeaker(w) = CHOOSE s \in most : first(s)
  BY DEF DominantSpeaker, Said
<1>2. ASSUME NEW s PROVE IsFiniteSet(said(s)) /\ Cardinality(said(s)) \in Nat /\ said(s) \subseteq 1..N
  <2>1. said(s) \in SUBSET (1..N) /\ IsFiniteSet(1..N)
    BY FS_Interval DEF Said
  <2>. QED
    BY <2>1, FS_Subset, FS_CardinalityType
<1>3. \E s \in most : first(s)
  <2>. DEFINE x == "speaker_0"
              y == "speaker_1"
  <2>1. Speakers = {x, y} /\ x # y
    BY DEF Speakers
  <2>. HIDE DEF x, y
  <2>2. Cardinality(said(x)) \in Nat /\ Cardinality(said(y)) \in Nat
    BY <1>2
  <2>. HIDE DEF said
  <2>3. CASE Cardinality(said(x)) > Cardinality(said(y))
    <3>1. x \in most /\ y \notin most
      BY <2>1, <2>2, <2>3
    <3>2. most \ {x} = {}
      BY <2>1, <3>1
    <3>. QED
      BY <3>1, <3>2
  <2>4. CASE Cardinality(said(x)) < Cardinality(said(y))
    <3>1. y \in most /\ x \notin most
      BY <2>1, <2>2, <2>4
    <3>2. most \ {y} = {}
      BY <2>1, <3>1
    <3>. QED
      BY <3>1, <3>2
  <2>5. CASE Cardinality(said(x)) = Cardinality(said(y))
    <3>1. most = {x, y}
      BY <2>1, <2>2, <2>5
    <3>2. CASE said(y) = {}
      BY <2>1, <3>1, <3>2
    <3>3. CASE said(y) # {}
      <4>1. said(x) # {}
        BY <1>2, <2>5, <3>3, FS_EmptySet
      <4>2. said(x) \subseteq Nat /\ said(y) \subseteq Nat
        <5>1. said(x) \subseteq 1..N /\ said(y) \subseteq 1..N
          BY <1>2
        <5>. QED
          BY <5>1
      <4>3. Min(said(x)) \in said(x) /\ Min(said(y)) \in said(y)
        BY <3>3, <4>1, <4>2, Least
      <4>4. Min(said(x)) # Min(said(y))
        BY <2>1, <4>3 DEF said, Said
      <4>5. Min(said(x)) < Min(said(y)) \/ Min(said(y)) < Min(said(x))
        BY <4>2, <4>3, <4>4
      <4>6. most \ {x} = {y} /\ most \ {y} = {x}
        BY <2>1, <3>1
      <4>. QED
        BY <3>1, <4>5, <4>6
    <3>. QED
      BY <3>2, <3>3
  <2>. QED
    BY <2>2, <2>3, <2>4, <2>5
<1>4. DominantSpeaker(w) \in most
  <2>. HIDE DEF most, first
  <2>. QED
    BY <1>1, <1>3
<1>5. \A o \in Speakers : Cardinality(said(o)) <= Cardinality(said(DominantSpeaker(w)))
  BY <1>2, <1>4
<1>. QED
  BY <1>4, <1>5
LEMMA WholeTyped ==
    ASSUME NEW t \in Transcripts, NEW s \in Speakers \cup {"me", "speaker_unknown"}
    PROVE  /\ Whole(t, s) \in Seq(SegmentType) /\ Len(Whole(t, s)) = 1
           /\ Whole(t, s)[1].words = DOMAIN t.words /\ Whole(t, s)[1].speaker = s
<1>. DEFINE e == Segment(s, [words |-> DOMAIN t.words, start |-> 0, sure |-> {}], t.final)
<1>1. e = [speaker |-> s, words |-> DOMAIN t.words, start |-> 0, sure |-> {}, final |-> t.final]
  BY DEF Segment
<1>2. DOMAIN t.words \in SUBSET (1..MaxWords) /\ {} \in SUBSET (1..MaxWords) /\ 0 \in 0..MaxWords /\ t.final \in BOOLEAN
  <2>1. DOMAIN t.words = 1..Len(t.words) /\ Len(t.words) \in 0..MaxWords /\ t.final \in BOOLEAN
    BY WordsOf
  <2>. QED
    BY <2>1, SegmentsAssumption
<1>3. e \in SegmentType
  BY <1>1, <1>2 DEF SegmentType
<1>4. Whole(t, s) = <<e>>
  BY DEF Whole
<1>. HIDE DEF e
<1>. QED
  BY <1>1, <1>3, <1>4

\* What is made of any transcript has the type of segments.
LEMMA SegmentsTyped ==
    ASSUME NEW t \in Transcripts, NEW self
    PROVE  BackendSegments(t, self) \in Seq(SegmentType) /\ GatewaySegments(t) \in Seq(SegmentType)
<1>. DEFINE w == t.words
            S == {r \in (DOMAIN w) \X (DOMAIN w) : r[1] <= r[2] /\ Maximal(w, Len(w), r[1], r[2]) /\ HasText(w, r[1], r[2])}
<1>1. t.words # <<>> => \A o : Split(t, o) \in Seq(SegmentType)
  <2>1. \A r : r \in S <=> /\ r \in (DOMAIN w) \X (DOMAIN w) /\ r[1] <= r[2]
                           /\ Maximal(w, Len(w), r[1], r[2]) /\ HasText(w, r[1], r[2])
    OBVIOUS
  <2>. HIDE DEF S
  <2>. QED
    BY <2>1, SplitSegments
<1>2. DominantSpeaker(t.words) \in Speakers
  <2>1. CASE t.words = <<>>
    BY <2>1 DEF DominantSpeaker, Speakers
  <2>2. CASE t.words # <<>>
    <3>1. Len(t.words) \in Nat /\ Len(t.words) > 0 /\ t.words \in [1..Len(t.words) -> Words]
      BY <2>2, WordsOf, SegmentsAssumption
    <3>. QED
      BY <2>2, <3>1, DominantSaysMost
  <2>. QED
    BY <2>1, <2>2
<1>3. \A s \in Speakers \cup {"me", "speaker_unknown"} : Whole(t, s) \in Seq(SegmentType)
  BY WholeTyped
<1>4. LabelSpeaker(DominantSpeaker(t.words), self) \in Speakers \cup {"me", "speaker_unknown"}
  BY <1>2, Labelled
<1>. QED
  BY <1>1, <1>2, <1>3, <1>4 DEF BackendSegments, GatewaySegments

-----------------------------------------------------------------------------
(* The specification *)

\* The segments are made of what was heard, by whoever heard it.
SegInv ==
    /\ SegmentsTypeOK
    /\ heardBy = "none" => selfSpeaker = NoSpeaker /\ heard.words = <<>>
    /\ heardBy = "backend" => segments = BackendSegments(heard, selfSpeaker)
    /\ heardBy = "gateway" => selfSpeaker = NoSpeaker /\ segments = GatewaySegments(heard)

LEMMA SegmentsStart == ASSUME SegmentsInit PROVE SegInv
<1>1. heard \in Transcripts
  <2>1. <<>> \in [1..0 -> Words] /\ 0 \in 0..MaxWords
    BY SegmentsAssumption
  <2>. QED
    BY <2>1 DEF SegmentsInit, Transcripts
<1>2. segments \in Seq(SegmentType)
  BY EmptySeq DEF SegmentsInit
<1>. QED
  BY <1>1, <1>2 DEF SegmentsInit, SegInv, SegmentsTypeOK, SegmentType

LEMMA SegmentsStep == ASSUME SegInv, [TranscriptArrives]_segmentVars PROVE SegInv'
<1>1. CASE TranscriptArrives
  <2>1. PICK t \in Transcripts :
          /\ heardBy = "none" /\ heard' = t
          /\ \/ /\ heardBy' = "backend" /\ selfSpeaker' \in {NoSpeaker, "speaker_0"}
                /\ segments' = BackendSegments(t, selfSpeaker')
             \/ /\ heardBy' = "gateway" /\ UNCHANGED selfSpeaker
                /\ segments' = GatewaySegments(t)
    BY <1>1 DEF TranscriptArrives
  <2>2. CASE /\ heardBy' = "backend" /\ selfSpeaker' \in {NoSpeaker, "speaker_0"}
             /\ segments' = BackendSegments(t, selfSpeaker')
    <3>1. segments' \in Seq(SegmentType)
      <4>1. PICK self : self = selfSpeaker' /\ segments' = BackendSegments(t, self)
        BY <2>2
      <4>. QED
        BY <4>1, SegmentsTyped
    <3>. QED
      BY <2>1, <2>2, <3>1 DEF SegInv, SegmentsTypeOK, SegmentType
  <2>3. CASE heardBy' = "gateway" /\ UNCHANGED selfSpeaker /\ segments' = GatewaySegments(t)
    <3>1. segments' \in Seq(SegmentType)
      BY <2>3, SegmentsTyped
    <3>2. selfSpeaker' = NoSpeaker
      BY <2>1, <2>3 DEF SegInv
    <3>. QED
      BY <2>1, <2>3, <3>1, <3>2 DEF SegInv, SegmentsTypeOK, SegmentType
  <2>. QED
    BY <2>1, <2>2, <2>3
<1>2. CASE UNCHANGED segmentVars
  BY <1>2 DEF segmentVars, SegInv, SegmentsTypeOK
<1>. QED
  BY <1>1, <1>2

LEMMA RunsAreHeard == ASSUME SegInv PROVE SegmentsAreRuns
<1>. SUFFICES ASSUME heard.final /\ heard.words # <<>> PROVE SegmentsAreRuns
  BY DEF SegmentsAreRuns
<1>. DEFINE w == heard.words
            S == {r \in (DOMAIN w) \X (DOMAIN w) : r[1] <= r[2] /\ RunOf(r[1], r[2]) /\ Spoken(r[1], r[2])}
<1>1. heard \in Transcripts /\ selfSpeaker \in {NoSpeaker, "speaker_0"}
  BY DEF SegInv, SegmentsTypeOK
<1>2. segments = Split(heard, selfSpeaker)
  BY DEF SegInv, SegmentsTypeOK, BackendSegments, GatewaySegments
<1>3. \A i, j : (RunOf(i, j) <=> Maximal(w, Len(w), i, j)) /\ (Spoken(i, j) <=> HasText(w, i, j))
  BY DEF RunOf, Maximal, SpokenBy, Spoken, HasText
<1>4. \A r : r \in S <=> /\ r \in (DOMAIN w) \X (DOMAIN w) /\ r[1] <= r[2]
                         /\ Maximal(w, Len(w), r[1], r[2]) /\ HasText(w, r[1], r[2])
  BY <1>3
<1>. HIDE DEF S
<1>5. /\ Len(segments) = Cardinality(S)
      /\ \A r \in S : segments[Cardinality(Before(S, r[1]))] =
           Segment(LabelSpeaker(SpeakerOf(w[r[1]]), selfSpeaker),
                   [words |-> r[1]..r[2], start |-> r[1], sure |-> {k \in r[1]..r[2] : w[k].sure}], TRUE)
  BY <1>1, <1>2, <1>4, SplitSegments, ZenonT(90)
<1>. QED
  BY <1>5 DEF SegmentsAreRuns, S, Before

LEMMA WholeIsHeard == ASSUME SegInv PROVE OthersAreWhole
<1>. SUFFICES ASSUME ~heard.final, heard.words # <<>>, segments # <<>> PROVE OthersAreWhole
  BY DEF OthersAreWhole
<1>. DEFINE w == heard.words
            s == DominantSpeaker(w)
<1>1. heard \in Transcripts /\ selfSpeaker \in {NoSpeaker, "speaker_0"}
  BY DEF SegInv, SegmentsTypeOK
<1>2. Len(w) \in Nat /\ Len(w) > 0 /\ w \in [1..Len(w) -> Words]
  BY <1>1, WordsOf, SegmentsAssumption
<1>3. s \in Speakers /\ \A o \in Speakers : Cardinality(Said(w, o)) <= Cardinality(Said(w, s))
  BY <1>2, DominantSaysMost
<1>. HIDE DEF s
<1>4. LabelSpeaker(s, selfSpeaker) \in Speakers \cup {"me", "speaker_unknown"} /\ LabelSpeaker(s, NoSpeaker) = s
  BY <1>3, Labelled
<1>5. segments = Whole(heard, LabelSpeaker(s, selfSpeaker))
  BY <1>4 DEF SegInv, SegmentsTypeOK, BackendSegments, GatewaySegments, s
<1>6. Len(segments) = 1 /\ segments[1].words = DOMAIN heard.words /\ segments[1].speaker = LabelSpeaker(s, selfSpeaker)
  BY <1>1, <1>4, <1>5, WholeTyped
<1>. QED
  BY <1>3, <1>6 DEF OthersAreWhole, Said

\* Of a final transcript with words, of any length, the segments are its maximal runs
\* of one speaker that have text, each once and in order; of any other they are one
\* segment of all the words, of a speaker who said the most (splitSpeakerRuns and
\* dominantSpeaker).
THEOREM Segmented == SegmentsSpec => []SegmentsAreHeard
<1>1. SegInv => SegmentsAreHeard
  BY RunsAreHeard, WholeIsHeard DEF SegmentsAreHeard
<1>2. SegmentsInit => SegInv
  BY SegmentsStart
<1>3. SegInv /\ [TranscriptArrives]_segmentVars => SegInv'
  BY SegmentsStep
<1>. QED
  BY <1>1, <1>2, <1>3, PTL DEF SegmentsSpec
=============================================================================
