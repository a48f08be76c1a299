------------------------ MODULE LegacyBackendProofs ------------------------
(***************************************************************************)
(* What holds of LegacyBackend for any number of captures under one id,    *)
(* chunks and faults: what the client was told is complete has in its      *)
(* transcript all that was said, whatever fails, is restarted, or happens  *)
(* to the captures before and after it; and the table of segments is in    *)
(* order, misses only what a stop or a failure kept from it, and has what  *)
(* the side panels were shown.                                             *)
(***************************************************************************)
EXTENDS LegacyBackend, FiniteSetTheorems, TLAPS

\* Every variable a transcript rests on has its type.
TranscriptTypeOK ==
    /\ at \in [Captures -> At]
    /\ status \in [Captures -> Statuses]
    /\ fed \in [Captures -> 0 .. MaxChunks]
    /\ length \in [Captures -> 0 .. MaxChunks]
    /\ decoder \in [Captures -> {"fine", "broken"}]
    /\ stage \in [Captures -> {"rest", "pass", "done", "show"}]
    /\ executor \in [Captures -> {"idle", "step"}]
    /\ heard \in [Captures -> SUBSET Segments]
    /\ upto \in [Captures -> 0 .. MaxChunks]
    /\ cursor \in [Captures -> 0 .. MaxChunks]
    /\ transcript \in [Captures -> SUBSET Segments]
    /\ drains \in [Captures -> 0 .. MaxDrain]
    /\ file \in Captures \cup {NoCapture}
    /\ missed \in [Captures -> SUBSET Chunks]
    /\ overlapped \in SUBSET Captures

\* Two captures that are at it at the same time overlap.
Exclusive ==
    \A c, d \in Captures : c # d /\ Busy(c) /\ Busy(d) => c \in overlapped

\* The handler goes the way that ends with a complete session.
Healthy(c) == at[c] \in {"greet", "receive", "close", "drain"}

\* A capture nobody overlapped finds its own audio at the path, until it removes it.
OwnsFile == \A c \in Captures : Healthy(c) /\ Alone(c) => file = c

\* A capture not accepted has left no trace.
Untouched(c) ==
    at[c] \in {"off", "rejected"} =>
        /\ fed[c] = 0 /\ length[c] = 0 /\ cursor[c] = 0 /\ drains[c] = 0
        /\ transcript[c] = {} /\ executor[c] = "idle"

\* The thread runs a pass only for a capture that is at it, and while it does, the worker
\* or the drain waits for it or was cancelled.
ExecutorAwaited(c) == executor[c] = "step" => Busy(c) /\ stage[c] \in {"rest", "pass"}

\* The transcript is that of the chunks before the cursor, but for what was missed.
UpToCursor(c) ==
    /\ cursor[c] <= length[c] /\ length[c] <= fed[c]
    /\ \A s \in transcript[c] : s[1] = c /\ s[2] \in 1 .. cursor[c]
    /\ \A k \in 1 .. cursor[c] : k \in missed[c] \/ <<c, k>> \in transcript[c]

\* A pass has heard the chunks from the cursor to its end.
HearsRest(c) ==
    executor[c] = "step" =>
        /\ cursor[c] < upto[c] /\ upto[c] <= length[c]
        /\ \A s \in heard[c] : s[1] = c /\ s[2] \in cursor[c] + 1 .. upto[c]
        /\ \A k \in cursor[c] + 1 .. upto[c] : <<c, k>> \in heard[c]

\* What the decoder did not give before its time was over is known to be missed.
DecoderDone(c) ==
    at[c] = "drain" /\ decoder[c] = "fine" => length[c] + 1 .. fed[c] \subseteq missed[c]

\* What the session is told to be when it is over.
AllThere(c) ==
    /\ \A s \in transcript[c] : s[1] = c /\ s[2] \in 1 .. fed[c]
    /\ \A k \in 1 .. fed[c] :
           k \in missed[c] \/ k \in GivenUp(c) \/ <<c, k>> \in transcript[c]

CaptureInv(c) ==
    /\ Untouched(c)
    /\ ExecutorAwaited(c)
    /\ Healthy(c) /\ Alone(c) =>
          UpToCursor(c) /\ HearsRest(c) /\ DecoderDone(c)
    /\ Complete(c) /\ status[c] = "stopped" => AllThere(c)

\* The inductive invariant.  CompleteMeansAll says nothing of a capture before its end, and
\* of no capture but one: that nobody else removes or replaces its audio meanwhile is
\* Exclusive with OwnsFile, and what it has by then is CaptureInv.
IInv == TranscriptTypeOK /\ Exclusive /\ OwnsFile /\ \A c \in Captures : CaptureInv(c)

-----------------------------------------------------------------------------
(* One step of one capture, seen from another.                               *)

Step(c) == HandlerStep(c) \/ PassStep(c) \/ Decodes(c) \/ ClientStep(c)

\* What is c's own stays as it is.
Keeps(c) ==
    /\ at'[c] = at[c] /\ status'[c] = status[c]
    /\ fed'[c] = fed[c] /\ length'[c] = length[c] /\ decoder'[c] = decoder[c]
    /\ stage'[c] = stage[c] /\ executor'[c] = executor[c] /\ heard'[c] = heard[c]
    /\ upto'[c] = upto[c] /\ cursor'[c] = cursor[c] /\ transcript'[c] = transcript[c]
    /\ drains'[c] = drains[c] /\ missed'[c] = missed[c]

LEMMA TypeStep ==
  ASSUME TranscriptTypeOK, [Next]_vars
  PROVE  TranscriptTypeOK'
<1> USE LegacyAssumption DEF TranscriptTypeOK, At, Statuses, Segments, Chunks, handlerVars,
        audioVars, passVars, sharedVars, tableVars, historyVars, Goes, Rests, Registers,
        Overlaps
<1>1. ASSUME NEW c \in Captures, Rejects(c) \/ Greets(c)
      PROVE  TranscriptTypeOK'
  <2>1. CASE Rejects(c)
    BY <2>1 DEF Rejects
  <2>2. CASE Greets(c)
    BY <2>2 DEF Greets
  <2>3. QED
    BY <1>1, <2>1, <2>2
<1>2. ASSUME NEW c \in Captures, Accepts(c) \/ AcceptFails(c)
      PROVE  TranscriptTypeOK'
  <2>1. overlapped' \in SUBSET Captures
    BY <1>2 DEF Accepts, AcceptFails
  <2>2. CASE Accepts(c)
    BY <2>1, <2>2 DEF Accepts
  <2>3. CASE AcceptFails(c)
    BY <2>1, <2>3 DEF AcceptFails
  <2>4. QED
    BY <1>2, <2>2, <2>3
<1>3. ASSUME NEW c \in Captures, Receives(c) \/ ReceiveFails(c) \/ Decodes(c)
      PROVE  TranscriptTypeOK'
  <2>1. CASE Receives(c)
    BY <2>1 DEF Receives
  <2>2. CASE ReceiveFails(c)
    BY <2>2 DEF ReceiveFails
  <2>3. CASE Decodes(c)
    BY <2>3 DEF Decodes
  <2>4. QED
    BY <1>3, <2>1, <2>2, <2>3
<1>4. ASSUME NEW c \in Captures, StopReceived(c)
      PROVE  TranscriptTypeOK'
  BY <1>4 DEF StopReceived
<1>5. ASSUME NEW c \in Captures, Closes(c)
      PROVE  TranscriptTypeOK'
  <2>1. length[c] + 1 .. fed[c] \subseteq Chunks
    OBVIOUS
  <2>2. QED
    BY <1>5, <2>1 DEF Closes
<1>6. ASSUME NEW c \in Captures, Finishes(c)
      PROVE  TranscriptTypeOK'
  BY <1>6 DEF Finishes
<1>7. ASSUME NEW c \in Captures, PassBegins(c)
      PROVE  TranscriptTypeOK'
  <2>1. PICK to \in cursor[c] + 1 .. length[c] :
           /\ upto' = [upto EXCEPT ![c] = to]
           /\ heard' = [heard EXCEPT ![c] = Reads(c, to)]
    BY <1>7 DEF PassBegins
  <2>2. to \in 0 .. MaxChunks
    OBVIOUS
  <2>3. Reads(c, to) \in SUBSET Segments
    BY <2>2 DEF Reads, Least
  <2>4. drains' \in [Captures -> 0 .. MaxDrain]
    BY <1>7 DEF PassBegins
  <2>5. QED
    BY <1>7, <2>1, <2>2, <2>3, <2>4 DEF PassBegins
<1>8. ASSUME NEW c \in Captures, PassReadsNothing(c) \/ PassEnds(c) \/ PassHoldsBack(c)
      PROVE  TranscriptTypeOK'
  <2>1. CASE PassReadsNothing(c)
    BY <2>1 DEF PassReadsNothing
  <2>2. CASE PassEnds(c)
    <3>1. stage' \in [Captures -> {"rest", "pass", "done", "show"}]
      BY <2>2 DEF PassEnds
    <3>2. heard' \in [Captures -> SUBSET Segments]
      BY <2>2 DEF PassEnds
    <3>3. transcript' \in [Captures -> SUBSET Segments]
      BY <2>2 DEF PassEnds
    <3>4. QED
      BY <2>2, <3>1, <3>2, <3>3 DEF PassEnds
  <2>3. CASE PassHoldsBack(c)
    BY <2>3 DEF PassHoldsBack
  <2>4. QED
    BY <1>8, <2>1, <2>2, <2>3
<1>9. ASSUME NEW c \in Captures, PassFails(c)
      PROVE  TranscriptTypeOK'
  <2>1. cursor[c] + 1 .. upto[c] \subseteq Chunks
    OBVIOUS
  <2>2. QED
    BY <1>9, <2>1 DEF PassFails
<1>10. ASSUME NEW c \in Captures, Delivers(c) \/ DeliverFails(c) \/ Shows(c)
       PROVE  TranscriptTypeOK'
  <2>1. CASE Delivers(c)
    <3>1. stage' \in [Captures -> {"rest", "pass", "done", "show"}]
      <4>1. stage' = [stage EXCEPT ![c] = "show"] \/ stage' = [stage EXCEPT ![c] = "rest"]
        BY <2>1 DEF Delivers, Rests
      <4>2. QED
        BY <4>1
    <3>2. heard' \in [Captures -> SUBSET Segments]
      BY <2>1 DEF Delivers
    <3>3. QED
      BY <2>1, <3>1, <3>2 DEF Delivers
  <2>2. CASE DeliverFails(c)
    BY <2>2 DEF DeliverFails
  <2>3. CASE Shows(c)
    BY <2>3 DEF Shows
  <2>4. QED
    BY <1>10, <2>1, <2>2, <2>3
<1>11. CASE Restart
  BY <1>11 DEF Restart
<1>12. CASE UNCHANGED vars
  BY <1>12 DEF vars
<1>13. QED
  BY <1>1, <1>2, <1>3, <1>4, <1>5, <1>6, <1>7, <1>8, <1>9, <1>10, <1>11, <1>12
     DEF Next, HandlerStep, PassStep, ClientStep

\* No handler, worker or thread writes what is another capture's; what they share is the
\* path, which only one who is at it sets or clears, or who overlaps them.
LEMMA OthersKeep ==
  ASSUME TranscriptTypeOK, NEW e \in Captures, Step(e), NEW c \in Captures, c # e
  PROVE  /\ Keeps(c)
         /\ overlapped \subseteq overlapped'
         /\ file' = file \/ ~Busy(c) \/ c \in overlapped' \/ Busy(e)
<1> USE DEF TranscriptTypeOK, Keeps, handlerVars, audioVars, passVars, sharedVars,
        tableVars, historyVars, Goes, Rests, Registers, Overlaps
<1>1. CASE Rejects(e) \/ Greets(e) \/ Closes(e)
  BY <1>1 DEF Rejects, Greets, Closes
<1>2. CASE Accepts(e) \/ AcceptFails(e)
  BY <1>2 DEF Accepts, AcceptFails
<1>3. CASE Finishes(e)
  BY <1>3 DEF Finishes, Drained, Busy, Over
<1>4. CASE Receives(e) \/ Decodes(e) \/ StopReceived(e)
  BY <1>4 DEF Receives, Decodes, StopReceived
<1>5. CASE ReceiveFails(e)
  BY <1>5 DEF ReceiveFails, Busy, Over
<1>6. CASE PassBegins(e)
  BY <1>6 DEF PassBegins
<1>7. CASE PassReadsNothing(e) \/ PassEnds(e) \/ PassHoldsBack(e) \/ PassFails(e)
  BY <1>7 DEF PassReadsNothing, PassEnds, PassHoldsBack, PassFails
<1>8. CASE Delivers(e) \/ DeliverFails(e) \/ Shows(e)
  BY <1>8 DEF Delivers, DeliverFails, Shows
<1>9. QED
  BY <1>1, <1>2, <1>3, <1>4, <1>5, <1>6, <1>7, <1>8
     DEF Step, HandlerStep, PassStep, ClientStep

\* Only who is accepted gets busy, and is overlapped by all who are; of the path of its
\* audio a busy capture disposes by an error or at its end.
LEMMA OwnStep ==
  ASSUME TranscriptTypeOK, NEW c \in Captures, Step(c)
  PROVE  /\ overlapped \subseteq overlapped'
         /\ Busy(c)' =>
               \/ Busy(c)
               \/ \A d \in Captures \ {c} : Busy(d) => {c, d} \subseteq overlapped'
         /\ Healthy(c)' => (Healthy(c) /\ file' = file) \/ file' = c
<1> USE DEF TranscriptTypeOK, handlerVars, audioVars, passVars, sharedVars, At,
        tableVars, historyVars, Goes, Rests, Registers, Overlaps, Busy, Over, Healthy
<1>1. CASE Rejects(c) \/ Greets(c) \/ Closes(c)
  BY <1>1 DEF Rejects, Greets, Closes
<1>2. CASE Accepts(c) \/ AcceptFails(c)
  BY <1>2 DEF Accepts, AcceptFails
<1>3. CASE Finishes(c)
  BY <1>3 DEF Finishes, Drained
<1>4. CASE Receives(c) \/ ReceiveFails(c) \/ Decodes(c) \/ StopReceived(c)
  BY <1>4 DEF Receives, ReceiveFails, Decodes, StopReceived
<1>5. CASE PassBegins(c) \/ PassReadsNothing(c) \/ PassEnds(c) \/ PassHoldsBack(c)
           \/ PassFails(c)
  BY <1>5 DEF PassBegins, PassReadsNothing, PassEnds, PassHoldsBack, PassFails
<1>6. CASE Delivers(c) \/ DeliverFails(c) \/ Shows(c)
  BY <1>6 DEF Delivers, DeliverFails, Shows
<1>7. QED
  BY <1>1, <1>2, <1>3, <1>4, <1>5, <1>6 DEF Step, HandlerStep, PassStep, ClientStep

-----------------------------------------------------------------------------
(* Who is at it, and whose the audio is.                                     *)

LEMMA ExclusiveStep ==
  ASSUME TranscriptTypeOK, Exclusive, [Next]_vars
  PROVE  Exclusive'
<1>1. ASSUME NEW e \in Captures, Step(e)
      PROVE  Exclusive'
  <2> SUFFICES ASSUME NEW c \in Captures, NEW d \in Captures, c # d, Busy(c)', Busy(d)'
               PROVE  c \in overlapped'
    BY DEF Exclusive
  <2>1. \A x \in Captures \ {e} : Busy(x)' <=> Busy(x)
    BY <1>1, OthersKeep DEF Keeps, Busy
  <2>2. CASE c # e /\ d # e
    BY <1>1, <2>1, <2>2, OthersKeep DEF Exclusive
  <2>3. CASE c = e
    BY <1>1, <2>1, <2>3, OwnStep DEF Exclusive
  <2>4. CASE d = e
    BY <1>1, <2>1, <2>4, OwnStep DEF Exclusive
  <2>5. QED
    BY <2>2, <2>3, <2>4
<1>2. CASE Restart
  BY <1>2 DEF Restart, Exclusive, Busy, Over, TranscriptTypeOK
<1>3. CASE UNCHANGED vars
  BY <1>3 DEF vars, handlerVars, historyVars, Exclusive, Busy
<1>4. QED
  BY <1>1, <1>2, <1>3 DEF Next, Step

LEMMA OwnsFileStep ==
  ASSUME TranscriptTypeOK, Exclusive, OwnsFile, [Next]_vars
  PROVE  OwnsFile'
<1>1. ASSUME NEW e \in Captures, Step(e)
      PROVE  OwnsFile'
  <2> SUFFICES ASSUME NEW c \in Captures, Healthy(c)', Alone(c)'
               PROVE  file' = c
    BY DEF OwnsFile
  <2>1. CASE c = e
    BY <1>1, <2>1, OwnStep DEF OwnsFile, Alone
  <2>2. CASE c # e
    <3>1. Keeps(c) /\ overlapped \subseteq overlapped'
      BY <1>1, <2>2, OthersKeep
    <3>2. Healthy(c) /\ Alone(c) /\ Busy(c)
      BY <3>1 DEF Keeps, Healthy, Alone, Busy, Over
    <3>3. ~Busy(e)
      BY <2>2, <3>2 DEF Exclusive, Alone
    <3>4. file' = file
      BY <1>1, <2>2, <3>2, <3>3, OthersKeep DEF Alone
    <3>5. QED
      BY <3>2, <3>4 DEF OwnsFile
  <2>3. QED
    BY <2>1, <2>2
<1>2. CASE Restart
  BY <1>2 DEF Restart, OwnsFile, Healthy, TranscriptTypeOK
<1>3. CASE UNCHANGED vars
  BY <1>3 DEF vars, handlerVars, sharedVars, historyVars, OwnsFile, Healthy, Alone
<1>4. QED
  BY <1>1, <1>2, <1>3 DEF Next, Step

-----------------------------------------------------------------------------
(* One capture, by its own steps.                                            *)

LEMMA UntouchedStep ==
  ASSUME TranscriptTypeOK, NEW c \in Captures, Untouched(c), ExecutorAwaited(c), Step(c)
  PROVE  Untouched(c)' /\ ExecutorAwaited(c)'
<1> USE DEF TranscriptTypeOK, handlerVars, audioVars, passVars, sharedVars, At,
        tableVars, historyVars, Goes, Rests, Registers, Busy, Over, Untouched,
        ExecutorAwaited
<1>1. CASE Rejects(c) \/ Greets(c) \/ Closes(c)
  BY <1>1 DEF Rejects, Greets, Closes
<1>2. CASE Accepts(c) \/ AcceptFails(c)
  BY <1>2 DEF Accepts, AcceptFails
<1>3. CASE Finishes(c)
  BY <1>3 DEF Finishes, Drained
<1>4. CASE Receives(c) \/ ReceiveFails(c) \/ Decodes(c) \/ StopReceived(c)
  BY <1>4 DEF Receives, ReceiveFails, Decodes, StopReceived
<1>5. CASE PassBegins(c)
  BY <1>5 DEF PassBegins, Awaits
<1>6. CASE PassReadsNothing(c) \/ PassEnds(c) \/ PassHoldsBack(c) \/ PassFails(c)
  BY <1>6 DEF PassReadsNothing, PassEnds, PassHoldsBack, PassFails
<1>7. CASE Delivers(c) \/ DeliverFails(c) \/ Shows(c)
  BY <1>7 DEF Delivers, DeliverFails, Shows
<1>8. QED
  BY <1>1, <1>2, <1>3, <1>4, <1>5, <1>6, <1>7 DEF Step, HandlerStep, PassStep, ClientStep

\* The audio and the passes of a capture that is healthy, alone and finds its file.
Sound(c) == UpToCursor(c) /\ HearsRest(c) /\ DecoderDone(c)

LEMMA SoundStart ==
  ASSUME TranscriptTypeOK, NEW c \in Captures, Untouched(c), Accepts(c)
  PROVE  Sound(c)'
BY LegacyAssumption DEF Accepts, Registers, Goes, Untouched, Sound, UpToCursor, HearsRest,
   DecoderDone, TranscriptTypeOK, audioVars, passVars

LEMMA SoundAudio ==
  ASSUME TranscriptTypeOK, NEW c \in Captures, Sound(c), Healthy(c),
         Greets(c) \/ Receives(c) \/ Decodes(c) \/ StopReceived(c) \/ Closes(c)
  PROVE  Sound(c)'
<1> USE LegacyAssumption DEF TranscriptTypeOK, Sound, UpToCursor, HearsRest, DecoderDone,
        handlerVars, audioVars, passVars, sharedVars, tableVars, historyVars,
        Goes
<1>1. CASE Greets(c)
  BY <1>1 DEF Greets
<1>2. CASE Receives(c)
  BY <1>2 DEF Receives
<1>3. CASE Decodes(c)
  BY <1>3 DEF Decodes
<1>4. CASE StopReceived(c)
  BY <1>4 DEF StopReceived
<1>5. CASE Closes(c)
  BY <1>5 DEF Closes
<1>6. QED
  BY <1>1, <1>2, <1>3, <1>4, <1>5

\* What a pass reads where its own audio is.
LEMMA ReadsOwn ==
  ASSUME TranscriptTypeOK, NEW c \in Captures, file = c, NEW to \in 0 .. length[c]
  PROVE  Reads(c, to) = {<<c, k>> : k \in cursor[c] + 1 .. to}
<1>1. Least(to, length[c]) = to
  BY DEF Least, TranscriptTypeOK
<1>2. file # NoCapture
  BY LegacyAssumption
<1>3. QED
  BY <1>1, <1>2 DEF Reads

LEMMA SoundPass ==
  ASSUME TranscriptTypeOK, NEW c \in Captures, Sound(c), Healthy(c), file = c,
         ExecutorAwaited(c), PassStep(c)
  PROVE  Sound(c)'
<1> USE LegacyAssumption DEF TranscriptTypeOK, Sound, UpToCursor, HearsRest, DecoderDone,
        handlerVars, audioVars, passVars, sharedVars, tableVars, historyVars,
        Rests
<1>1. CASE PassBegins(c)
  <2>1. PICK to \in cursor[c] + 1 .. length[c] :
           /\ upto' = [upto EXCEPT ![c] = to]
           /\ heard' = [heard EXCEPT ![c] = Reads(c, to)]
    BY <1>1 DEF PassBegins
  <2>2. heard'[c] = {<<c, k>> : k \in cursor[c] + 1 .. to}
    BY <2>1, ReadsOwn
  <2>3. HearsRest(c)'
    BY <1>1, <2>1, <2>2 DEF PassBegins
  <2>4. UpToCursor(c)' /\ DecoderDone(c)'
    BY <1>1 DEF PassBegins
  <2>5. QED
    BY <2>3, <2>4
<1>2. CASE PassReadsNothing(c)
  <2>1. Reads(c, length[c]) = {<<c, k>> : k \in cursor[c] + 1 .. length[c]}
    <3>1. length[c] \in 0 .. length[c]
      OBVIOUS
    <3> HIDE DEF TranscriptTypeOK, Sound, UpToCursor, HearsRest, DecoderDone
    <3>2. QED
      BY <3>1, ReadsOwn
  <2>2. cursor[c] + 1 \in cursor[c] + 1 .. length[c]
    BY <1>2 DEF PassReadsNothing
  <2>3. Reads(c, length[c]) = {}
    BY <1>2 DEF PassReadsNothing
  <2> HIDE DEF TranscriptTypeOK, Sound, UpToCursor, HearsRest, DecoderDone
  <2>4. <<c, cursor[c] + 1>> \in {<<c, k>> : k \in cursor[c] + 1 .. length[c]}
    BY <2>2, Zenon
  <2>5. QED
    BY <2>1, <2>3, <2>4, Zenon
<1>3. CASE PassEnds(c)
  <2>1. /\ at' = at /\ fed' = fed /\ length' = length /\ decoder' = decoder
        /\ drains' = drains /\ missed' = missed
        /\ executor'[c] = "idle" /\ cursor'[c] = upto[c]
        /\ transcript'[c] = transcript[c] \cup heard[c]
        /\ executor[c] = "step"
    BY <1>3 DEF PassEnds
  <2>2. QED
    BY <2>1
<1>4. CASE PassHoldsBack(c) \/ PassFails(c)
  BY <1>4 DEF PassHoldsBack, PassFails
<1>5. CASE Delivers(c) \/ DeliverFails(c) \/ Shows(c)
  BY <1>5 DEF Delivers, DeliverFails, Shows, ExecutorAwaited
<1>6. QED
  BY <1>1, <1>2, <1>3, <1>4, <1>5 DEF PassStep

LEMMA SoundStep ==
  ASSUME TranscriptTypeOK, OwnsFile, NEW c \in Captures, CaptureInv(c), Step(c),
         Healthy(c)', Alone(c)'
  PROVE  Sound(c)'
<1>1. Alone(c)
  BY OwnStep DEF Alone
<1>2. CASE Accepts(c)
  BY <1>2, SoundStart DEF CaptureInv
<1>3. CASE ~Accepts(c)
  <2>1. ~Rejects(c) /\ ~AcceptFails(c) /\ ~Finishes(c) /\ ~ReceiveFails(c)
    BY DEF Rejects, AcceptFails, Finishes, ReceiveFails, Goes, Healthy, TranscriptTypeOK
  <2>2. \/ Greets(c) \/ Receives(c) \/ Decodes(c) \/ StopReceived(c) \/ Closes(c)
        \/ PassStep(c)
    BY <1>3, <2>1 DEF Step, HandlerStep, ClientStep
  <2>3. Healthy(c)
    BY <2>2 DEF Healthy, Greets, Receives, Decodes, StopReceived, Closes, PassStep,
       PassBegins, PassReadsNothing, PassEnds, PassHoldsBack, PassFails, Delivers,
       DeliverFails, Shows,
       handlerVars
  <2>4. Sound(c) /\ file = c /\ ExecutorAwaited(c)
    BY <1>1, <2>3 DEF CaptureInv, Sound, OwnsFile
  <2>5. QED
    BY <2>2, <2>3, <2>4, SoundAudio, SoundPass
<1>4. QED
  BY <1>2, <1>3

\* The end of the drain: the cursor is where the decoder got to, or the drain gave up; what
\* the decoder did not get to is missed.
LEMMA CompleteStep ==
  ASSUME TranscriptTypeOK, OwnsFile, NEW c \in Captures, CaptureInv(c), Step(c),
         Complete(c)', status'[c] = "stopped"
  PROVE  AllThere(c)'
<1>1. Alone(c)
  BY OwnStep DEF Complete, Alone
<1>2. CASE Finishes(c)
  <2>1. at[c] = "drain" /\ Healthy(c) /\ executor[c] = "idle" /\ decoder[c] = "fine"
    BY <1>2 DEF Finishes, Drained, Healthy, TranscriptTypeOK
  <2>2. Sound(c)
    BY <1>1, <2>1 DEF CaptureInv, Sound
  <2>3. cursor[c] = length[c] \/ drains[c] = MaxDrain
    BY <1>2, <2>2, LegacyAssumption DEF Finishes, Drained, Sound, UpToCursor,
       TranscriptTypeOK
  <2>4. AllThere(c)
    BY <2>1, <2>2, <2>3 DEF Sound, UpToCursor, DecoderDone, AllThere, GivenUp,
       TranscriptTypeOK
  <2>5. QED
    BY <1>2, <2>4 DEF Finishes, AllThere, GivenUp, audioVars, passVars, historyVars
<1>3. CASE ~Finishes(c)
  <2>1. /\ at[c] = "complete" /\ status'[c] = status[c] /\ fed'[c] = fed[c]
        /\ transcript'[c] = transcript[c] /\ missed'[c] = missed[c]
        /\ cursor'[c] = cursor[c] /\ drains'[c] = drains[c]
    <3> USE DEF TranscriptTypeOK, handlerVars, audioVars, passVars, sharedVars, At,
            tableVars, historyVars, Goes, Rests, Registers, Complete
    <3>1. CASE Rejects(c) \/ Accepts(c) \/ AcceptFails(c) \/ Greets(c) \/ Closes(c)
      BY <3>1 DEF Rejects, Accepts, AcceptFails, Greets, Closes
    <3>2. CASE Receives(c) \/ ReceiveFails(c) \/ Decodes(c) \/ StopReceived(c)
      BY <3>2 DEF Receives, ReceiveFails, Decodes, StopReceived
    <3>3. CASE PassBegins(c) \/ PassReadsNothing(c)
      BY <3>3 DEF PassBegins, PassReadsNothing
    <3>4. CASE PassEnds(c) \/ PassHoldsBack(c) \/ PassFails(c)
      BY <3>4 DEF PassEnds, PassHoldsBack, PassFails, CaptureInv, ExecutorAwaited, Busy, Over
    <3>5. CASE Delivers(c) \/ DeliverFails(c) \/ Shows(c)
      BY <3>5 DEF Delivers, DeliverFails, Shows
    <3>6. QED
      BY <1>3, <3>1, <3>2, <3>3, <3>4, <3>5 DEF Step, HandlerStep, PassStep, ClientStep
  <2>2. AllThere(c)
    BY <1>1, <2>1 DEF CaptureInv, Complete
  <2>3. QED
    BY <2>1, <2>2 DEF AllThere, GivenUp
<1>4. QED
  BY <1>2, <1>3

LEMMA CaptureStep ==
  ASSUME TranscriptTypeOK, Exclusive, OwnsFile,
         \A c \in Captures : CaptureInv(c), [Next]_vars
  PROVE  \A c \in Captures : CaptureInv(c)'
<1> SUFFICES ASSUME NEW c \in Captures
             PROVE  CaptureInv(c)'
  OBVIOUS
<1>1. CASE Step(c)
  BY <1>1, UntouchedStep, SoundStep, CompleteStep DEF CaptureInv, Sound
<1>2. ASSUME NEW e \in Captures, Step(e), e # c
      PROVE  CaptureInv(c)'
  <2>1. Keeps(c) /\ overlapped \subseteq overlapped'
    BY <1>2, OthersKeep
  <2>2. QED
    BY <2>1 DEF Keeps, CaptureInv, Untouched, ExecutorAwaited, Busy, Healthy, Alone,
       UpToCursor, HearsRest, DecoderDone, Complete, AllThere, GivenUp
<1>3. CASE Restart
  BY <1>3 DEF Restart, CaptureInv, Untouched, ExecutorAwaited, Healthy, Complete,
     TranscriptTypeOK
<1>4. CASE UNCHANGED vars
  BY <1>4 DEF vars, handlerVars, audioVars, passVars, historyVars, CaptureInv, Untouched,
     ExecutorAwaited, Busy, Healthy, Alone, UpToCursor, HearsRest, DecoderDone,
     Complete, AllThere, GivenUp
<1>5. QED
  BY <1>1, <1>2, <1>3, <1>4 DEF Next, Step

-----------------------------------------------------------------------------
LEMMA InitInvariant ==
  ASSUME Init
  PROVE  IInv
<1>1. TranscriptTypeOK
  BY LegacyAssumption DEF Init, TranscriptTypeOK, At, Statuses
<1>2. Exclusive /\ OwnsFile
  BY DEF Init, Exclusive, OwnsFile, Busy, Healthy
<1>3. \A c \in Captures : CaptureInv(c)
  BY DEF Init, CaptureInv, Untouched, ExecutorAwaited, Healthy, Complete
<1>4. QED
  BY <1>1, <1>2, <1>3 DEF IInv

LEMMA Invariance == Spec => []IInv
<1>1. Init => IInv
  BY InitInvariant
<1>2. IInv /\ [Next]_vars => IInv'
  BY TypeStep, ExclusiveStep, OwnsFileStep, CaptureStep DEF IInv
<1>3. QED
  BY <1>1, <1>2, PTL DEF Spec

\* A client that was told its session is complete has all of it in the transcript, but for
\* what a failed pass or a slow decoder lost and what lies behind the cursor of a drain that
\* gave up, and nothing of another's: no capture of the same id before or after it, no
\* restart and no pass that fails or does not move takes any of it away.
THEOREM CompleteHasAll == Spec => []CompleteMeansAll
<1>1. IInv => CompleteMeansAll
  BY DEF IInv, CaptureInv, CompleteMeansAll, AllThere, TranscriptTypeOK, Segments
<1>2. QED
  BY <1>1, Invariance, PTL

\* The audio at the path is that of the capture nobody overlapped, from its first to its
\* last chunk, however many passes the drain has: neither the end nor an error of another
\* capture of the id removes it.
THEOREM AudioIsItsOwn == Spec => []OwnsFile
<1> DEFINE Ownership == TranscriptTypeOK /\ Exclusive /\ OwnsFile
<1>1. Init => Ownership
  BY InitInvariant DEF IInv
<1>2. Ownership /\ [Next]_vars => Ownership'
  BY TypeStep, ExclusiveStep, OwnsFileStep
<1>3. Ownership => OwnsFile
  OBVIOUS
<1> HIDE DEF Ownership
<1>4. QED
  BY <1>1, <1>2, <1>3, PTL DEF Spec

-----------------------------------------------------------------------------
(* The store.                                                                *)

\* Every variable a stored transcript rests on, beyond those of the transcript itself.
StoreTypeOK ==
    /\ stored \in Seq(Segments)
    /\ orphaned \in [Captures -> SUBSET Segments]
    /\ unsaved \in [Captures -> SUBSET Segments]

\* Whoever finds another's audio at its path overlaps it.
FileIsNoOthers ==
    \A c \in Captures : Busy(c) /\ file # NoCapture /\ file # c => file \in overlapped

\* A pass hears a run of chunks of one capture.
HeardIsRun(c) ==
    \E d \in Captures : \E m, n \in Nat : heard[c] = {<<d, k>> : k \in m .. n}

HeardIsOwn(c) == \A s \in heard[c] : s[1] = c \/ s[1] \in overlapped

\* They lie after the cursor while the pass runs, and before it when it is done.
HeardAhead(c) ==
    executor[c] = "step" =>
        /\ stage[c] \in {"rest", "pass"}
        /\ cursor[c] < upto[c]
        /\ \A s \in heard[c] : cursor[c] < s[2] /\ s[2] <= upto[c]

HeardBehind(c) == stage[c] = "done" => \A s \in heard[c] : s[2] <= cursor[c]

\* A pass is given to whoever awaits it, and to nobody after a stop.
PassAwaited(c) == stage[c] # "rest" => Awaits(c)

PassInv(c) ==
    HeardIsRun(c) /\ HeardIsOwn(c) /\ HeardAhead(c) /\ HeardBehind(c) /\ PassAwaited(c)

\* What is in the transcript is in the store, on its way there, or known not to be.
TranscriptIsAccounted(c) ==
    \A s \in transcript[c] :
        \/ s \in ToSet(stored)
        \/ s \in orphaned[c] \cup unsaved[c]
        \/ stage[c] = "done" /\ s \in heard[c]

\* What is about to be shown is in the store.
ShownIsStored(c) == stage[c] = "show" => heard[c] \subseteq ToSet(stored)

\* What is stored of a capture lies before its cursor, and before what it is to store next.
StoredBehind(c) ==
    Alone(c) =>
        \A i \in 1 .. Len(stored) :
            stored[i][1] = c =>
                /\ at[c] # "dead" => stored[i][2] <= cursor[c]
                /\ stage[c] = "done" => \A s \in heard[c] : s[1] = c => stored[i][2] < s[2]

\* The inductive invariant of the store, for any number of passes.  StoredInOrder is about
\* batches that were stored long before: they are before the cursor (StoredBehind), where no
\* pass goes back to (HeardAhead), and nobody else stores the segments of a capture that is
\* alone (FileIsNoOthers, HeardIsOwn).
StoreInv ==
    /\ TranscriptTypeOK
    /\ StoreTypeOK
    /\ FileIsNoOthers
    /\ \A c \in Captures :
           /\ Untouched(c) /\ ExecutorAwaited(c) /\ PassInv(c)
           /\ TranscriptIsAccounted(c) /\ ShownIsStored(c) /\ StoredBehind(c)
    /\ StoredInOrder
    /\ CaptionsAreStored

\* A batch is what was heard, all of it, in the order of speech.
LEMMA BatchInOrder ==
  ASSUME NEW c \in Captures, heard[c] \in SUBSET Segments, HeardIsRun(c)
  PROVE  /\ Batch(c) \in Seq(Segments)
         /\ \A i \in 1 .. Len(Batch(c)) : Batch(c)[i] \in heard[c]
         /\ \A s \in heard[c] : \E i \in 1 .. Len(Batch(c)) : Batch(c)[i] = s
         /\ \A i, j \in 1 .. Len(Batch(c)) : i < j => Batch(c)[i][2] < Batch(c)[j][2]
<1>1. PICK S : S = heard[c]
  OBVIOUS
<1>2. PICK d \in Captures, m \in Nat, n \in Nat : S = {<<d, k>> : k \in m .. n}
  BY <1>1 DEF HeardIsRun
<1>3. PICK len \in Nat : len = IF m <= n THEN n - m + 1 ELSE 0
  OBVIOUS
<1> DEFINE run == [i \in 1 .. len |-> <<d, m + i - 1>>]
           InOrder(batch) ==
               \A i, j \in DOMAIN batch : i < j => batch[i][2] < batch[j][2]
<1>4. /\ run \in [1 .. len -> S]
      /\ InOrder(run)
      /\ run \in Injection(1 .. len, S)
      /\ run \in Surjection(1 .. len, S)
  <2>1. \A i \in 1 .. len : m + i - 1 \in m .. n
    BY <1>3
  <2>2. run \in [1 .. len -> S]
    BY <1>2, <2>1
  <2>3. InOrder(run)
    OBVIOUS
  <2>4. \A i, j \in 1 .. len : run[i] = run[j] => i = j
    OBVIOUS
  <2>5. ASSUME NEW s \in S
        PROVE  \E i \in 1 .. len : run[i] = s
    <3>1. PICK k \in m .. n : s = <<d, k>>
      BY <1>2
    <3>2. k - m + 1 \in 1 .. len /\ m + (k - m + 1) - 1 = k
      BY <1>3
    <3>3. run[k - m + 1] = s
      BY <3>1, <3>2
    <3>4. QED
      BY <3>2, <3>3
  <2> HIDE DEF run
  <2>6. DOMAIN run = 1 .. len
    BY <2>2
  <2>7. QED
    BY <2>2, <2>3, <2>4, <2>5, <2>6 DEF Injection, Surjection, IsInjective
<1>5. IsFiniteSet(S) /\ Cardinality(S) = len
  <2>1. ExistsBijection(1 .. len, S)
    BY <1>4 DEF ExistsBijection, Bijection
  <2>2. QED
    BY <2>1, FS_NatBijection, FS_CountingElements
<1>6. PICK B : B = Batch(c)
  OBVIOUS
<1>7. B \in [1 .. len -> S] /\ InOrder(B)
  <2>1. B = CHOOSE batch \in [1 .. len -> S] : InOrder(batch)
    BY <1>1, <1>5, <1>6 DEF Batch
  <2> HIDE DEF run, InOrder
  <2>2. QED
    BY <1>4, <2>1
<1>8. DOMAIN B = 1 .. len /\ B \in Seq(Segments) /\ Len(B) = len
  BY <1>1, <1>7
<1>9. \A i, j \in 1 .. len : B[i] = B[j] => i = j
  <2>1. \A s \in S : s[2] \in Nat
    BY <1>2
  <2>2. SUFFICES ASSUME NEW i \in 1 .. len, NEW j \in 1 .. len, B[i] = B[j], i < j
                 PROVE  FALSE
    OBVIOUS
  <2>3. B[i][2] < B[j][2] /\ B[i][2] \in Nat
    BY <1>7, <1>8, <2>1, <2>2
  <2>4. QED
    BY <2>2, <2>3
<1>10. \A s \in S : \E i \in 1 .. len : B[i] = s
  <2>1. B \in Injection(1 .. len, S)
    BY <1>7, <1>8, <1>9 DEF Injection, IsInjective
  <2>2. IsFiniteSet(1 .. len) /\ Cardinality(1 .. len) = len
    BY FS_Interval
  <2>3. B \in Surjection(1 .. len, S)
    BY <1>5, <2>1, <2>2, FS_Injection
  <2>4. QED
    BY <2>3 DEF Surjection
<1>11. QED
  BY <1>1, <1>6, <1>7, <1>8, <1>10

\* What a delivery does to the store.
LEMMA Appends ==
  ASSUME NEW c \in Captures, heard[c] \in SUBSET Segments, HeardIsRun(c),
         stored \in Seq(Segments), stored' = stored \o Batch(c)
  PROVE  /\ stored' \in Seq(Segments)
         /\ Len(stored') >= Len(stored)
         /\ \A i \in 1 .. Len(stored) : stored'[i] = stored[i]
         /\ \A i \in Len(stored) + 1 .. Len(stored') : stored'[i] \in heard[c]
         /\ \A i, j \in Len(stored) + 1 .. Len(stored') :
                i < j => stored'[i][2] < stored'[j][2]
         /\ ToSet(stored') = ToSet(stored) \cup heard[c]
<1>1. PICK B : B = Batch(c)
  OBVIOUS
<1>2. /\ B \in Seq(Segments)
      /\ \A i \in 1 .. Len(B) : B[i] \in heard[c]
      /\ \A s \in heard[c] : \E i \in 1 .. Len(B) : B[i] = s
      /\ \A i, j \in 1 .. Len(B) : i < j => B[i][2] < B[j][2]
  BY <1>1, BatchInOrder
<1>3. PICK n \in Nat, m \in Nat : n = Len(stored) /\ m = Len(B)
  BY <1>2
<1>4. PICK S : S = stored \o B
  OBVIOUS
<1>5. S \in Seq(Segments) /\ Len(S) = n + m
  BY <1>2, <1>3, <1>4
<1>6. \A i \in 1 .. n : S[i] = stored[i]
  BY <1>2, <1>3, <1>4
<1>7. \A i \in n + 1 .. n + m : S[i] = B[i - n] /\ i - n \in 1 .. m
  BY <1>2, <1>3, <1>4
<1>8. \A i \in n + 1 .. n + m : S[i] \in heard[c]
  BY <1>2, <1>3, <1>7
<1>9. \A i, j \in n + 1 .. n + m : i < j => S[i][2] < S[j][2]
  <2>1. SUFFICES ASSUME NEW i \in n + 1 .. n + m, NEW j \in n + 1 .. n + m, i < j
                 PROVE  S[i][2] < S[j][2]
    OBVIOUS
  <2>2. i - n \in 1 .. m /\ j - n \in 1 .. m /\ i - n < j - n
    BY <2>1
  <2>3. B[i - n][2] < B[j - n][2]
    BY <1>2, <1>3, <2>2
  <2>4. QED
    BY <1>7, <2>3
<1>10. ToSet(S) = ToSet(stored) \cup heard[c]
  <2>1. ASSUME NEW s \in ToSet(S)
        PROVE  s \in ToSet(stored) \cup heard[c]
    <3>1. PICK i \in 1 .. n + m : s = S[i]
      BY <1>5 DEF ToSet
    <3>2. CASE i <= n
      BY <1>3, <1>6, <3>1, <3>2 DEF ToSet
    <3>3. CASE ~(i <= n)
      BY <1>8, <3>1, <3>3
    <3>4. QED
      BY <3>2, <3>3
  <2>2. ASSUME NEW s \in ToSet(stored)
        PROVE  s \in ToSet(S)
    <3>1. PICK i \in 1 .. n : s = stored[i]
      BY <1>3 DEF ToSet
    <3>2. i \in DOMAIN S /\ s = S[i]
      BY <1>5, <1>6, <3>1
    <3>3. QED
      BY <3>2 DEF ToSet
  <2>3. ASSUME NEW s \in heard[c]
        PROVE  s \in ToSet(S)
    <3>1. PICK i \in 1 .. m : s = B[i]
      BY <1>2, <1>3
    <3>2. n + i \in n + 1 .. n + m /\ n + i \in DOMAIN S /\ (n + i) - n = i
      BY <1>5
    <3>3. s = S[n + i]
      BY <1>7, <3>1, <3>2
    <3>4. QED
      BY <3>2, <3>3 DEF ToSet
  <2>4. QED
    BY <2>1, <2>2, <2>3
<1>11. stored' = S
  BY <1>1, <1>4
<1>12. QED
  BY <1>3, <1>5, <1>6, <1>8, <1>9, <1>10, <1>11

\* Only a delivery changes what is stored, and only what was delivered is shown.
LEMMA StoreChanges ==
  ASSUME [Next]_vars
  PROVE  /\ \/ stored' = stored
            \/ \E e \in Captures : stage[e] = "done" /\ Delivers(e)
         /\ \/ shown' = shown
            \/ \E e \in Captures : stage[e] = "show" /\ shown' = shown \cup heard[e]
<1> USE DEF tableVars, historyVars
<1>1. ASSUME NEW e \in Captures, Step(e)
      PROVE  /\ stored' = stored \/ (stage[e] = "done" /\ Delivers(e))
             /\ shown' = shown \/ (stage[e] = "show" /\ shown' = shown \cup heard[e])
  <2>1. CASE HandlerStep(e)
    BY <2>1 DEF HandlerStep, Rejects, Accepts, AcceptFails, Greets, Closes, Finishes
  <2>2. CASE PassStep(e)
    BY <2>2 DEF PassStep, PassBegins, PassReadsNothing, PassEnds, PassHoldsBack, PassFails,
       Delivers,
       DeliverFails, Shows
  <2>3. CASE Decodes(e) \/ ClientStep(e)
    BY <2>3 DEF Decodes, ClientStep, Receives, ReceiveFails, StopReceived
  <2>4. QED
    BY <1>1, <2>1, <2>2, <2>3 DEF Step
<1>2. CASE Restart \/ UNCHANGED vars
  BY <1>2 DEF Restart, vars
<1>3. QED
  BY <1>1, <1>2 DEF Next, Step

\* The store only grows.
LEMMA StoreGrows ==
  ASSUME TranscriptTypeOK, StoreTypeOK, \A c \in Captures : HeardIsRun(c), [Next]_vars
  PROVE  /\ stored' \in Seq(Segments)
         /\ ToSet(stored) \subseteq ToSet(stored')
<1>1. CASE stored' = stored
  BY <1>1 DEF StoreTypeOK
<1>2. ASSUME NEW e \in Captures, Delivers(e)
      PROVE  stored' \in Seq(Segments) /\ ToSet(stored) \subseteq ToSet(stored')
  <2>1. stored' = stored \o Batch(e) /\ heard[e] \in SUBSET Segments
    BY <1>2 DEF Delivers, TranscriptTypeOK
  <2>2. QED
    BY <2>1, Appends DEF StoreTypeOK
<1>3. QED
  BY <1>1, <1>2, StoreChanges

\* What was not stored stays known, whoever takes the step.
LEMMA OthersKeepKnown ==
  ASSUME StoreTypeOK, NEW e \in Captures, Step(e), NEW c \in Captures, c # e
  PROVE  orphaned'[c] = orphaned[c] /\ unsaved'[c] = unsaved[c]
<1> USE DEF StoreTypeOK, historyVars
<1>1. CASE HandlerStep(e)
  BY <1>1 DEF HandlerStep, Rejects, Accepts, AcceptFails, Greets, Closes, Finishes
<1>2. CASE PassStep(e)
  BY <1>2 DEF PassStep, PassBegins, PassReadsNothing, PassEnds, PassHoldsBack, PassFails,
     Delivers,
     DeliverFails, Shows
<1>3. CASE Decodes(e) \/ ClientStep(e)
  BY <1>3 DEF Decodes, ClientStep, Receives, ReceiveFails, StopReceived
<1>4. QED
  BY <1>1, <1>2, <1>3 DEF Step

LEMMA StoreTypeStep ==
  ASSUME TranscriptTypeOK, StoreTypeOK, \A c \in Captures : HeardIsRun(c), [Next]_vars
  PROVE  StoreTypeOK'
<1>1. stored' \in Seq(Segments)
  BY StoreGrows
<1>2. ASSUME NEW e \in Captures, Step(e)
      PROVE  /\ orphaned' \in [Captures -> SUBSET Segments]
             /\ unsaved' \in [Captures -> SUBSET Segments]
  <2>1. /\ \/ orphaned' = orphaned
           \/ orphaned' = [orphaned EXCEPT ![e] = @ \cup heard[e]]
        /\ \/ unsaved' = unsaved
           \/ unsaved' = [unsaved EXCEPT ![e] = @ \cup heard[e]]
    <3> USE DEF StoreTypeOK, historyVars
    <3>1. CASE HandlerStep(e)
      BY <3>1 DEF HandlerStep, Rejects, Accepts, AcceptFails, Greets, Closes, Finishes
    <3>2. CASE PassBegins(e) \/ PassReadsNothing(e) \/ PassEnds(e) \/ PassHoldsBack(e)
               \/ PassFails(e)
      BY <3>2 DEF PassBegins, PassReadsNothing, PassEnds, PassHoldsBack, PassFails
    <3>3. CASE Delivers(e) \/ DeliverFails(e) \/ Shows(e)
      BY <3>3 DEF Delivers, DeliverFails, Shows
    <3>4. CASE Decodes(e) \/ Receives(e) \/ ReceiveFails(e)
      BY <3>4 DEF Decodes, Receives, ReceiveFails
    <3>5. CASE StopReceived(e)
      BY <3>5 DEF StopReceived
    <3>6. QED
      BY <1>2, <3>1, <3>2, <3>3, <3>4, <3>5 DEF Step, PassStep, ClientStep
  <2>2. heard[e] \in SUBSET Segments
    BY DEF TranscriptTypeOK
  <2>3. QED
    BY <2>1, <2>2 DEF StoreTypeOK
<1>3. CASE Restart \/ UNCHANGED vars
  <2>1. orphaned' = orphaned /\ unsaved' = unsaved
    BY <1>3 DEF Restart, vars, historyVars
  <2>2. QED
    BY <1>1, <2>1 DEF StoreTypeOK
<1>4. QED
  BY <1>1, <1>2, <1>3 DEF Next, Step, StoreTypeOK

\* The path is given to who is accepted, who overlaps all that are at it.
LEMMA FileStep ==
  ASSUME TranscriptTypeOK, FileIsNoOthers, [Next]_vars
  PROVE  FileIsNoOthers'
<1>1. ASSUME NEW e \in Captures, Step(e)
      PROVE  FileIsNoOthers'
  <2> USE DEF TranscriptTypeOK, FileIsNoOthers, handlerVars, sharedVars, historyVars, Goes,
          Registers, Overlaps, Busy, Over
  <2>1. CASE Rejects(e) \/ Greets(e) \/ Closes(e) \/ Finishes(e)
    BY <2>1 DEF Rejects, Greets, Closes, Finishes, Drained
  <2>2. CASE Accepts(e) \/ AcceptFails(e)
    BY <2>2 DEF Accepts, AcceptFails
  <2>3. CASE PassStep(e)
    BY <2>3 DEF PassStep, PassBegins, PassReadsNothing, PassEnds, PassHoldsBack, PassFails,
       Delivers,
       DeliverFails, Shows
  <2>4. CASE Decodes(e) \/ ClientStep(e)
    BY <2>4 DEF Decodes, ClientStep, Receives, ReceiveFails, StopReceived
  <2>5. QED
    BY <1>1, <2>1, <2>2, <2>3, <2>4 DEF Step, HandlerStep
<1>2. CASE Restart
  BY <1>2 DEF Restart, FileIsNoOthers, Busy, Over, TranscriptTypeOK
<1>3. CASE UNCHANGED vars
  BY <1>3 DEF vars, handlerVars, sharedVars, historyVars, FileIsNoOthers, Busy
<1>4. QED
  BY <1>1, <1>2, <1>3 DEF Next, Step

\* What a pass hears, of whomever it is.
LEMMA ReadsRun ==
  ASSUME TranscriptTypeOK, FileIsNoOthers, NEW c \in Captures, Busy(c), NEW to \in Nat
  PROVE  /\ \E d \in Captures : \E m, n \in Nat : Reads(c, to) = {<<d, k>> : k \in m .. n}
         /\ \A s \in Reads(c, to) : s[1] = c \/ s[1] \in overlapped
         /\ \A s \in Reads(c, to) : cursor[c] < s[2] /\ s[2] <= to
<1>1. CASE file = NoCapture
  <2>1. Reads(c, to) = {}
    BY <1>1 DEF Reads
  <2>2. {} = {<<c, k>> : k \in 1 .. 0}
    OBVIOUS
  <2>3. QED
    BY <2>1, <2>2
<1>2. CASE file # NoCapture
  <2>1. file \in Captures /\ cursor[c] \in Nat /\ length[file] \in Nat
    BY <1>2, LegacyAssumption DEF TranscriptTypeOK
  <2>2. PICK n \in Nat : n = Least(to, length[file]) /\ n <= to
    BY <2>1 DEF Least
  <2>3. Reads(c, to) = {<<file, k>> : k \in cursor[c] + 1 .. n}
    BY <1>2, <2>2 DEF Reads
  <2>4. file = c \/ file \in overlapped
    BY <1>2 DEF FileIsNoOthers
  <2>5. cursor[c] + 1 \in Nat
    BY <2>1
  <2>6. ASSUME NEW s \in Reads(c, to)
        PROVE  (s[1] = c \/ s[1] \in overlapped) /\ cursor[c] < s[2] /\ s[2] <= to
    <3>1. PICK k \in cursor[c] + 1 .. n : s = <<file, k>>
      BY <2>3
    <3>2. QED
      BY <2>1, <2>2, <2>4, <3>1
  <2>7. \E d \in Captures : \E i, j \in Nat : Reads(c, to) = {<<d, k>> : k \in i .. j}
    BY <2>1, <2>2, <2>3, <2>5
  <2>8. QED
    BY <2>6, <2>7
<1>3. QED
  BY <1>1, <1>2

\* A capture's own steps: a pass begins past the cursor, and moves it to its end.
LEMMA PassOwnStep ==
  ASSUME TranscriptTypeOK, FileIsNoOthers, NEW c \in Captures, PassInv(c), Step(c)
  PROVE  PassInv(c)'
<1>1. overlapped \subseteq overlapped'
  BY OwnStep
<1> USE DEF TranscriptTypeOK, PassInv, HeardIsRun, HeardIsOwn, HeardAhead, HeardBehind,
        PassAwaited, Awaits, handlerVars, audioVars, passVars, sharedVars, tableVars,
        historyVars, Goes, Rests
<1>2. {} = {<<c, k>> : k \in 1 .. 0}
  OBVIOUS
<1>3. CASE \/ Rejects(c) \/ Accepts(c) \/ AcceptFails(c) \/ Greets(c)
           \/ Closes(c) \/ Finishes(c)
  <2>1. /\ stage' = stage /\ heard' = heard /\ executor' = executor /\ cursor' = cursor
        /\ upto' = upto
    BY <1>3 DEF Rejects, Accepts, AcceptFails, Greets, Closes, Finishes
  <2>2. PassAwaited(c)'
    BY <1>3 DEF Rejects, Accepts, AcceptFails, Greets, Closes, Finishes, Drained
  <2>3. QED
    BY <1>1, <2>1, <2>2
<1>4. CASE Receives(c) \/ ReceiveFails(c) \/ Decodes(c)
  <2>1. /\ stage' = stage /\ heard' = heard /\ executor' = executor /\ cursor' = cursor
        /\ upto' = upto
    BY <1>4 DEF Receives, ReceiveFails, Decodes
  <2>2. PassAwaited(c)'
    BY <1>4 DEF Receives, ReceiveFails, Decodes
  <2>3. QED
    BY <1>1, <2>1, <2>2
<1>5. CASE StopReceived(c)
  <2>1. /\ executor' = executor /\ cursor' = cursor /\ upto' = upto
        /\ stage'[c] = "rest" /\ heard'[c] \in {heard[c], {}}
    BY <1>5 DEF StopReceived
  <2>2. QED
    BY <1>1, <1>2, <2>1
<1>6. CASE PassBegins(c)
  <2>1. PICK to \in cursor[c] + 1 .. length[c] :
           /\ upto' = [upto EXCEPT ![c] = to]
           /\ heard' = [heard EXCEPT ![c] = Reads(c, to)]
    BY <1>6 DEF PassBegins
  <2>2. Busy(c) /\ to \in Nat
    BY <1>6 DEF PassBegins, Busy, Over
  <2>3. /\ upto'[c] = to /\ heard'[c] = Reads(c, to) /\ cursor' = cursor
        /\ stage'[c] = "pass" /\ at' = at
    BY <1>6, <2>1 DEF PassBegins
  <2>4. /\ \E d \in Captures : \E m, n \in Nat : heard'[c] = {<<d, k>> : k \in m .. n}
        /\ \A s \in heard'[c] : s[1] = c \/ s[1] \in overlapped
        /\ \A s \in heard'[c] : cursor[c] < s[2] /\ s[2] <= to
    <3>1. /\ \E d \in Captures : \E m, n \in Nat : Reads(c, to) = {<<d, k>> : k \in m .. n}
          /\ \A s \in Reads(c, to) : s[1] = c \/ s[1] \in overlapped
          /\ \A s \in Reads(c, to) : cursor[c] < s[2] /\ s[2] <= to
      <4> HIDE DEF TranscriptTypeOK, PassInv
      <4>1. QED
        BY <2>2, ReadsRun
    <3>2. QED
      BY <2>3, <3>1, Zenon
  <2>5. Awaits(c)' /\ cursor[c] < to
    BY <1>6, <2>1 DEF PassBegins
  <2>6. HeardIsRun(c)' /\ HeardIsOwn(c)'
    BY <1>1, <2>4
  <2>7. HeardAhead(c)' /\ HeardBehind(c)' /\ PassAwaited(c)'
    BY <2>3, <2>4, <2>5
  <2>8. QED
    BY <2>6, <2>7
<1>7. CASE PassReadsNothing(c)
  BY <1>1, <1>7 DEF PassReadsNothing
<1>8. CASE PassEnds(c)
  <2>1. /\ at' = at /\ executor'[c] = "idle" /\ executor[c] = "step"
        /\ cursor'[c] = upto[c]
        /\ \/ stage[c] = "pass" /\ stage'[c] = "done" /\ heard'[c] = heard[c]
           \/ stage'[c] = "rest" /\ heard'[c] = {}
    BY <1>8 DEF PassEnds
  <2>2. HeardIsRun(c)' /\ HeardIsOwn(c)'
    BY <1>1, <1>2, <2>1
  <2>3. HeardAhead(c)' /\ HeardBehind(c)' /\ PassAwaited(c)'
    BY <2>1
  <2>4. QED
    BY <2>2, <2>3
<1>9. CASE PassHoldsBack(c) \/ PassFails(c) \/ DeliverFails(c) \/ Shows(c)
  <2>1. /\ stage'[c] = "rest" /\ heard'[c] = {} /\ executor'[c] = "idle"
    BY <1>9 DEF PassHoldsBack, PassFails, DeliverFails, Shows
  <2>2. HeardIsRun(c)' /\ HeardIsOwn(c)'
    BY <1>2, <2>1
  <2>3. HeardAhead(c)' /\ HeardBehind(c)' /\ PassAwaited(c)'
    BY <2>1
  <2>4. QED
    BY <2>2, <2>3
<1>10. CASE Delivers(c)
  <2>1. /\ at' = at /\ executor' = executor /\ cursor' = cursor /\ upto' = upto
        /\ stage[c] = "done"
        /\ \/ stage'[c] = "show" /\ heard'[c] = heard[c]
           \/ stage'[c] = "rest" /\ heard'[c] = {}
    BY <1>10 DEF Delivers
  <2>2. QED
    BY <1>1, <1>2, <2>1
<1>11. QED
  BY <1>3, <1>4, <1>5, <1>6, <1>7, <1>8, <1>9, <1>10
     DEF Step, HandlerStep, PassStep, ClientStep

LEMMA OverlapGrows ==
  ASSUME TranscriptTypeOK, [Next]_vars
  PROVE  overlapped \subseteq overlapped'
<1>1. ASSUME NEW e \in Captures, Step(e)
      PROVE  overlapped \subseteq overlapped'
  BY <1>1, OwnStep
<1>2. CASE Restart \/ UNCHANGED vars
  BY <1>2 DEF Restart, vars, historyVars
<1>3. QED
  BY <1>1, <1>2 DEF Next, Step

\* What a capture hears goes to the store, or it is known where it went.
LEMMA AccountedOwnStep ==
  ASSUME TranscriptTypeOK, StoreTypeOK, NEW c \in Captures, PassInv(c), Step(c),
         TranscriptIsAccounted(c), ShownIsStored(c)
  PROVE  TranscriptIsAccounted(c)' /\ ShownIsStored(c)'
<1> USE DEF TranscriptIsAccounted, ShownIsStored
<1>1. CASE HandlerStep(c) \/ Decodes(c) \/ Receives(c) \/ ReceiveFails(c)
  <2>1. UNCHANGED <<stage, heard, transcript, stored, orphaned, unsaved>>
    BY <1>1 DEF HandlerStep, Rejects, Accepts, AcceptFails, Greets, Closes, Finishes,
       Decodes, Receives, ReceiveFails, passVars, tableVars, historyVars
  <2>2. QED
    BY <2>1
<1>2. CASE StopReceived(c)
  <2>1. /\ UNCHANGED <<transcript, stored, unsaved>> /\ stage'[c] = "rest"
        /\ orphaned'[c] = IF stage[c] = "done" THEN orphaned[c] \cup heard[c]
                          ELSE orphaned[c]
    BY <1>2 DEF StopReceived, tableVars, StoreTypeOK, TranscriptTypeOK
  <2>2. QED
    BY <2>1
<1>3. CASE PassBegins(c) \/ PassReadsNothing(c) \/ PassHoldsBack(c) \/ PassFails(c)
  <2>1. /\ UNCHANGED <<transcript, stored, orphaned, unsaved>> /\ stage[c] # "done"
        /\ stage'[c] # "show"
    BY <1>3 DEF PassBegins, PassReadsNothing, PassHoldsBack, PassFails, tableVars, passVars,
       historyVars,
       Rests, TranscriptTypeOK, PassInv, HeardAhead
  <2>2. QED
    BY <2>1
<1>4. CASE PassEnds(c)
  <2>1. /\ UNCHANGED <<stored, unsaved>> /\ transcript'[c] = transcript[c] \cup heard[c]
        /\ stage[c] # "done"
        /\ \/ stage'[c] = "done" /\ UNCHANGED <<heard, orphaned>>
           \/ stage'[c] = "rest" /\ orphaned'[c] = orphaned[c] \cup heard[c]
    BY <1>4 DEF PassEnds, tableVars, Rests, TranscriptTypeOK, StoreTypeOK, PassInv,
       HeardAhead
  <2>2. QED
    BY <2>1
<1>5. CASE Delivers(c)
  <2>1. /\ UNCHANGED <<transcript, orphaned, unsaved>>
        /\ stored' = stored \o Batch(c)
        /\ \/ stage'[c] = "show" /\ heard' = heard
           \/ stage'[c] = "rest"
    BY <1>5 DEF Delivers, Rests, TranscriptTypeOK, historyVars
  <2>2. ToSet(stored') = ToSet(stored) \cup heard[c]
    BY <2>1, Appends DEF StoreTypeOK, TranscriptTypeOK, PassInv
  <2>3. QED
    BY <2>1, <2>2
<1>6. CASE DeliverFails(c)
  <2>1. /\ UNCHANGED <<transcript, stored, orphaned>> /\ stage'[c] = "rest"
        /\ unsaved'[c] = unsaved[c] \cup heard[c]
    BY <1>6 DEF DeliverFails, Rests, tableVars, TranscriptTypeOK, StoreTypeOK
  <2>2. QED
    BY <2>1
<1>7. CASE Shows(c)
  <2>1. /\ UNCHANGED <<transcript, stored, orphaned, unsaved>> /\ stage'[c] = "rest"
        /\ stage[c] # "done"
    BY <1>7 DEF Shows, Rests, tableVars, TranscriptTypeOK
  <2>2. QED
    BY <2>1
<1>8. QED
  BY <1>1, <1>2, <1>3, <1>4, <1>5, <1>6, <1>7 DEF Step, PassStep, ClientStep

\* The cursor of a capture only moves on, and what it is to store was heard past it.
LEMMA BehindOwnStep ==
  ASSUME TranscriptTypeOK, StoreTypeOK, NEW c \in Captures, PassInv(c), Step(c),
         ExecutorAwaited(c), StoredBehind(c)
  PROVE  StoredBehind(c)'
<1>1. Alone(c)' => Alone(c)
  BY OwnStep DEF Alone
<1>2. at[c] # "dead"
  <2>1. CASE HandlerStep(c)
    BY <2>1 DEF HandlerStep, Rejects, Accepts, AcceptFails, Greets, Closes, Finishes,
       Drained
  <2>2. CASE Decodes(c) \/ ClientStep(c)
    BY <2>2 DEF Decodes, ClientStep, Receives, ReceiveFails, StopReceived
  <2>3. CASE PassBegins(c) \/ PassReadsNothing(c)
    BY <2>3 DEF PassBegins, PassReadsNothing, Awaits
  <2>4. CASE PassEnds(c) \/ PassHoldsBack(c) \/ PassFails(c)
    BY <2>4 DEF PassEnds, PassHoldsBack, PassFails, ExecutorAwaited, Busy, Over
  <2>5. CASE Delivers(c) \/ DeliverFails(c) \/ Shows(c)
    BY <2>5 DEF Delivers, DeliverFails, Shows, PassInv, PassAwaited, Awaits
  <2>6. QED
    BY <2>1, <2>2, <2>3, <2>4, <2>5 DEF Step, PassStep
<1>3. CASE HandlerStep(c) \/ Decodes(c) \/ Receives(c) \/ ReceiveFails(c)
  <2>1. UNCHANGED <<stage, heard, cursor, stored>>
    BY <1>3 DEF HandlerStep, Rejects, Accepts, AcceptFails, Greets, Closes, Finishes,
       Decodes, Receives, ReceiveFails, passVars, tableVars
  <2>2. QED
    BY <1>1, <1>2, <2>1 DEF StoredBehind
<1>4. CASE \/ StopReceived(c) \/ PassBegins(c) \/ PassReadsNothing(c)
           \/ PassHoldsBack(c) \/ DeliverFails(c) \/ Shows(c)
  <2>1. UNCHANGED <<cursor, stored>> /\ stage'[c] # "done"
    BY <1>4 DEF StopReceived, PassBegins, PassReadsNothing, PassHoldsBack, DeliverFails,
       Shows, Rests, passVars, tableVars, TranscriptTypeOK
  <2>2. QED
    BY <1>1, <1>2, <2>1 DEF StoredBehind
<1>5. CASE PassEnds(c) \/ PassFails(c)
  <2>1. /\ stored' = stored /\ executor[c] = "step" /\ cursor'[c] = upto[c]
        /\ stage'[c] = "done" => heard'[c] = heard[c]
    BY <1>5 DEF PassEnds, PassFails, Rests, tableVars, TranscriptTypeOK
  <2>2. /\ cursor[c] < upto[c] /\ cursor[c] \in Nat /\ upto[c] \in Nat
        /\ \A s \in heard[c] : cursor[c] < s[2] /\ s[2] \in Nat
    BY <2>1, LegacyAssumption DEF PassInv, HeardAhead, TranscriptTypeOK, Segments, Chunks
  <2>3. \A i \in 1 .. Len(stored) : stored[i][2] \in Nat
    BY LegacyAssumption DEF StoreTypeOK, Segments, Chunks
  <2>4. QED
    BY <1>1, <1>2, <2>1, <2>2, <2>3 DEF StoredBehind
<1>6. CASE Delivers(c)
  <2>1. /\ stored' = stored \o Batch(c) /\ stage[c] = "done"
        /\ stage'[c] # "done" /\ cursor' = cursor
    BY <1>6 DEF Delivers, Rests, TranscriptTypeOK
  <2>2. /\ Len(stored) \in Nat /\ Len(stored') \in Nat
        /\ \A i \in 1 .. Len(stored) : stored'[i] = stored[i]
        /\ \A i \in Len(stored) + 1 .. Len(stored') : stored'[i] \in heard[c]
    <3>1. stored \in Seq(Segments) /\ heard[c] \in SUBSET Segments /\ HeardIsRun(c)
      BY DEF StoreTypeOK, TranscriptTypeOK, PassInv
    <3>2. QED
      BY <2>1, <3>1, Appends
  <2>3. SUFFICES ASSUME Alone(c), NEW i \in 1 .. Len(stored'), stored'[i][1] = c
                 PROVE  stored'[i][2] <= cursor[c]
    BY <1>1, <2>1 DEF StoredBehind
  <2>4. CASE i <= Len(stored)
    BY <1>2, <2>2, <2>3, <2>4 DEF StoredBehind
  <2>5. CASE ~(i <= Len(stored))
    <3>1. stored'[i] \in heard[c]
      BY <2>2, <2>5
    <3>2. QED
      BY <2>1, <3>1 DEF PassInv, HeardBehind
  <2>6. QED
    BY <2>4, <2>5
<1>7. QED
  BY <1>3, <1>4, <1>5, <1>6 DEF Step, PassStep, ClientStep

\* Another's delivery adds nothing of a capture that is alone.
LEMMA OthersStore ==
  ASSUME TranscriptTypeOK, StoreTypeOK, NEW e \in Captures, PassInv(e), Step(e),
         NEW c \in Captures, c # e,
         PassInv(c), TranscriptIsAccounted(c), ShownIsStored(c), StoredBehind(c),
         stored' \in Seq(Segments), ToSet(stored) \subseteq ToSet(stored')
  PROVE  PassInv(c)' /\ TranscriptIsAccounted(c)' /\ ShownIsStored(c)' /\ StoredBehind(c)'
<1>1. Keeps(c) /\ overlapped \subseteq overlapped'
  BY OthersKeep
<1>2. orphaned'[c] = orphaned[c] /\ unsaved'[c] = unsaved[c]
  BY OthersKeepKnown
<1>3. PassInv(c)'
  BY <1>1 DEF Keeps, PassInv, HeardIsRun, HeardIsOwn, HeardAhead, HeardBehind, PassAwaited,
     Awaits
<1>4. TranscriptIsAccounted(c)' /\ ShownIsStored(c)'
  BY <1>1, <1>2 DEF Keeps, TranscriptIsAccounted, ShownIsStored
<1>5. StoredBehind(c)'
  <2>1. CASE stored' = stored
    BY <1>1, <2>1 DEF Keeps, StoredBehind, Alone
  <2>2. CASE stored' # stored
    <3>1. Delivers(e)
      BY <2>2 DEF Step, HandlerStep, PassStep, ClientStep, Rejects, Accepts, AcceptFails,
         Greets, Closes, Finishes, PassBegins, PassReadsNothing, PassEnds, PassHoldsBack,
         PassFails,
         DeliverFails, Shows, Decodes, Receives, ReceiveFails, StopReceived, tableVars
    <3>2. stored' = stored \o Batch(e)
      BY <3>1 DEF Delivers
    <3>3. /\ Len(stored) \in Nat /\ Len(stored') \in Nat
          /\ \A i \in 1 .. Len(stored) : stored'[i] = stored[i]
          /\ \A i \in Len(stored) + 1 .. Len(stored') : stored'[i] \in heard[e]
      <4>1. stored \in Seq(Segments) /\ heard[e] \in SUBSET Segments /\ HeardIsRun(e)
        BY DEF StoreTypeOK, TranscriptTypeOK, PassInv
      <4>2. QED
        BY <3>2, <4>1, Appends
    <3>4. ASSUME Alone(c)', NEW i \in 1 .. Len(stored'), stored'[i][1] = c
          PROVE  i \in 1 .. Len(stored) /\ stored'[i] = stored[i]
      <4>1. c \notin overlapped
        BY <1>1, <3>4 DEF Alone
      <4>2. stored'[i] \notin heard[e]
        BY <3>4, <4>1 DEF PassInv, HeardIsOwn
      <4>3. QED
        BY <3>3, <4>2
    <3>5. QED
      BY <1>1, <3>4 DEF Keeps, StoredBehind, Alone
  <2>3. QED
    BY <2>1, <2>2
<1>6. QED
  BY <1>3, <1>4, <1>5

LEMMA OrderStep ==
  ASSUME StoreInv, [Next]_vars
  PROVE  StoredInOrder'
<1>1. overlapped \subseteq overlapped'
  BY OverlapGrows DEF StoreInv
<1>2. CASE stored' = stored
  BY <1>1, <1>2 DEF StoreInv, StoredInOrder, Alone
<1>3. ASSUME NEW e \in Captures, stage[e] = "done", Delivers(e)
      PROVE  StoredInOrder'
  <2>1. stored' = stored \o Batch(e)
    BY <1>3 DEF Delivers
  <2>2. /\ Len(stored) \in Nat /\ Len(stored') \in Nat
        /\ \A i \in 1 .. Len(stored) : stored'[i] = stored[i]
        /\ \A i \in Len(stored) + 1 .. Len(stored') : stored'[i] \in heard[e]
        /\ \A i, j \in Len(stored) + 1 .. Len(stored') :
               i < j => stored'[i][2] < stored'[j][2]
    <3>1. stored \in Seq(Segments) /\ heard[e] \in SUBSET Segments /\ HeardIsRun(e)
      BY DEF StoreInv, StoreTypeOK, TranscriptTypeOK, PassInv
    <3>2. /\ Len(stored) \in Nat /\ Len(stored') \in Nat
          /\ \A i \in 1 .. Len(stored) : stored'[i] = stored[i]
          /\ \A i \in Len(stored) + 1 .. Len(stored') : stored'[i] \in heard[e]
      BY <2>1, <3>1, Appends
    <3>3. \A i, j \in Len(stored) + 1 .. Len(stored') :
              i < j => stored'[i][2] < stored'[j][2]
      BY <2>1, <3>1, Appends
    <3>4. QED
      BY <3>2, <3>3
  <2>3. SUFFICES ASSUME NEW i \in 1 .. Len(stored'), NEW j \in 1 .. Len(stored'), i < j,
                        stored'[i][1] = stored'[j][1], stored'[i][1] \notin overlapped
                 PROVE  stored'[i][2] < stored'[j][2]
    BY <1>1 DEF StoredInOrder, Alone
  <2>4. CASE j <= Len(stored)
    <3>1. i \in 1 .. Len(stored) /\ j \in 1 .. Len(stored)
      BY <2>2, <2>3, <2>4
    <3>2. stored'[i] = stored[i] /\ stored'[j] = stored[j]
      BY <2>2, <3>1
    <3>3. QED
      BY <2>3, <3>1, <3>2 DEF StoreInv, StoredInOrder, Alone
  <2>5. CASE i <= Len(stored) /\ ~(j <= Len(stored))
    <3>1. stored'[i] = stored[i] /\ i \in 1 .. Len(stored) /\ stored'[j] \in heard[e]
      BY <2>2, <2>3, <2>5
    <3>2. stored'[j][1] = e /\ e \notin overlapped
      BY <2>3, <3>1 DEF StoreInv, PassInv, HeardIsOwn
    <3>3. stored[i][1] = e
      BY <2>3, <3>1, <3>2
    <3>4. QED
      BY <1>3, <3>1, <3>2, <3>3 DEF StoreInv, StoredBehind, Alone
  <2>6. CASE ~(i <= Len(stored))
    BY <2>2, <2>3, <2>6
  <2>7. QED
    BY <2>4, <2>5, <2>6
<1>4. QED
  BY <1>2, <1>3, StoreChanges

LEMMA CaptionsStep ==
  ASSUME StoreInv, [Next]_vars
  PROVE  CaptionsAreStored'
<1>1. ToSet(stored) \subseteq ToSet(stored')
  BY StoreGrows DEF StoreInv, PassInv
<1>2. \/ shown' = shown
      \/ \E e \in Captures : stage[e] = "show" /\ shown' = shown \cup heard[e]
  BY StoreChanges
<1>3. \A e \in Captures : stage[e] = "show" => heard[e] \subseteq ToSet(stored)
  BY DEF StoreInv, ShownIsStored
<1>4. shown \subseteq ToSet(stored)
  BY DEF StoreInv, CaptionsAreStored
<1>5. shown' \subseteq ToSet(stored')
  BY <1>1, <1>2, <1>3, <1>4
<1>6. QED
  BY <1>5 DEF CaptionsAreStored

LEMMA StoreStep ==
  ASSUME StoreInv, [Next]_vars
  PROVE  StoreInv'
<1>1. TranscriptTypeOK' /\ FileIsNoOthers'
  BY TypeStep, FileStep DEF StoreInv
<1>2. /\ \A c \in Captures : HeardIsRun(c)
      /\ TranscriptTypeOK /\ StoreTypeOK /\ FileIsNoOthers
  BY DEF StoreInv, PassInv
<1>3. StoreTypeOK' /\ stored' \in Seq(Segments) /\ ToSet(stored) \subseteq ToSet(stored')
  BY <1>2, StoreTypeStep, StoreGrows
<1>4. StoredInOrder' /\ CaptionsAreStored'
  BY OrderStep, CaptionsStep
<1>5. ASSUME NEW c \in Captures
      PROVE  /\ Untouched(c)' /\ ExecutorAwaited(c)' /\ PassInv(c)'
             /\ TranscriptIsAccounted(c)' /\ ShownIsStored(c)' /\ StoredBehind(c)'
  <2>1. /\ Untouched(c) /\ ExecutorAwaited(c) /\ PassInv(c)
        /\ TranscriptIsAccounted(c) /\ ShownIsStored(c) /\ StoredBehind(c)
    BY DEF StoreInv
  <2>2. CASE Step(c)
    BY <1>2, <2>1, <2>2, UntouchedStep, PassOwnStep, AccountedOwnStep, BehindOwnStep
  <2>3. ASSUME NEW e \in Captures, Step(e), e # c
        PROVE  /\ Untouched(c)' /\ ExecutorAwaited(c)' /\ PassInv(c)'
               /\ TranscriptIsAccounted(c)' /\ ShownIsStored(c)' /\ StoredBehind(c)'
    <3>1. PassInv(e)
      BY DEF StoreInv
    <3>2. Untouched(c)' /\ ExecutorAwaited(c)'
      BY <1>2, <2>1, <2>3, OthersKeep DEF Keeps, Untouched, ExecutorAwaited, Busy
    <3>3. QED
      BY <1>2, <1>3, <2>1, <2>3, <3>1, <3>2, OthersStore
  <2>4. CASE Restart
    <3>1. /\ stage'[c] = "rest" /\ executor'[c] = "idle" /\ heard'[c] = {}
          /\ transcript'[c] = {} /\ cursor'[c] = 0 /\ cursor[c] \in Nat
          /\ at'[c] = IF at[c] = "off" THEN "off" ELSE "dead"
          /\ UNCHANGED <<stored, overlapped>>
      BY <2>4 DEF Restart, tableVars, historyVars, TranscriptTypeOK, StoreInv
    <3>2. {} = {<<c, k>> : k \in 1 .. 0}
      OBVIOUS
    <3>3. HeardIsRun(c)'
      BY <3>1, <3>2 DEF HeardIsRun
    <3>4. HeardIsOwn(c)' /\ HeardAhead(c)' /\ HeardBehind(c)' /\ PassAwaited(c)'
      BY <3>1 DEF HeardIsOwn, HeardAhead, HeardBehind, PassAwaited
    <3>5. TranscriptIsAccounted(c)' /\ ShownIsStored(c)'
      BY <3>1 DEF TranscriptIsAccounted, ShownIsStored
    <3>6. StoredBehind(c)'
      <4>1. CASE at[c] = "off"
        BY <2>1, <3>1, <4>1 DEF StoredBehind, Alone, Untouched
      <4>2. CASE at[c] # "off"
        BY <3>1, <4>2 DEF StoredBehind
      <4>3. QED
        BY <4>1, <4>2
    <3>7. Untouched(c)' /\ ExecutorAwaited(c)'
      BY <2>4 DEF Restart, Untouched, ExecutorAwaited
    <3>8. QED
      BY <3>3, <3>4, <3>5, <3>6, <3>7 DEF PassInv
  <2>5. CASE UNCHANGED vars
    <3>1. UNCHANGED <<at, fed, length, drains, stage, executor, heard, upto, cursor,
                      transcript, stored, orphaned, unsaved, overlapped>>
      BY <2>5 DEF vars, handlerVars, audioVars, passVars, tableVars, historyVars
    <3>2. QED
      BY <2>1, <3>1 DEF Untouched, ExecutorAwaited, Busy, PassInv, HeardIsRun, HeardIsOwn,
         HeardAhead, HeardBehind, PassAwaited, Awaits, TranscriptIsAccounted,
         ShownIsStored, StoredBehind, Alone
  <2>6. QED
    BY <2>2, <2>3, <2>4, <2>5 DEF Next, Step
<1>6. QED
  BY <1>1, <1>3, <1>4, <1>5 DEF StoreInv

LEMMA StoreInit ==
  ASSUME Init
  PROVE  StoreInv
<1>1. TranscriptTypeOK
  BY InitInvariant DEF IInv
<1>2. StoreTypeOK
  BY DEF Init, StoreTypeOK
<1>3. FileIsNoOthers /\ StoredInOrder /\ CaptionsAreStored
  BY DEF Init, FileIsNoOthers, StoredInOrder, CaptionsAreStored, ToSet
<1>4. ASSUME NEW c \in Captures
      PROVE  /\ Untouched(c) /\ ExecutorAwaited(c) /\ PassInv(c)
             /\ TranscriptIsAccounted(c) /\ ShownIsStored(c) /\ StoredBehind(c)
  <2>1. {} = {<<c, k>> : k \in 1 .. 0}
    OBVIOUS
  <2>2. /\ stage[c] = "rest" /\ executor[c] = "idle" /\ heard[c] = {}
        /\ transcript[c] = {} /\ stored = <<>>
    BY DEF Init
  <2>3. Untouched(c) /\ ExecutorAwaited(c)
    BY InitInvariant DEF IInv, CaptureInv
  <2>4. QED
    BY <2>1, <2>2, <2>3 DEF PassInv, HeardIsRun, HeardIsOwn, HeardAhead, HeardBehind,
       PassAwaited, TranscriptIsAccounted, ShownIsStored, StoredBehind
<1>5. QED
  BY <1>1, <1>2, <1>3, <1>4 DEF StoreInv

LEMMA StoreInvariance == Spec => []StoreInv
<1>1. Init => StoreInv
  BY StoreInit
<1>2. StoreInv /\ [Next]_vars => StoreInv'
  BY StoreStep
<1>3. QED
  BY <1>1, <1>2, PTL DEF Spec

\* A side panel has shown nothing that is not in the table of segments, whatever fails
\* between the two and however often the backend is restarted: pipeline.py persists first.
THEOREM PersistFirst == Spec => []CaptionsAreStored
<1>1. StoreInv => CaptionsAreStored
  BY DEF StoreInv
<1>2. QED
  BY <1>1, StoreInvariance, PTL

\* The table holds the segments of a capture that nobody overlapped in the order of speech,
\* none twice: a batch is given once, and begins after the one before.
THEOREM TableIsInOrder == Spec => []StoredInOrder
<1>1. StoreInv => StoredInOrder
  BY DEF StoreInv
<1>2. QED
  BY <1>1, StoreInvariance, PTL

\* What a complete session has in its transcript but not in the table is what the stop
\* found on its way there, or what the table refused: nothing gets lost in between.
THEOREM StoreMissesOnlyTheStop == Spec => []LossIsAtStop
<1>1. StoreInv => LossIsAtStop
  BY DEF StoreInv, PassInv, PassAwaited, Awaits, TranscriptIsAccounted, LossIsAtStop,
     Complete
<1>2. QED
  BY <1>1, StoreInvariance, PTL
=============================================================================
