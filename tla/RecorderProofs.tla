--------------------------- MODULE RecorderProofs ---------------------------
(***************************************************************************)
(* What holds of Recorder for every set of sessions, channels and titles   *)
(* and every bound: types, and that live sessions and transcripts are kept *)
(* straight whatever fails, dies, is renamed or is deleted around them.    *)
(***************************************************************************)
EXTENDS Recorder, FiniteSetTheorems, TLAPS

\* An id nobody started has left no trace.
FreshIds ==
    \A s \in Sessions : s \notin used =>
        /\ rows[s] = NoRow
        /\ segments[s] = {}
        /\ live[s] = NoRow
        /\ stopAt[s] = "idle"
        /\ passOf = s => passAt = "idle"
        /\ mainOf = s => mainAt = "idle"

\* The after-meeting thread is inside finalize for s.
Finalizing(s) == passOf = s /\ passAt \notin {"idle", "summary"}

\* The main thread is about to delete the rows of s.
Deleting(s) == mainOf = s /\ mainAt = "delete rows"

\* A session is live, being stopped, or none of both; while it is one of both its row is
\* there with the live transcript, and it is neither finalized nor deleted.
OwnedOnce(s) ==
    /\ live[s] # NoRow => stopAt[s] = "idle"
    /\ live[s] # NoRow \/ stopAt[s] # "idle" =>
          /\ ~Finalizing(s)
          /\ ~Deleting(s)
          /\ rows[s] # NoRow
          /\ rows[s].transcript = "live"
          /\ rows[s].status \in MidFlight
    /\ stopAt[s] # "idle" =>
          stopCopy[s] # NoRow /\ stopCopy[s].transcript = "live"

OneOwner == \A s \in Sessions : OwnedOnce(s)

\* LiveIsRecording and OneTranscript, of one session.
Mirrored(s) ==
    live[s] # NoRow =>
        /\ rows[s] # NoRow
        /\ live[s].status = "recording"
        /\ rows[s] = WithTitle(live[s], rows[s].title)

OfOnePass(s) == \A g \in segments[s] : rows[s] # NoRow /\ g[1] = rows[s].transcript

\* A worker that may still deliver belongs to a live session or to a stop that has not
\* joined it.
WorkerOwned(s, c) ==
    worker[s][c] \in {"waiting", "deliver", "notify"} =>
        \/ live[s] # NoRow /\ c \in live[s].sources
        \/ stopAt[s] \in {"mark", "channels", "drop"} /\ c \in stopLeft[s]

WorkersOwned == \A s \in Sessions, c \in Channels : WorkerOwned(s, c)

\* What a pass has transcribed is final; the row it has read names the transcript the
\* session still has, until the pass itself replaces it.
PassReads(s) ==
    /\ \A g \in final : g[1] = "final"
    /\ passOf = s /\ passAt \notin {"idle", "load", "summary"} =>
          /\ original # NoRow
          /\ rows[s] # NoRow =>
               rows[s].transcript =
                   IF passAt = "close" THEN "final" ELSE original.transcript

PassConsistent == \A s \in Sessions : PassReads(s)

\* Transcripts are finite, so that counting them gives a number.
FiniteTranscripts ==
    /\ \A s \in Sessions : IsFiniteSet(segments[s])
    /\ IsFiniteSet(final)

IInv ==
    /\ TypeOK
    /\ FiniteTranscripts
    /\ FreshIds
    /\ OneOwner
    /\ WorkersOwned
    /\ PassConsistent
    /\ LiveIsRecording
    /\ OneTranscript

-----------------------------------------------------------------------------
(* What the copies a thread makes of a row have in common with the row.                *)

LEMMA NewRowIsRow ==
  ASSUME NEW sources \in SUBSET Channels
  PROVE  /\ NewRow(sources) \in Row
         /\ NewRow(sources).status = "recording"
         /\ NewRow(sources).transcript = "live"
         /\ NewRow(sources).sources = sources
         /\ NewRow(sources).title = Untitled
BY DEF NewRow, Row, Statuses, Passes

LEMMA RowFields ==
  ASSUME NEW r \in Row
  PROVE  /\ r # NoRow
         /\ r.status \in Statuses
         /\ r.title \in Titles \cup {Untitled}
         /\ r.sources \in SUBSET Channels
         /\ r.transcript \in Passes
BY StoreAssumption DEF Row

LEMMA WithStatusIsRow ==
  ASSUME NEW r \in Row, NEW status \in Statuses
  PROVE  /\ WithStatus(r, status) \in Row
         /\ WithStatus(r, status).status = status
         /\ WithStatus(r, status).transcript = r.transcript
         /\ WithStatus(r, status).sources = r.sources
         /\ WithStatus(r, status).title = r.title
BY DEF WithStatus, Row

LEMMA WithTitleIsRow ==
  ASSUME NEW r \in Row, NEW title \in Titles \cup {Untitled}
  PROVE  /\ WithTitle(r, title) \in Row
         /\ WithTitle(r, title).status = r.status
         /\ WithTitle(r, title).transcript = r.transcript
         /\ WithTitle(r, title).sources = r.sources
         /\ WithTitle(r, title).title = title
         /\ WithTitle(r, r.title) = r
         /\ \A other \in Titles \cup {Untitled} :
              WithTitle(WithTitle(r, title), other) = WithTitle(r, other)
BY DEF WithTitle, Row

LEMMA WithCountIsRow ==
  ASSUME NEW r \in Row, NEW n \in Nat
  PROVE  /\ WithCount(r, n) \in Row
         /\ WithCount(r, n).status = r.status
         /\ WithCount(r, n).transcript = r.transcript
         /\ WithCount(r, n).sources = r.sources
BY DEF WithCount, Row

LEMMA WithFinalIsRow ==
  ASSUME NEW r \in Row, NEW n \in Nat
  PROVE  /\ WithFinal(r, n) \in Row
         /\ WithFinal(r, n).status = r.status
         /\ WithFinal(r, n).transcript = "final"
         /\ WithFinal(r, n).sources = r.sources
BY DEF WithFinal, Row, Passes

LEMMA WithErrorIsRow ==
  ASSUME NEW r \in Row, NEW error \in BOOLEAN
  PROVE  /\ WithError(r, error) \in Row
         /\ WithError(r, error).status = r.status
         /\ WithError(r, error).transcript = r.transcript
         /\ WithError(r, error).sources = r.sources
BY DEF WithError, Row

LEMMA SetCell ==
  ASSUME NEW S, NEW C, NEW V, NEW f \in [S -> [C -> V]],
         NEW s \in S, NEW c \in C, NEW v \in V
  PROVE  [f EXCEPT ![s][c] = v] \in [S -> [C -> V]]
OBVIOUS

LEMMA FaultCounted ==
  ASSUME TypeOK, Fault \/ NoFault
  PROVE  faults' \in 0 .. MaxMishaps
BY RecorderAssumption DEF Fault, NoFault, TypeOK, RestTypeOK

LEMMA UtterancesFinite == IsFiniteSet(Utterances) /\ Utterances \in SUBSET (Nat \ {0})
<1>1. MaxAudio \in Int
  BY RecorderAssumption
<1>2. IsFiniteSet(Utterances)
  BY <1>1, FS_Interval DEF Utterances
<1>3. QED
  BY <1>2, RecorderAssumption DEF Utterances

LEMMA SegmentsOfSegments ==
  ASSUME NEW kind \in Passes, NEW c \in Channels, NEW ks \in SUBSET Utterances
  PROVE  /\ SegmentsOf(kind, c, ks) \in SUBSET Segments
         /\ IsFiniteSet(SegmentsOf(kind, c, ks))
         /\ \A g \in SegmentsOf(kind, c, ks) : g[1] = kind
<1>1. SegmentsOf(kind, c, ks) \in SUBSET Segments
  BY UtterancesFinite DEF SegmentsOf, Segments
<1>2. IsFiniteSet(ks)
  BY UtterancesFinite, FS_Subset
<1> DEFINE f == [k \in ks |-> <<kind, c, k>>]
<1>3. f \in Surjection(ks, SegmentsOf(kind, c, ks))
  BY DEF Surjection, SegmentsOf
<1>4. IsFiniteSet(SegmentsOf(kind, c, ks))
  BY <1>2, <1>3, FS_Surjection
<1>5. QED
  BY <1>1, <1>4 DEF SegmentsOf

LEMMA BatchSegments ==
  ASSUME TypeOK, NEW s \in Sessions, NEW c \in Channels
  PROVE  /\ Batch(s, c) \in SUBSET Segments
         /\ IsFiniteSet(Batch(s, c))
         /\ \A g \in Batch(s, c) : g[1] = "live"
<1>1. batch[s][c] \in SUBSET Utterances
  BY DEF TypeOK, WorkerTypeOK
<1>2. QED
  BY <1>1, SegmentsOfSegments DEF Batch, Passes

LEMMA HeardUtterances ==
  ASSUME TypeOK, NEW s \in Sessions, NEW c \in Channels,
         NEW upto \in Heard(s, c, length[s][c])
  PROVE  /\ upto \in 0 .. MaxAudio
         /\ Heard(s, c, upto) \in SUBSET Utterances
         /\ SegmentsOf("live", c, Heard(s, c, upto)) \in SUBSET Segments
<1>1. cursor[s][c] \in 0 .. MaxAudio /\ length[s][c] \in 0 .. MaxAudio
  BY DEF TypeOK, WorkerTypeOK, AudioTypeOK
<1>2. upto \in 0 .. MaxAudio /\ Heard(s, c, upto) \in SUBSET Utterances
  BY <1>1, RecorderAssumption DEF Heard, Utterances
<1>3. QED
  BY <1>2, SegmentsOfSegments DEF Passes

LEMMA RecordingSegments ==
  ASSUME TypeOK, NEW s \in Sessions, NEW c \in Channels
  PROVE  /\ SegmentsOf("final", c, 1 .. length[s][c]) \in SUBSET Segments
         /\ IsFiniteSet(SegmentsOf("final", c, 1 .. length[s][c]))
         /\ \A g \in SegmentsOf("final", c, 1 .. length[s][c]) : g[1] = "final"
<1>1. length[s][c] \in 0 .. MaxAudio
  BY DEF TypeOK, AudioTypeOK
<1>2. 1 .. length[s][c] \in SUBSET Utterances
  BY <1>1, RecorderAssumption DEF Utterances
<1>3. QED
  BY <1>2, SegmentsOfSegments DEF Passes

-----------------------------------------------------------------------------
(* Every conjunct of IInv is preserved by every step: one step per action that writes a  *)
(* variable of the conjunct, the others together.                                       *)

\* Every write of the store is of a row or of segments: of a copy that was read before, of
\* what a worker or a pass decoded.
LEMMA StoreTypeOKStep ==
  ASSUME TypeOK, FiniteTranscripts, OneOwner, PassConsistent, [Next]_vars
  PROVE  StoreTypeOK'
<1>1. ASSUME NEW s \in Sessions, NEW sources \in SUBSET Channels, Start(s, sources)
      PROVE  StoreTypeOK'
  BY <1>1, NewRowIsRow, StoreAssumption DEF Start, SaveSession, TypeOK, StoreTypeOK,
     StopTypeOK, PassTypeOK, RestTypeOK, FiniteTranscripts, OneOwner, OwnedOnce,
     PassConsistent, PassReads, Statuses, storeVars, audioVars, workerVars, stopVars,
     passVars, mainVars, historyVars
<1>2. ASSUME NEW s \in Sessions, NEW sources \in SUBSET Channels, StartFails(s, sources)
      PROVE  StoreTypeOK'
  BY <1>2, NewRowIsRow, StoreAssumption DEF StartFails, SaveSession, TypeOK, StoreTypeOK,
     StopTypeOK, PassTypeOK, RestTypeOK, FiniteTranscripts, OneOwner, OwnedOnce,
     PassConsistent, PassReads, Statuses, storeVars, audioVars, workerVars, stopVars,
     passVars, mainVars, historyVars
<1>3. ASSUME NEW s \in Sessions, NEW c \in Channels, Deliver(s, c)
      PROVE  StoreTypeOK'
  BY <1>3, BatchSegments DEF Deliver, AddSegments, TypeOK, StoreTypeOK, StopTypeOK,
     PassTypeOK, RestTypeOK, FiniteTranscripts, OneOwner, OwnedOnce, PassConsistent,
     PassReads, Statuses, storeVars, audioVars, workerVars, stopVars, passVars, mainVars,
     historyVars
<1>4. ASSUME NEW s \in Sessions, StopMark(s)
      PROVE  StoreTypeOK'
  BY <1>4, WithStatusIsRow, StoreAssumption DEF StopMark, SaveSession, TypeOK,
     StoreTypeOK, StopTypeOK, PassTypeOK, RestTypeOK, FiniteTranscripts, OneOwner,
     OwnedOnce, PassConsistent, PassReads, Statuses, storeVars, audioVars, workerVars,
     stopVars, passVars, mainVars, historyVars
<1>5. ASSUME NEW s \in Sessions, StopClose(s)
      PROVE  StoreTypeOK'
  BY <1>5, WithStatusIsRow, StoreAssumption DEF StopClose, SaveSession, StopRests,
     TypeOK, StoreTypeOK, StopTypeOK, PassTypeOK, RestTypeOK, FiniteTranscripts,
     OneOwner, OwnedOnce, PassConsistent, PassReads, Statuses, storeVars, audioVars,
     workerVars, stopVars, passVars, mainVars, historyVars
<1>6. ASSUME FinalizeMark
      PROVE  StoreTypeOK'
  BY <1>6, WithStatusIsRow, RowFields DEF FinalizeMark, SaveSession, TypeOK, StoreTypeOK,
     StopTypeOK, PassTypeOK, RestTypeOK, FiniteTranscripts, OneOwner, OwnedOnce,
     PassConsistent, PassReads, Statuses, storeVars, audioVars, workerVars, stopVars,
     passVars, mainVars, historyVars
<1>7. ASSUME FinalizeRestore
      PROVE  StoreTypeOK'
  BY <1>7, StoreAssumption DEF FinalizeRestore, SaveSession, PassGoes, TypeOK,
     StoreTypeOK, StopTypeOK, PassTypeOK, RestTypeOK, FiniteTranscripts, OneOwner,
     OwnedOnce, PassConsistent, PassReads, Statuses, storeVars, audioVars, workerVars,
     stopVars, passVars, mainVars, historyVars
<1>8. ASSUME FinalizeFail
      PROVE  StoreTypeOK'
  BY <1>8, WithStatusIsRow, WithErrorIsRow, StoreAssumption DEF FinalizeFail,
     SaveSession, PassGoes, TypeOK, StoreTypeOK, StopTypeOK, PassTypeOK, RestTypeOK,
     FiniteTranscripts, OneOwner, OwnedOnce, PassConsistent, PassReads, Statuses,
     storeVars, audioVars, workerVars, stopVars, passVars, mainVars, historyVars
<1>9. ASSUME FinalizeReplace
      PROVE  StoreTypeOK'
  <2>1. Cardinality(final) \in Nat
    BY FS_CardinalityType DEF FiniteTranscripts
  <2>2. rows[passOf] # NoRow => WithFinal(rows[passOf], Cardinality(final)) \in Row
    BY <2>1, WithFinalIsRow DEF TypeOK, StoreTypeOK, PassTypeOK
  <2>3. \/ UNCHANGED storeVars
        \/ /\ rows[passOf] # NoRow
           /\ rows' = [rows EXCEPT ![passOf] = WithFinal(rows[passOf],
                Cardinality(final))]
           /\ segments' = [segments EXCEPT ![passOf] = final]
           /\ summaries' = summaries
    BY <1>9 DEF FinalizeReplace, ReplaceTranscript
  <2>4. QED
    BY <2>2, <2>3 DEF storeVars, TypeOK, StoreTypeOK, PassTypeOK
<1>10. ASSUME FinalizeClose
      PROVE  StoreTypeOK'
  BY <1>10, WithStatusIsRow, WithErrorIsRow, WithFinalIsRow, FS_CardinalityType,
     StoreAssumption DEF FinalizeClose, SaveSession, PassGoes, TypeOK, StoreTypeOK,
     StopTypeOK, PassTypeOK, RestTypeOK, FiniteTranscripts, OneOwner, OwnedOnce,
     PassConsistent, PassReads, Statuses, storeVars, audioVars, workerVars, stopVars,
     passVars, mainVars, historyVars
<1>11. ASSUME Summary
      PROVE  StoreTypeOK'
  BY <1>11 DEF Summary, SaveSummary, PassGoes, TypeOK, StoreTypeOK, StopTypeOK,
     PassTypeOK, RestTypeOK, FiniteTranscripts, OneOwner, OwnedOnce, PassConsistent,
     PassReads, Statuses, storeVars, audioVars, workerVars, stopVars, passVars, mainVars,
     historyVars
<1>12. ASSUME NEW s \in Sessions, NEW title \in Titles, RenameLive(s, title)
      PROVE  StoreTypeOK'
  BY <1>12, WithTitleIsRow, StoreAssumption DEF RenameLive, SaveSession, TypeOK,
     StoreTypeOK, StopTypeOK, PassTypeOK, RestTypeOK, FiniteTranscripts, OneOwner,
     OwnedOnce, PassConsistent, PassReads, Statuses, storeVars, audioVars, workerVars,
     stopVars, passVars, mainVars, historyVars
<1>13. ASSUME NEW s \in Sessions, NEW title \in Titles, RenameStored(s, title)
      PROVE  StoreTypeOK'
  BY <1>13, WithTitleIsRow, StoreAssumption DEF RenameStored, RenameSession, TypeOK,
     StoreTypeOK, StopTypeOK, PassTypeOK, RestTypeOK, FiniteTranscripts, OneOwner,
     OwnedOnce, PassConsistent, PassReads, Statuses, storeVars, audioVars, workerVars,
     stopVars, passVars, mainVars, historyVars
<1>14. ASSUME DeleteRows
      PROVE  StoreTypeOK'
  BY <1>14 DEF DeleteRows, DeleteSession, TypeOK, StoreTypeOK, StopTypeOK, PassTypeOK,
     RestTypeOK, FiniteTranscripts, OneOwner, OwnedOnce, PassConsistent, PassReads,
     Statuses, storeVars, audioVars, workerVars, stopVars, passVars, mainVars, historyVars
<1>15. ASSUME Crash
      PROVE  StoreTypeOK'
  BY <1>15, WithStatusIsRow, StoreAssumption DEF Crash, RecoverInterrupted, PassGoes,
     TypeOK, StoreTypeOK, StopTypeOK, PassTypeOK, RestTypeOK, FiniteTranscripts,
     OneOwner, OwnedOnce, PassConsistent, PassReads, Statuses, storeVars, audioVars,
     workerVars, stopVars, passVars, mainVars, historyVars
<1>16. ASSUME NEW s \in Sessions, NEW c \in Channels,
         Append(s, c) \/ Decode(s, c) \/ Notify(s, c) \/ WorkerEnds(s, c)
         \/ DrainGivesUp(s, c) \/ StopChannel(s, c) \/ JoinChannel(s, c)
      PROVE  StoreTypeOK'
  <2>1. UNCHANGED <<rows, segments, summaries>>
    BY <1>16 DEF Append, Decode, Notify, WorkerEnds, DrainGivesUp, StopChannel,
       JoinChannel, StopRests, storeVars, audioVars, workerVars, stopVars, passVars,
       mainVars, historyVars
  <2>2. QED
    BY <2>1 DEF TypeOK, StoreTypeOK
<1>17. ASSUME NEW s \in Sessions,
         StopBegin(s) \/ StopCount(s) \/ StopFails(s) \/ FinalizeBegin(s)
         \/ SummaryBegin(s) \/ DeleteBegin(s)
      PROVE  StoreTypeOK'
  <2>1. UNCHANGED <<rows, segments, summaries>>
    BY <1>17 DEF StopBegin, StopCount, StopFails, StopRests, FinalizeBegin, SummaryBegin,
       DeleteBegin, storeVars, audioVars, workerVars, stopVars, passVars, mainVars,
       historyVars
  <2>2. QED
    BY <2>1 DEF TypeOK, StoreTypeOK
<1>18. ASSUME FinalizeLoad \/ FinalizeSettle \/ FinalizeReturns \/ DeleteFiles \/ Quit
      PROVE  StoreTypeOK'
  <2>1. UNCHANGED <<rows, segments, summaries>>
    BY <1>18 DEF FinalizeLoad, PassGoes, FinalizeSettle, FinalizeReturns, PassGoes,
       DeleteFiles, Quit, storeVars, audioVars, workerVars, stopVars, passVars, mainVars,
       historyVars
  <2>2. QED
    BY <2>1 DEF TypeOK, StoreTypeOK
<1>19. ASSUME NEW c \in Channels,
         FinalizeChannel(c)
      PROVE  StoreTypeOK'
  <2>1. UNCHANGED <<rows, segments, summaries>>
    BY <1>19 DEF FinalizeChannel, storeVars, audioVars, workerVars, stopVars, passVars,
       mainVars, historyVars
  <2>2. QED
    BY <2>1 DEF TypeOK, StoreTypeOK
<1>20. CASE UNCHANGED vars
  BY <1>20 DEF vars, storeVars, audioVars, workerVars, stopVars, passVars, mainVars,
     historyVars, TypeOK, StoreTypeOK
<1>21. QED
  BY <1>1, <1>2, <1>3, <1>4, <1>5, <1>6, <1>7, <1>8, <1>9, <1>10, <1>11, <1>12, <1>13,
     <1>14, <1>15, <1>16, <1>17, <1>18, <1>19, <1>20
     DEF Next, WorkerStep, StopStep, PassStep, MainStep, UserStep

\* Capture stays within its bound.
LEMMA AudioTypeOKStep ==
  ASSUME TypeOK, [Next]_vars
  PROVE  AudioTypeOK'
<1>1. ASSUME NEW s \in Sessions, NEW sources \in SUBSET Channels, Start(s, sources)
      PROVE  AudioTypeOK'
  BY <1>1, RecorderAssumption DEF Start, SaveSession, TypeOK, AudioTypeOK, RestTypeOK,
     storeVars, audioVars, workerVars, stopVars, passVars, mainVars, historyVars
<1>2. ASSUME NEW s \in Sessions, NEW sources \in SUBSET Channels, StartFails(s, sources)
      PROVE  AudioTypeOK'
  BY <1>2, RecorderAssumption DEF StartFails, SaveSession, TypeOK, AudioTypeOK,
     RestTypeOK, storeVars, audioVars, workerVars, stopVars, passVars, mainVars,
     historyVars
<1>3. ASSUME NEW s \in Sessions, NEW c \in Channels, Append(s, c)
      PROVE  AudioTypeOK'
  <2>1. length[s][c] + 1 \in 0 .. MaxAudio
    BY <1>3, RecorderAssumption DEF Append, TypeOK, AudioTypeOK
  <2>2. length' = [length EXCEPT ![s][c] = length[s][c] + 1]
    BY <1>3 DEF Append, TypeOK, AudioTypeOK
  <2>3. length' \in [Sessions -> [Channels -> 0 .. MaxAudio]]
    BY <2>1, <2>2, SetCell DEF TypeOK, AudioTypeOK
  <2>4. QED
    BY <1>3, <2>3 DEF Append, TypeOK, AudioTypeOK
<1>4. ASSUME NEW s \in Sessions, NEW c \in Channels, StopChannel(s, c)
      PROVE  AudioTypeOK'
  BY <1>4, RecorderAssumption DEF StopChannel, TypeOK, AudioTypeOK, RestTypeOK,
     storeVars, audioVars, workerVars, stopVars, passVars, mainVars, historyVars
<1>5. ASSUME DeleteFiles
      PROVE  AudioTypeOK'
  <2>1. [c \in Channels |-> 0] \in [Channels -> 0 .. MaxAudio]
    BY RecorderAssumption
  <2>2. QED
    BY <1>5, <2>1 DEF DeleteFiles, TypeOK, AudioTypeOK, RestTypeOK
<1>6. ASSUME Crash
      PROVE  AudioTypeOK'
  BY <1>6, RecorderAssumption DEF Crash, RecoverInterrupted, PassGoes, TypeOK,
     AudioTypeOK, RestTypeOK, storeVars, audioVars, workerVars, stopVars, passVars,
     mainVars, historyVars
<1>7. ASSUME NEW s \in Sessions, NEW c \in Channels,
         Decode(s, c) \/ Deliver(s, c) \/ Notify(s, c) \/ WorkerEnds(s, c)
         \/ DrainGivesUp(s, c) \/ JoinChannel(s, c)
      PROVE  AudioTypeOK'
  <2>1. UNCHANGED <<recorded, open, length>>
    BY <1>7 DEF Decode, Deliver, AddSegments, Notify, WorkerEnds, DrainGivesUp,
       JoinChannel, StopRests, storeVars, audioVars, workerVars, stopVars, passVars,
       mainVars, historyVars
  <2>2. QED
    BY <2>1 DEF TypeOK, AudioTypeOK
<1>8. ASSUME NEW s \in Sessions,
         StopBegin(s) \/ StopMark(s) \/ StopCount(s) \/ StopClose(s) \/ StopFails(s)
         \/ FinalizeBegin(s) \/ SummaryBegin(s) \/ DeleteBegin(s)
      PROVE  AudioTypeOK'
  <2>1. UNCHANGED <<recorded, open, length>>
    BY <1>8 DEF StopBegin, StopMark, SaveSession, StopCount, StopClose, SaveSession,
       StopRests, StopFails, StopRests, FinalizeBegin, SummaryBegin, DeleteBegin,
       storeVars, audioVars, workerVars, stopVars, passVars, mainVars, historyVars
  <2>2. QED
    BY <2>1 DEF TypeOK, AudioTypeOK
<1>9. ASSUME FinalizeLoad \/ FinalizeMark \/ FinalizeSettle \/ FinalizeRestore
     \/ FinalizeFail \/ FinalizeReplace \/ FinalizeClose \/ FinalizeReturns \/ Summary
     \/ DeleteRows \/ Quit
      PROVE  AudioTypeOK'
  <2>1. UNCHANGED <<recorded, open, length>>
    BY <1>9 DEF FinalizeLoad, PassGoes, FinalizeMark, SaveSession, FinalizeSettle,
       FinalizeRestore, SaveSession, PassGoes, FinalizeFail, SaveSession, PassGoes,
       FinalizeReplace, ReplaceTranscript, PassGoes, FinalizeClose, SaveSession,
       PassGoes, FinalizeReturns, PassGoes, Summary, SaveSummary, PassGoes, DeleteRows,
       DeleteSession, Quit, storeVars, audioVars, workerVars, stopVars, passVars,
       mainVars, historyVars
  <2>2. QED
    BY <2>1 DEF TypeOK, AudioTypeOK
<1>10. ASSUME NEW c \in Channels,
         FinalizeChannel(c)
      PROVE  AudioTypeOK'
  <2>1. UNCHANGED <<recorded, open, length>>
    BY <1>10 DEF FinalizeChannel, storeVars, audioVars, workerVars, stopVars, passVars,
       mainVars, historyVars
  <2>2. QED
    BY <2>1 DEF TypeOK, AudioTypeOK
<1>11. ASSUME NEW s \in Sessions, NEW title \in Titles,
         RenameLive(s, title) \/ RenameStored(s, title)
      PROVE  AudioTypeOK'
  <2>1. UNCHANGED <<recorded, open, length>>
    BY <1>11 DEF RenameLive, SaveSession, RenameStored, RenameSession, storeVars,
       audioVars, workerVars, stopVars, passVars, mainVars, historyVars
  <2>2. QED
    BY <2>1 DEF TypeOK, AudioTypeOK
<1>12. CASE UNCHANGED vars
  BY <1>12 DEF vars, storeVars, audioVars, workerVars, stopVars, passVars, mainVars,
     historyVars, TypeOK, AudioTypeOK
<1>13. QED
  BY <1>1, <1>2, <1>3, <1>4, <1>5, <1>6, <1>7, <1>8, <1>9, <1>10, <1>11, <1>12
     DEF Next, WorkerStep, StopStep, PassStep, MainStep, UserStep

\* A worker decodes what was captured and nothing else.
LEMMA WorkerTypeOKStep ==
  ASSUME TypeOK, [Next]_vars
  PROVE  WorkerTypeOK'
<1>1. ASSUME NEW s \in Sessions, NEW sources \in SUBSET Channels, Start(s, sources)
      PROVE  WorkerTypeOK'
  BY <1>1 DEF Start, SaveSession, TypeOK, WorkerTypeOK, AudioTypeOK, WorkerAt, storeVars,
     audioVars, workerVars, stopVars, passVars, mainVars, historyVars
<1>2. ASSUME NEW s \in Sessions, NEW c \in Channels, Decode(s, c)
      PROVE  WorkerTypeOK'
  <2>1. PICK upto \in Heard(s, c, length[s][c]) :
            /\ cursor' = [cursor EXCEPT ![s][c] = upto]
            /\ \/ /\ worker' = [worker EXCEPT ![s][c] = "deliver"]
                  /\ batch' = [batch EXCEPT ![s][c] = Heard(s, c, upto)]
                  /\ memory' = [memory EXCEPT ![s] =
                                   @ \cup SegmentsOf("live", c, Heard(s, c, upto))]
               \/ UNCHANGED <<worker, batch, memory>>
    BY <1>2 DEF Decode
  <2>2. /\ upto \in 0 .. MaxAudio /\ Heard(s, c, upto) \in SUBSET Utterances
        /\ SegmentsOf("live", c, Heard(s, c, upto)) \in SUBSET Segments
    BY HeardUtterances
  <2>3. [cursor EXCEPT ![s][c] = upto] \in [Sessions -> [Channels -> 0 .. MaxAudio]]
    BY <2>2, SetCell DEF TypeOK, WorkerTypeOK
  <2>4. [batch EXCEPT ![s][c] = Heard(s, c, upto)]
            \in [Sessions -> [Channels -> SUBSET Utterances]]
    BY <2>2, SetCell DEF TypeOK, WorkerTypeOK
  <2>5. [worker EXCEPT ![s][c] = "deliver"] \in [Sessions -> [Channels -> WorkerAt]]
    BY SetCell DEF TypeOK, WorkerTypeOK, WorkerAt
  <2>6. stopping' = stopping
    BY <1>2 DEF Decode
  <2>7. memory' \in [Sessions -> SUBSET Segments]
    BY <2>1, <2>2 DEF TypeOK, WorkerTypeOK
  <2>8. QED
    BY <2>1, <2>3, <2>4, <2>5, <2>6, <2>7 DEF TypeOK, WorkerTypeOK
<1>3. ASSUME NEW s \in Sessions, NEW c \in Channels, Deliver(s, c)
      PROVE  WorkerTypeOK'
  <2>1. \/ worker' = [worker EXCEPT ![s][c] = "notify"] /\ batch' = batch
        \/ /\ worker' = [worker EXCEPT ![s][c] = "waiting"]
           /\ batch' = [batch EXCEPT ![s][c] = {}]
    BY <1>3 DEF Deliver
  <2>2. /\ [worker EXCEPT ![s][c] = "notify"] \in [Sessions -> [Channels -> WorkerAt]]
        /\ [worker EXCEPT ![s][c] = "waiting"] \in [Sessions -> [Channels -> WorkerAt]]
    BY SetCell DEF TypeOK, WorkerTypeOK, WorkerAt
  <2>3. [batch EXCEPT ![s][c] = {}] \in [Sessions -> [Channels -> SUBSET Utterances]]
    BY SetCell DEF TypeOK, WorkerTypeOK
  <2>4. cursor' = cursor /\ stopping' = stopping /\ memory' = memory
    BY <1>3 DEF Deliver
  <2>5. QED
    BY <2>1, <2>2, <2>3, <2>4 DEF TypeOK, WorkerTypeOK
<1>4. ASSUME NEW s \in Sessions, NEW c \in Channels, Notify(s, c)
      PROVE  WorkerTypeOK'
  BY <1>4, BatchSegments DEF Notify, TypeOK, WorkerTypeOK, AudioTypeOK, WorkerAt,
     storeVars, audioVars, workerVars, stopVars, passVars, mainVars, historyVars
<1>5. ASSUME NEW s \in Sessions, NEW c \in Channels, WorkerEnds(s, c)
      PROVE  WorkerTypeOK'
  BY <1>5 DEF WorkerEnds, TypeOK, WorkerTypeOK, AudioTypeOK, WorkerAt, storeVars,
     audioVars, workerVars, stopVars, passVars, mainVars, historyVars
<1>6. ASSUME NEW s \in Sessions, NEW c \in Channels, DrainGivesUp(s, c)
      PROVE  WorkerTypeOK'
  BY <1>6 DEF DrainGivesUp, TypeOK, WorkerTypeOK, AudioTypeOK, WorkerAt, storeVars,
     audioVars, workerVars, stopVars, passVars, mainVars, historyVars
<1>7. ASSUME NEW s \in Sessions, NEW c \in Channels, StopChannel(s, c)
      PROVE  WorkerTypeOK'
  BY <1>7 DEF StopChannel, TypeOK, WorkerTypeOK, AudioTypeOK, WorkerAt, storeVars,
     audioVars, workerVars, stopVars, passVars, mainVars, historyVars
<1>8. ASSUME Crash
      PROVE  WorkerTypeOK'
  BY <1>8 DEF Crash, RecoverInterrupted, PassGoes, TypeOK, WorkerTypeOK, AudioTypeOK,
     WorkerAt, storeVars, audioVars, workerVars, stopVars, passVars, mainVars, historyVars
<1>9. ASSUME NEW s \in Sessions, NEW sources \in SUBSET Channels,
         StartFails(s, sources)
      PROVE  WorkerTypeOK'
  <2>1. UNCHANGED <<worker, stopping, cursor, batch, memory>>
    BY <1>9 DEF StartFails, SaveSession, storeVars, audioVars, workerVars, stopVars,
       passVars, mainVars, historyVars
  <2>2. QED
    BY <2>1 DEF TypeOK, WorkerTypeOK
<1>10. ASSUME NEW s \in Sessions, NEW c \in Channels,
         Append(s, c) \/ JoinChannel(s, c)
      PROVE  WorkerTypeOK'
  <2>1. UNCHANGED <<worker, stopping, cursor, batch, memory>>
    BY <1>10 DEF Append, JoinChannel, StopRests, storeVars, audioVars, workerVars,
       stopVars, passVars, mainVars, historyVars
  <2>2. QED
    BY <2>1 DEF TypeOK, WorkerTypeOK
<1>11. ASSUME NEW s \in Sessions,
         StopBegin(s) \/ StopMark(s) \/ StopCount(s) \/ StopClose(s) \/ StopFails(s)
         \/ FinalizeBegin(s) \/ SummaryBegin(s) \/ DeleteBegin(s)
      PROVE  WorkerTypeOK'
  <2>1. UNCHANGED <<worker, stopping, cursor, batch, memory>>
    BY <1>11 DEF StopBegin, StopMark, SaveSession, StopCount, StopClose, SaveSession,
       StopRests, StopFails, StopRests, FinalizeBegin, SummaryBegin, DeleteBegin,
       storeVars, audioVars, workerVars, stopVars, passVars, mainVars, historyVars
  <2>2. QED
    BY <2>1 DEF TypeOK, WorkerTypeOK
<1>12. ASSUME FinalizeLoad \/ FinalizeMark \/ FinalizeSettle \/ FinalizeRestore
     \/ FinalizeFail \/ FinalizeReplace \/ FinalizeClose \/ FinalizeReturns \/ Summary
     \/ DeleteRows \/ DeleteFiles \/ Quit
      PROVE  WorkerTypeOK'
  <2>1. UNCHANGED <<worker, stopping, cursor, batch, memory>>
    BY <1>12 DEF FinalizeLoad, PassGoes, FinalizeMark, SaveSession, FinalizeSettle,
       FinalizeRestore, SaveSession, PassGoes, FinalizeFail, SaveSession, PassGoes,
       FinalizeReplace, ReplaceTranscript, PassGoes, FinalizeClose, SaveSession,
       PassGoes, FinalizeReturns, PassGoes, Summary, SaveSummary, PassGoes, DeleteRows,
       DeleteSession, DeleteFiles, Quit, storeVars, audioVars, workerVars, stopVars,
       passVars, mainVars, historyVars
  <2>2. QED
    BY <2>1 DEF TypeOK, WorkerTypeOK
<1>13. ASSUME NEW c \in Channels,
         FinalizeChannel(c)
      PROVE  WorkerTypeOK'
  <2>1. UNCHANGED <<worker, stopping, cursor, batch, memory>>
    BY <1>13 DEF FinalizeChannel, storeVars, audioVars, workerVars, stopVars, passVars,
       mainVars, historyVars
  <2>2. QED
    BY <2>1 DEF TypeOK, WorkerTypeOK
<1>14. ASSUME NEW s \in Sessions, NEW title \in Titles,
         RenameLive(s, title) \/ RenameStored(s, title)
      PROVE  WorkerTypeOK'
  <2>1. UNCHANGED <<worker, stopping, cursor, batch, memory>>
    BY <1>14 DEF RenameLive, SaveSession, RenameStored, RenameSession, storeVars,
       audioVars, workerVars, stopVars, passVars, mainVars, historyVars
  <2>2. QED
    BY <2>1 DEF TypeOK, WorkerTypeOK
<1>15. CASE UNCHANGED vars
  BY <1>15 DEF vars, storeVars, audioVars, workerVars, stopVars, passVars, mainVars,
     historyVars, TypeOK, WorkerTypeOK
<1>16. QED
  BY <1>1, <1>2, <1>3, <1>4, <1>5, <1>6, <1>7, <1>8, <1>9, <1>10, <1>11, <1>12, <1>13,
     <1>14, <1>15
     DEF Next, WorkerStep, StopStep, PassStep, MainStep, UserStep

\* The copy a stopping thread holds stays a row.
LEMMA StopTypeOKStep ==
  ASSUME TypeOK, FiniteTranscripts, OneOwner, [Next]_vars
  PROVE  StopTypeOK'
<1>1. ASSUME NEW s \in Sessions, NEW sources \in SUBSET Channels, Start(s, sources)
      PROVE  StopTypeOK'
  BY <1>1, NewRowIsRow, StoreAssumption DEF Start, SaveSession, TypeOK, StopTypeOK,
     StopAt, Statuses, FiniteTranscripts, OneOwner, OwnedOnce, storeVars, audioVars,
     workerVars, stopVars, passVars, mainVars, historyVars
<1>2. ASSUME NEW s \in Sessions, StopBegin(s)
      PROVE  StopTypeOK'
  BY <1>2, RowFields DEF StopBegin, TypeOK, StopTypeOK, StopAt, Statuses,
     FiniteTranscripts, OneOwner, OwnedOnce, storeVars, audioVars, workerVars, stopVars,
     passVars, mainVars, historyVars
<1>3. ASSUME NEW s \in Sessions, StopMark(s)
      PROVE  StopTypeOK'
  BY <1>3, WithStatusIsRow, StoreAssumption DEF StopMark, SaveSession, TypeOK,
     StopTypeOK, StopAt, Statuses, FiniteTranscripts, OneOwner, OwnedOnce, storeVars,
     audioVars, workerVars, stopVars, passVars, mainVars, historyVars
<1>4. ASSUME NEW s \in Sessions, NEW c \in Channels, JoinChannel(s, c)
      PROVE  StopTypeOK'
  BY <1>4 DEF JoinChannel, StopRests, TypeOK, StopTypeOK, StopAt, Statuses,
     FiniteTranscripts, OneOwner, OwnedOnce, storeVars, audioVars, workerVars, stopVars,
     passVars, mainVars, historyVars
<1>5. ASSUME NEW s \in Sessions, StopCount(s)
      PROVE  StopTypeOK'
  BY <1>5, WithCountIsRow, FS_CardinalityType, StoreAssumption DEF StopCount, TypeOK,
     StopTypeOK, StopAt, Statuses, FiniteTranscripts, OneOwner, OwnedOnce, storeVars,
     audioVars, workerVars, stopVars, passVars, mainVars, historyVars
<1>6. ASSUME NEW s \in Sessions, StopClose(s)
      PROVE  StopTypeOK'
  BY <1>6, WithStatusIsRow, StoreAssumption DEF StopClose, SaveSession, StopRests,
     TypeOK, StopTypeOK, StopAt, Statuses, FiniteTranscripts, OneOwner, OwnedOnce,
     storeVars, audioVars, workerVars, stopVars, passVars, mainVars, historyVars
<1>7. ASSUME NEW s \in Sessions, StopFails(s)
      PROVE  StopTypeOK'
  BY <1>7 DEF StopFails, StopRests, TypeOK, StopTypeOK, StopAt, Statuses,
     FiniteTranscripts, OneOwner, OwnedOnce, storeVars, audioVars, workerVars, stopVars,
     passVars, mainVars, historyVars
<1>8. ASSUME NEW s \in Sessions, NEW title \in Titles, RenameLive(s, title)
      PROVE  StopTypeOK'
  BY <1>8, WithTitleIsRow, StoreAssumption DEF RenameLive, SaveSession, TypeOK,
     StopTypeOK, StopAt, Statuses, FiniteTranscripts, OneOwner, OwnedOnce, storeVars,
     audioVars, workerVars, stopVars, passVars, mainVars, historyVars
<1>9. ASSUME Crash
      PROVE  StopTypeOK'
  BY <1>9, WithStatusIsRow, StoreAssumption DEF Crash, RecoverInterrupted, PassGoes,
     TypeOK, StopTypeOK, StopAt, Statuses, FiniteTranscripts, OneOwner, OwnedOnce,
     storeVars, audioVars, workerVars, stopVars, passVars, mainVars, historyVars
<1>10. ASSUME NEW s \in Sessions, NEW sources \in SUBSET Channels,
         StartFails(s, sources)
      PROVE  StopTypeOK'
  <2>1. UNCHANGED <<live, stopAt, stopCopy, stopLeft>>
    BY <1>10 DEF StartFails, SaveSession, storeVars, audioVars, workerVars, stopVars,
       passVars, mainVars, historyVars
  <2>2. QED
    BY <2>1 DEF TypeOK, StopTypeOK
<1>11. ASSUME NEW s \in Sessions, NEW c \in Channels,
         Append(s, c) \/ Decode(s, c) \/ Deliver(s, c) \/ Notify(s, c) \/ WorkerEnds(s,
         c) \/ DrainGivesUp(s, c) \/ StopChannel(s, c)
      PROVE  StopTypeOK'
  <2>1. UNCHANGED <<live, stopAt, stopCopy, stopLeft>>
    BY <1>11 DEF Append, Decode, Deliver, AddSegments, Notify, WorkerEnds, DrainGivesUp,
       StopChannel, storeVars, audioVars, workerVars, stopVars, passVars, mainVars,
       historyVars
  <2>2. QED
    BY <2>1 DEF TypeOK, StopTypeOK
<1>12. ASSUME NEW s \in Sessions,
         FinalizeBegin(s) \/ SummaryBegin(s) \/ DeleteBegin(s)
      PROVE  StopTypeOK'
  <2>1. UNCHANGED <<live, stopAt, stopCopy, stopLeft>>
    BY <1>12 DEF FinalizeBegin, SummaryBegin, DeleteBegin, storeVars, audioVars,
       workerVars, stopVars, passVars, mainVars, historyVars
  <2>2. QED
    BY <2>1 DEF TypeOK, StopTypeOK
<1>13. ASSUME FinalizeLoad \/ FinalizeMark \/ FinalizeSettle \/ FinalizeRestore
     \/ FinalizeFail \/ FinalizeReplace \/ FinalizeClose \/ FinalizeReturns \/ Summary
     \/ DeleteRows \/ DeleteFiles \/ Quit
      PROVE  StopTypeOK'
  <2>1. UNCHANGED <<live, stopAt, stopCopy, stopLeft>>
    BY <1>13 DEF FinalizeLoad, PassGoes, FinalizeMark, SaveSession, FinalizeSettle,
       FinalizeRestore, SaveSession, PassGoes, FinalizeFail, SaveSession, PassGoes,
       FinalizeReplace, ReplaceTranscript, PassGoes, FinalizeClose, SaveSession,
       PassGoes, FinalizeReturns, PassGoes, Summary, SaveSummary, PassGoes, DeleteRows,
       DeleteSession, DeleteFiles, Quit, storeVars, audioVars, workerVars, stopVars,
       passVars, mainVars, historyVars
  <2>2. QED
    BY <2>1 DEF TypeOK, StopTypeOK
<1>14. ASSUME NEW c \in Channels,
         FinalizeChannel(c)
      PROVE  StopTypeOK'
  <2>1. UNCHANGED <<live, stopAt, stopCopy, stopLeft>>
    BY <1>14 DEF FinalizeChannel, storeVars, audioVars, workerVars, stopVars, passVars,
       mainVars, historyVars
  <2>2. QED
    BY <2>1 DEF TypeOK, StopTypeOK
<1>15. ASSUME NEW s \in Sessions, NEW title \in Titles,
         RenameStored(s, title)
      PROVE  StopTypeOK'
  <2>1. UNCHANGED <<live, stopAt, stopCopy, stopLeft>>
    BY <1>15 DEF RenameStored, RenameSession, storeVars, audioVars, workerVars, stopVars,
       passVars, mainVars, historyVars
  <2>2. QED
    BY <2>1 DEF TypeOK, StopTypeOK
<1>16. CASE UNCHANGED vars
  BY <1>16 DEF vars, storeVars, audioVars, workerVars, stopVars, passVars, mainVars,
     historyVars, TypeOK, StopTypeOK
<1>17. QED
  BY <1>1, <1>2, <1>3, <1>4, <1>5, <1>6, <1>7, <1>8, <1>9, <1>10, <1>11, <1>12, <1>13,
     <1>14, <1>15, <1>16
     DEF Next, WorkerStep, StopStep, PassStep, MainStep, UserStep

\* So does the copy a final pass holds.
LEMMA PassTypeOKStep ==
  ASSUME TypeOK, PassConsistent, [Next]_vars
  PROVE  PassTypeOK'
<1>1. ASSUME NEW s \in Sessions, FinalizeBegin(s)
      PROVE  PassTypeOK'
  BY <1>1 DEF FinalizeBegin, TypeOK, PassTypeOK, StoreTypeOK, PassAt, PassConsistent,
     PassReads, storeVars, audioVars, workerVars, stopVars, passVars, mainVars,
     historyVars
<1>2. ASSUME FinalizeLoad
      PROVE  PassTypeOK'
  BY <1>2 DEF FinalizeLoad, PassGoes, TypeOK, PassTypeOK, StoreTypeOK, PassAt,
     PassConsistent, PassReads, storeVars, audioVars, workerVars, stopVars, passVars,
     mainVars, historyVars
<1>3. ASSUME FinalizeMark
      PROVE  PassTypeOK'
  BY <1>3, WithStatusIsRow, RowFields DEF FinalizeMark, SaveSession, TypeOK, PassTypeOK,
     StoreTypeOK, PassAt, PassConsistent, PassReads, storeVars, audioVars, workerVars,
     stopVars, passVars, mainVars, historyVars
<1>4. ASSUME NEW c \in Channels, FinalizeChannel(c)
      PROVE  PassTypeOK'
  BY <1>4, RecordingSegments DEF FinalizeChannel, TypeOK, PassTypeOK, StoreTypeOK,
     PassAt, PassConsistent, PassReads, storeVars, audioVars, workerVars, stopVars,
     passVars, mainVars, historyVars
<1>5. ASSUME FinalizeSettle
      PROVE  PassTypeOK'
  BY <1>5 DEF FinalizeSettle, TypeOK, PassTypeOK, StoreTypeOK, PassAt, PassConsistent,
     PassReads, storeVars, audioVars, workerVars, stopVars, passVars, mainVars,
     historyVars
<1>6. ASSUME FinalizeRestore
      PROVE  PassTypeOK'
  BY <1>6, StoreAssumption DEF FinalizeRestore, SaveSession, PassGoes, TypeOK,
     PassTypeOK, StoreTypeOK, PassAt, PassConsistent, PassReads, storeVars, audioVars,
     workerVars, stopVars, passVars, mainVars, historyVars
<1>7. ASSUME FinalizeFail
      PROVE  PassTypeOK'
  BY <1>7, WithStatusIsRow, WithErrorIsRow, StoreAssumption DEF FinalizeFail,
     SaveSession, PassGoes, TypeOK, PassTypeOK, StoreTypeOK, PassAt, PassConsistent,
     PassReads, storeVars, audioVars, workerVars, stopVars, passVars, mainVars,
     historyVars
<1>8. ASSUME FinalizeReplace
      PROVE  PassTypeOK'
  BY <1>8, WithFinalIsRow, FS_CardinalityType, StoreAssumption DEF FinalizeReplace,
     ReplaceTranscript, PassGoes, TypeOK, PassTypeOK, StoreTypeOK, PassAt,
     PassConsistent, PassReads, storeVars, audioVars, workerVars, stopVars, passVars,
     mainVars, historyVars
<1>9. ASSUME FinalizeClose
      PROVE  PassTypeOK'
  BY <1>9, WithStatusIsRow, WithErrorIsRow, WithFinalIsRow, FS_CardinalityType,
     StoreAssumption DEF FinalizeClose, SaveSession, PassGoes, TypeOK, PassTypeOK,
     StoreTypeOK, PassAt, PassConsistent, PassReads, storeVars, audioVars, workerVars,
     stopVars, passVars, mainVars, historyVars
<1>10. ASSUME FinalizeReturns
      PROVE  PassTypeOK'
  BY <1>10 DEF FinalizeReturns, PassGoes, TypeOK, PassTypeOK, StoreTypeOK, PassAt,
     PassConsistent, PassReads, storeVars, audioVars, workerVars, stopVars, passVars,
     mainVars, historyVars
<1>11. ASSUME NEW s \in Sessions, SummaryBegin(s)
      PROVE  PassTypeOK'
  BY <1>11 DEF SummaryBegin, TypeOK, PassTypeOK, StoreTypeOK, PassAt, PassConsistent,
     PassReads, storeVars, audioVars, workerVars, stopVars, passVars, mainVars,
     historyVars
<1>12. ASSUME Summary
      PROVE  PassTypeOK'
  BY <1>12 DEF Summary, SaveSummary, PassGoes, TypeOK, PassTypeOK, StoreTypeOK, PassAt,
     PassConsistent, PassReads, storeVars, audioVars, workerVars, stopVars, passVars,
     mainVars, historyVars
<1>13. ASSUME Crash
      PROVE  PassTypeOK'
  BY <1>13, WithStatusIsRow, StoreAssumption DEF Crash, RecoverInterrupted, PassGoes,
     TypeOK, PassTypeOK, StoreTypeOK, PassAt, PassConsistent, PassReads, storeVars,
     audioVars, workerVars, stopVars, passVars, mainVars, historyVars
<1>14. ASSUME NEW s \in Sessions, NEW sources \in SUBSET Channels,
         Start(s, sources) \/ StartFails(s, sources)
      PROVE  PassTypeOK'
  <2>1. UNCHANGED <<passAt, passOf, original, passLeft, final, failed>>
    BY <1>14 DEF Start, SaveSession, StartFails, SaveSession, storeVars, audioVars,
       workerVars, stopVars, passVars, mainVars, historyVars
  <2>2. QED
    BY <2>1 DEF TypeOK, PassTypeOK
<1>15. ASSUME NEW s \in Sessions, NEW c \in Channels,
         Append(s, c) \/ Decode(s, c) \/ Deliver(s, c) \/ Notify(s, c) \/ WorkerEnds(s,
         c) \/ DrainGivesUp(s, c) \/ StopChannel(s, c) \/ JoinChannel(s, c)
      PROVE  PassTypeOK'
  <2>1. UNCHANGED <<passAt, passOf, original, passLeft, final, failed>>
    BY <1>15 DEF Append, Decode, Deliver, AddSegments, Notify, WorkerEnds, DrainGivesUp,
       StopChannel, JoinChannel, StopRests, storeVars, audioVars, workerVars, stopVars,
       passVars, mainVars, historyVars
  <2>2. QED
    BY <2>1 DEF TypeOK, PassTypeOK
<1>16. ASSUME NEW s \in Sessions,
         StopBegin(s) \/ StopMark(s) \/ StopCount(s) \/ StopClose(s) \/ StopFails(s)
         \/ DeleteBegin(s)
      PROVE  PassTypeOK'
  <2>1. UNCHANGED <<passAt, passOf, original, passLeft, final, failed>>
    BY <1>16 DEF StopBegin, StopMark, SaveSession, StopCount, StopClose, SaveSession,
       StopRests, StopFails, StopRests, DeleteBegin, storeVars, audioVars, workerVars,
       stopVars, passVars, mainVars, historyVars
  <2>2. QED
    BY <2>1 DEF TypeOK, PassTypeOK
<1>17. ASSUME NEW s \in Sessions, NEW title \in Titles,
         RenameLive(s, title) \/ RenameStored(s, title)
      PROVE  PassTypeOK'
  <2>1. UNCHANGED <<passAt, passOf, original, passLeft, final, failed>>
    BY <1>17 DEF RenameLive, SaveSession, RenameStored, RenameSession, storeVars,
       audioVars, workerVars, stopVars, passVars, mainVars, historyVars
  <2>2. QED
    BY <2>1 DEF TypeOK, PassTypeOK
<1>18. ASSUME DeleteRows \/ DeleteFiles \/ Quit
      PROVE  PassTypeOK'
  <2>1. UNCHANGED <<passAt, passOf, original, passLeft, final, failed>>
    BY <1>18 DEF DeleteRows, DeleteSession, DeleteFiles, Quit, storeVars, audioVars,
       workerVars, stopVars, passVars, mainVars, historyVars
  <2>2. QED
    BY <2>1 DEF TypeOK, PassTypeOK
<1>19. CASE UNCHANGED vars
  BY <1>19 DEF vars, storeVars, audioVars, workerVars, stopVars, passVars, mainVars,
     historyVars, TypeOK, PassTypeOK
<1>20. QED
  BY <1>1, <1>2, <1>3, <1>4, <1>5, <1>6, <1>7, <1>8, <1>9, <1>10, <1>11, <1>12, <1>13,
     <1>14, <1>15, <1>16, <1>17, <1>18, <1>19
     DEF Next, WorkerStep, StopStep, PassStep, MainStep, UserStep

\* The rest of the state.
LEMMA RestTypeOKStep ==
  ASSUME TypeOK, [Next]_vars
  PROVE  RestTypeOK'
<1>1. ASSUME NEW s \in Sessions, NEW sources \in SUBSET Channels, Start(s, sources)
      PROVE  RestTypeOK'
  BY <1>1, FaultCounted, RecorderAssumption DEF Start, SaveSession, TypeOK, RestTypeOK,
     MainAt, StoreTypeOK, storeVars, audioVars, workerVars, stopVars, passVars, mainVars,
     historyVars
<1>2. ASSUME NEW s \in Sessions, NEW sources \in SUBSET Channels, StartFails(s, sources)
      PROVE  RestTypeOK'
  BY <1>2, FaultCounted, RecorderAssumption DEF StartFails, SaveSession, TypeOK,
     RestTypeOK, MainAt, StoreTypeOK, storeVars, audioVars, workerVars, stopVars,
     passVars, mainVars, historyVars
<1>3. ASSUME NEW s \in Sessions, NEW c \in Channels, Decode(s, c)
      PROVE  RestTypeOK'
  <2>1. PICK upto \in Heard(s, c, length[s][c]) :
            \/ missed' = missed
            \/ missed' = [missed EXCEPT ![s] =
                             missed[s] \cup SegmentsOf("live", c, Heard(s, c, upto))]
    BY <1>3 DEF Decode
  <2>2. SegmentsOf("live", c, Heard(s, c, upto)) \in SUBSET Segments
    BY HeardUtterances
  <2>3. missed' \in [Sessions -> SUBSET Segments]
    BY <2>1, <2>2 DEF TypeOK, RestTypeOK
  <2>4. faults' \in 0 .. MaxMishaps
    BY <1>3, FaultCounted DEF Decode
  <2>5. UNCHANGED <<used, mainAt, mainOf, quitting, crashes, captions, named, deleted>>
    BY <1>3 DEF Decode, mainVars
  <2>6. QED
    BY <2>3, <2>4, <2>5 DEF TypeOK, RestTypeOK
<1>4. ASSUME NEW s \in Sessions, NEW c \in Channels, Deliver(s, c)
      PROVE  RestTypeOK'
  <2>1. missed' = missed \/ missed' = [missed EXCEPT ![s] = missed[s] \cup Batch(s, c)]
    BY <1>4 DEF Deliver
  <2>2. missed' \in [Sessions -> SUBSET Segments]
    BY <2>1, BatchSegments DEF TypeOK, RestTypeOK
  <2>3. faults' \in 0 .. MaxMishaps
    BY <1>4, FaultCounted DEF Deliver
  <2>4. UNCHANGED <<used, mainAt, mainOf, quitting, crashes, captions, named, deleted>>
    BY <1>4 DEF Deliver, mainVars
  <2>5. QED
    BY <2>2, <2>3, <2>4 DEF TypeOK, RestTypeOK
<1>5. ASSUME NEW s \in Sessions, NEW c \in Channels, Notify(s, c)
      PROVE  RestTypeOK'
  BY <1>5, BatchSegments, FaultCounted, RecorderAssumption DEF Notify, TypeOK,
     RestTypeOK, MainAt, StoreTypeOK, storeVars, audioVars, workerVars, stopVars,
     passVars, mainVars, historyVars
<1>6. ASSUME NEW s \in Sessions, NEW c \in Channels, DrainGivesUp(s, c)
      PROVE  RestTypeOK'
  <2>1. length[s][c] \in Heard(s, c, length[s][c])
    BY <1>6 DEF DrainGivesUp, Pending, Heard, TypeOK, AudioTypeOK, WorkerTypeOK
  <2>2. SegmentsOf("live", c, Heard(s, c, length[s][c])) \in SUBSET Segments
    BY <2>1, HeardUtterances
  <2>3. missed' \in [Sessions -> SUBSET Segments]
    BY <1>6, <2>2 DEF DrainGivesUp, TypeOK, RestTypeOK
  <2>4. faults' \in 0 .. MaxMishaps
    BY <1>6, FaultCounted DEF DrainGivesUp
  <2>5. UNCHANGED <<used, mainAt, mainOf, quitting, crashes, captions, named, deleted>>
    BY <1>6 DEF DrainGivesUp, mainVars
  <2>6. QED
    BY <2>3, <2>4, <2>5 DEF TypeOK, RestTypeOK
<1>7. ASSUME NEW s \in Sessions, StopMark(s)
      PROVE  RestTypeOK'
  BY <1>7, FaultCounted, RecorderAssumption DEF StopMark, SaveSession, TypeOK,
     RestTypeOK, MainAt, StoreTypeOK, storeVars, audioVars, workerVars, stopVars,
     passVars, mainVars, historyVars
<1>8. ASSUME NEW s \in Sessions, StopFails(s)
      PROVE  RestTypeOK'
  BY <1>8, FaultCounted, RecorderAssumption DEF StopFails, StopRests, TypeOK, RestTypeOK,
     MainAt, StoreTypeOK, storeVars, audioVars, workerVars, stopVars, passVars, mainVars,
     historyVars
<1>9. ASSUME NEW c \in Channels, FinalizeChannel(c)
      PROVE  RestTypeOK'
  BY <1>9, RecordingSegments, FaultCounted, RecorderAssumption DEF FinalizeChannel,
     TypeOK, RestTypeOK, MainAt, StoreTypeOK, storeVars, audioVars, workerVars, stopVars,
     passVars, mainVars, historyVars
<1>10. ASSUME FinalizeReturns
      PROVE  RestTypeOK'
  BY <1>10, FaultCounted, RecorderAssumption DEF FinalizeReturns, PassGoes, TypeOK,
     RestTypeOK, MainAt, StoreTypeOK, storeVars, audioVars, workerVars, stopVars,
     passVars, mainVars, historyVars
<1>11. ASSUME Summary
      PROVE  RestTypeOK'
  BY <1>11, FaultCounted, RecorderAssumption DEF Summary, SaveSummary, PassGoes, TypeOK,
     RestTypeOK, MainAt, StoreTypeOK, storeVars, audioVars, workerVars, stopVars,
     passVars, mainVars, historyVars
<1>12. ASSUME NEW s \in Sessions, NEW title \in Titles, RenameLive(s, title)
      PROVE  RestTypeOK'
  BY <1>12, FaultCounted, RecorderAssumption DEF RenameLive, SaveSession, TypeOK,
     RestTypeOK, MainAt, StoreTypeOK, storeVars, audioVars, workerVars, stopVars,
     passVars, mainVars, historyVars
<1>13. ASSUME NEW s \in Sessions, NEW title \in Titles, RenameStored(s, title)
      PROVE  RestTypeOK'
  BY <1>13, FaultCounted, RecorderAssumption DEF RenameStored, RenameSession, TypeOK,
     RestTypeOK, MainAt, StoreTypeOK, storeVars, audioVars, workerVars, stopVars,
     passVars, mainVars, historyVars
<1>14. ASSUME NEW s \in Sessions, DeleteBegin(s)
      PROVE  RestTypeOK'
  BY <1>14, FaultCounted, RecorderAssumption DEF DeleteBegin, TypeOK, RestTypeOK, MainAt,
     StoreTypeOK, storeVars, audioVars, workerVars, stopVars, passVars, mainVars,
     historyVars
<1>15. ASSUME DeleteRows
      PROVE  RestTypeOK'
  BY <1>15, FaultCounted, RecorderAssumption DEF DeleteRows, DeleteSession, TypeOK,
     RestTypeOK, MainAt, StoreTypeOK, storeVars, audioVars, workerVars, stopVars,
     passVars, mainVars, historyVars
<1>16. ASSUME DeleteFiles
      PROVE  RestTypeOK'
  BY <1>16, FaultCounted, RecorderAssumption DEF DeleteFiles, TypeOK, RestTypeOK, MainAt,
     StoreTypeOK, storeVars, audioVars, workerVars, stopVars, passVars, mainVars,
     historyVars
<1>17. ASSUME Quit
      PROVE  RestTypeOK'
  BY <1>17, FaultCounted, RecorderAssumption DEF Quit, TypeOK, RestTypeOK, MainAt,
     StoreTypeOK, storeVars, audioVars, workerVars, stopVars, passVars, mainVars,
     historyVars
<1>18. ASSUME Crash
      PROVE  RestTypeOK'
  <2>1. crashes' \in 0 .. MaxMishaps
    BY <1>18, RecorderAssumption DEF Crash, TypeOK, RestTypeOK
  <2>2. UNCHANGED <<used, mainOf, faults,
       historyVars>> /\ mainAt' = "idle" /\ quitting' = FALSE
    BY <1>18 DEF Crash
  <2>3. QED
    BY <2>1, <2>2 DEF historyVars, TypeOK, RestTypeOK, MainAt
<1>19. ASSUME NEW s \in Sessions, NEW c \in Channels,
         Append(s, c) \/ WorkerEnds(s, c) \/ StopChannel(s, c) \/ JoinChannel(s, c)
      PROVE  RestTypeOK'
  <2>1. UNCHANGED <<used, mainAt, mainOf, quitting, faults, crashes, missed, captions,
       named, deleted>>
    BY <1>19 DEF Append, WorkerEnds, StopChannel, JoinChannel, StopRests, storeVars,
       audioVars, workerVars, stopVars, passVars, mainVars, historyVars
  <2>2. QED
    BY <2>1 DEF TypeOK, RestTypeOK
<1>20. ASSUME NEW s \in Sessions,
         StopBegin(s) \/ StopCount(s) \/ StopClose(s) \/ FinalizeBegin(s)
         \/ SummaryBegin(s)
      PROVE  RestTypeOK'
  <2>1. UNCHANGED <<used, mainAt, mainOf, quitting, faults, crashes, missed, captions,
       named, deleted>>
    BY <1>20 DEF StopBegin, StopCount, StopClose, SaveSession, StopRests, FinalizeBegin,
       SummaryBegin, storeVars, audioVars, workerVars, stopVars, passVars, mainVars,
       historyVars
  <2>2. QED
    BY <2>1 DEF TypeOK, RestTypeOK
<1>21. ASSUME FinalizeLoad \/ FinalizeMark \/ FinalizeSettle \/ FinalizeRestore
     \/ FinalizeFail \/ FinalizeReplace \/ FinalizeClose
      PROVE  RestTypeOK'
  <2>1. UNCHANGED <<used, mainAt, mainOf, quitting, faults, crashes, missed, captions,
       named, deleted>>
    BY <1>21 DEF FinalizeLoad, PassGoes, FinalizeMark, SaveSession, FinalizeSettle,
       FinalizeRestore, SaveSession, PassGoes, FinalizeFail, SaveSession, PassGoes,
       FinalizeReplace, ReplaceTranscript, PassGoes, FinalizeClose, SaveSession,
       PassGoes, storeVars, audioVars, workerVars, stopVars, passVars, mainVars,
       historyVars
  <2>2. QED
    BY <2>1 DEF TypeOK, RestTypeOK
<1>22. CASE UNCHANGED vars
  BY <1>22 DEF vars, storeVars, audioVars, workerVars, stopVars, passVars, mainVars,
     historyVars, TypeOK, RestTypeOK
<1>23. QED
  BY <1>1, <1>2, <1>3, <1>4, <1>5, <1>6, <1>7, <1>8, <1>9, <1>10, <1>11, <1>12, <1>13,
     <1>14, <1>15, <1>16, <1>17, <1>18, <1>19, <1>20, <1>21, <1>22
     DEF Next, WorkerStep, StopStep, PassStep, MainStep, UserStep

\* Transcripts stay finite.
LEMMA FiniteTranscriptsStep ==
  ASSUME TypeOK, FiniteTranscripts, [Next]_vars
  PROVE  FiniteTranscripts'
<1>1. ASSUME NEW s \in Sessions, NEW c \in Channels, Deliver(s, c)
      PROVE  FiniteTranscripts'
  <2>1. IsFiniteSet(segments[s] \cup Batch(s, c))
    BY BatchSegments, FS_Union DEF FiniteTranscripts
  <2>2. \/ segments' = segments
        \/ segments' = [segments EXCEPT ![s] = segments[s] \cup Batch(s, c)]
    BY <1>1 DEF Deliver, AddSegments, storeVars
  <2>3. final' = final
    BY <1>1 DEF Deliver, passVars
  <2>4. QED
    BY <2>1, <2>2, <2>3 DEF FiniteTranscripts, TypeOK, StoreTypeOK
<1>2. ASSUME FinalizeLoad
      PROVE  FiniteTranscripts'
  BY <1>2, FS_EmptySet DEF FinalizeLoad, PassGoes, FiniteTranscripts, storeVars,
     passVars, TypeOK, StoreTypeOK,
     PassTypeOK
<1>3. ASSUME NEW c \in Channels, FinalizeChannel(c)
      PROVE  FiniteTranscripts'
  <2>1. IsFiniteSet(final \cup SegmentsOf("final", c, 1 .. length[passOf][c]))
    BY RecordingSegments, FS_Union DEF FiniteTranscripts, TypeOK, PassTypeOK
  <2>2. \/ final' = final
        \/ final' = final \cup SegmentsOf("final", c, 1 .. length[passOf][c])
    BY <1>3 DEF FinalizeChannel
  <2>3. segments' = segments
    BY <1>3 DEF FinalizeChannel, storeVars
  <2>4. QED
    BY <2>1, <2>2, <2>3 DEF FiniteTranscripts
<1>4. ASSUME FinalizeRestore
      PROVE  FiniteTranscripts'
  BY <1>4, FS_EmptySet DEF FinalizeRestore, SaveSession, PassGoes, FiniteTranscripts,
     storeVars, passVars, TypeOK, StoreTypeOK,
     PassTypeOK
<1>5. ASSUME FinalizeFail
      PROVE  FiniteTranscripts'
  BY <1>5, FS_EmptySet DEF FinalizeFail, SaveSession, PassGoes, FiniteTranscripts,
     storeVars, passVars, TypeOK, StoreTypeOK,
     PassTypeOK
<1>6. ASSUME FinalizeReplace
      PROVE  FiniteTranscripts'
  BY <1>6, FS_EmptySet DEF FinalizeReplace, ReplaceTranscript, PassGoes,
     FiniteTranscripts, storeVars, passVars, TypeOK, StoreTypeOK,
     PassTypeOK
<1>7. ASSUME FinalizeClose
      PROVE  FiniteTranscripts'
  BY <1>7, FS_EmptySet DEF FinalizeClose, SaveSession, PassGoes, FiniteTranscripts,
     storeVars, passVars, TypeOK, StoreTypeOK,
     PassTypeOK
<1>8. ASSUME FinalizeReturns
      PROVE  FiniteTranscripts'
  BY <1>8, FS_EmptySet DEF FinalizeReturns, PassGoes, FiniteTranscripts, storeVars,
     passVars, TypeOK, StoreTypeOK,
     PassTypeOK
<1>9. ASSUME Summary
      PROVE  FiniteTranscripts'
  BY <1>9, FS_EmptySet DEF Summary, SaveSummary, PassGoes, FiniteTranscripts, storeVars,
     passVars, TypeOK, StoreTypeOK,
     PassTypeOK
<1>10. ASSUME DeleteRows
      PROVE  FiniteTranscripts'
  BY <1>10, FS_EmptySet DEF DeleteRows, DeleteSession, FiniteTranscripts, storeVars,
     passVars, TypeOK, StoreTypeOK,
     PassTypeOK
<1>11. ASSUME Crash
      PROVE  FiniteTranscripts'
  BY <1>11, FS_EmptySet DEF Crash, RecoverInterrupted, PassGoes, FiniteTranscripts,
     storeVars, passVars, TypeOK, StoreTypeOK,
     PassTypeOK
<1>12. ASSUME NEW s \in Sessions, NEW sources \in SUBSET Channels,
         Start(s, sources) \/ StartFails(s, sources)
      PROVE  FiniteTranscripts'
  <2>1. UNCHANGED <<segments, final>>
    BY <1>12 DEF Start, SaveSession, StartFails, SaveSession, storeVars, audioVars,
       workerVars, stopVars, passVars, mainVars, historyVars
  <2>2. QED
    BY <2>1 DEF FiniteTranscripts
<1>13. ASSUME NEW s \in Sessions, NEW c \in Channels,
         Append(s, c) \/ Decode(s, c) \/ Notify(s, c) \/ WorkerEnds(s, c)
         \/ DrainGivesUp(s, c) \/ StopChannel(s, c) \/ JoinChannel(s, c)
      PROVE  FiniteTranscripts'
  <2>1. UNCHANGED <<segments, final>>
    BY <1>13 DEF Append, Decode, Notify, WorkerEnds, DrainGivesUp, StopChannel,
       JoinChannel, StopRests, storeVars, audioVars, workerVars, stopVars, passVars,
       mainVars, historyVars
  <2>2. QED
    BY <2>1 DEF FiniteTranscripts
<1>14. ASSUME NEW s \in Sessions,
         StopBegin(s) \/ StopMark(s) \/ StopCount(s) \/ StopClose(s) \/ StopFails(s)
         \/ FinalizeBegin(s) \/ SummaryBegin(s) \/ DeleteBegin(s)
      PROVE  FiniteTranscripts'
  <2>1. UNCHANGED <<segments, final>>
    BY <1>14 DEF StopBegin, StopMark, SaveSession, StopCount, StopClose, SaveSession,
       StopRests, StopFails, StopRests, FinalizeBegin, SummaryBegin, DeleteBegin,
       storeVars, audioVars, workerVars, stopVars, passVars, mainVars, historyVars
  <2>2. QED
    BY <2>1 DEF FiniteTranscripts
<1>15. ASSUME FinalizeMark \/ FinalizeSettle \/ DeleteFiles \/ Quit
      PROVE  FiniteTranscripts'
  <2>1. UNCHANGED <<segments, final>>
    BY <1>15 DEF FinalizeMark, SaveSession, FinalizeSettle, DeleteFiles, Quit, storeVars,
       audioVars, workerVars, stopVars, passVars, mainVars, historyVars
  <2>2. QED
    BY <2>1 DEF FiniteTranscripts
<1>16. ASSUME NEW s \in Sessions, NEW title \in Titles,
         RenameLive(s, title) \/ RenameStored(s, title)
      PROVE  FiniteTranscripts'
  <2>1. UNCHANGED <<segments, final>>
    BY <1>16 DEF RenameLive, SaveSession, RenameStored, RenameSession, storeVars,
       audioVars, workerVars, stopVars, passVars, mainVars, historyVars
  <2>2. QED
    BY <2>1 DEF FiniteTranscripts
<1>17. CASE UNCHANGED vars
  BY <1>17 DEF vars, storeVars, audioVars, workerVars, stopVars, passVars, mainVars,
     historyVars, FiniteTranscripts
<1>18. QED
  BY <1>1, <1>2, <1>3, <1>4, <1>5, <1>6, <1>7, <1>8, <1>9, <1>10, <1>11, <1>12, <1>13,
     <1>14, <1>15, <1>16, <1>17
     DEF Next, WorkerStep, StopStep, PassStep, MainStep, UserStep

\* Only Start and StartFails touch an id nobody used.
LEMMA FreshIdsStep ==
  ASSUME TypeOK, FreshIds, WorkersOwned, [Next]_vars
  PROVE  FreshIds'
<1>1. ASSUME NEW s \in Sessions, NEW sources \in SUBSET Channels, Start(s, sources)
      PROVE  FreshIds'
  BY <1>1 DEF Start, SaveSession, FreshIds, TypeOK, StoreTypeOK, StopTypeOK, RestTypeOK,
     PassTypeOK, storeVars, audioVars, workerVars, stopVars, passVars, mainVars,
     historyVars
<1>2. ASSUME NEW s \in Sessions, NEW sources \in SUBSET Channels, StartFails(s, sources)
      PROVE  FreshIds'
  BY <1>2 DEF StartFails, SaveSession, FreshIds, TypeOK, StoreTypeOK, StopTypeOK,
     RestTypeOK, PassTypeOK, storeVars, audioVars, workerVars, stopVars, passVars,
     mainVars, historyVars
<1>3. ASSUME NEW s \in Sessions, NEW c \in Channels, Deliver(s, c)
      PROVE  FreshIds'
  <2>1. s \in used
    BY <1>3 DEF Deliver, FreshIds, WorkersOwned, WorkerOwned
  <2>2. \/ segments' = segments
        \/ segments' = [segments EXCEPT ![s] = segments[s] \cup Batch(s, c)]
    BY <1>3 DEF Deliver, AddSegments, storeVars
  <2>3. UNCHANGED <<used, rows, live, stopAt, passOf, passAt, mainAt, mainOf>>
    BY <1>3 DEF Deliver, AddSegments, storeVars, stopVars, passVars, mainVars
  <2>4. QED
    BY <2>1, <2>2, <2>3 DEF FreshIds, TypeOK, StoreTypeOK
<1>4. ASSUME NEW s \in Sessions, StopBegin(s)
      PROVE  FreshIds'
  BY <1>4 DEF StopBegin, FreshIds, TypeOK, StoreTypeOK, StopTypeOK, RestTypeOK,
     PassTypeOK, storeVars, audioVars, workerVars, stopVars, passVars, mainVars,
     historyVars
<1>5. ASSUME NEW s \in Sessions, StopMark(s)
      PROVE  FreshIds'
  BY <1>5 DEF StopMark, SaveSession, FreshIds, TypeOK, StoreTypeOK, StopTypeOK,
     RestTypeOK, PassTypeOK, storeVars, audioVars, workerVars, stopVars, passVars,
     mainVars, historyVars
<1>6. ASSUME NEW s \in Sessions, NEW c \in Channels, JoinChannel(s, c)
      PROVE  FreshIds'
  BY <1>6 DEF JoinChannel, StopRests, FreshIds, TypeOK, StoreTypeOK, StopTypeOK,
     RestTypeOK, PassTypeOK, storeVars, audioVars, workerVars, stopVars, passVars,
     mainVars, historyVars
<1>7. ASSUME NEW s \in Sessions, StopCount(s)
      PROVE  FreshIds'
  BY <1>7 DEF StopCount, FreshIds, TypeOK, StoreTypeOK, StopTypeOK, RestTypeOK,
     PassTypeOK, storeVars, audioVars, workerVars, stopVars, passVars, mainVars,
     historyVars
<1>8. ASSUME NEW s \in Sessions, StopClose(s)
      PROVE  FreshIds'
  BY <1>8 DEF StopClose, SaveSession, StopRests, FreshIds, TypeOK, StoreTypeOK,
     StopTypeOK, RestTypeOK, PassTypeOK, storeVars, audioVars, workerVars, stopVars,
     passVars, mainVars, historyVars
<1>9. ASSUME NEW s \in Sessions, StopFails(s)
      PROVE  FreshIds'
  BY <1>9 DEF StopFails, StopRests, FreshIds, TypeOK, StoreTypeOK, StopTypeOK,
     RestTypeOK, PassTypeOK, storeVars, audioVars, workerVars, stopVars, passVars,
     mainVars, historyVars
<1>10. ASSUME NEW s \in Sessions, FinalizeBegin(s)
      PROVE  FreshIds'
  BY <1>10 DEF FinalizeBegin, FreshIds, TypeOK, StoreTypeOK, StopTypeOK, RestTypeOK,
     PassTypeOK, storeVars, audioVars, workerVars, stopVars, passVars, mainVars,
     historyVars
<1>11. ASSUME FinalizeLoad
      PROVE  FreshIds'
  BY <1>11 DEF FinalizeLoad, PassGoes, FreshIds, TypeOK, StoreTypeOK, StopTypeOK,
     RestTypeOK, PassTypeOK, storeVars, audioVars, workerVars, stopVars, passVars,
     mainVars, historyVars
<1>12. ASSUME FinalizeMark
      PROVE  FreshIds'
  BY <1>12 DEF FinalizeMark, SaveSession, FreshIds, TypeOK, StoreTypeOK, StopTypeOK,
     RestTypeOK, PassTypeOK, storeVars, audioVars, workerVars, stopVars, passVars,
     mainVars, historyVars
<1>13. ASSUME FinalizeSettle
      PROVE  FreshIds'
  BY <1>13 DEF FinalizeSettle, FreshIds, TypeOK, StoreTypeOK, StopTypeOK, RestTypeOK,
     PassTypeOK, storeVars, audioVars, workerVars, stopVars, passVars, mainVars,
     historyVars
<1>14. ASSUME FinalizeRestore
      PROVE  FreshIds'
  BY <1>14 DEF FinalizeRestore, SaveSession, PassGoes, FreshIds, TypeOK, StoreTypeOK,
     StopTypeOK, RestTypeOK, PassTypeOK, storeVars, audioVars, workerVars, stopVars,
     passVars, mainVars, historyVars
<1>15. ASSUME FinalizeFail
      PROVE  FreshIds'
  BY <1>15 DEF FinalizeFail, SaveSession, PassGoes, FreshIds, TypeOK, StoreTypeOK,
     StopTypeOK, RestTypeOK, PassTypeOK, storeVars, audioVars, workerVars, stopVars,
     passVars, mainVars, historyVars
<1>16. ASSUME FinalizeReplace
      PROVE  FreshIds'
  BY <1>16 DEF FinalizeReplace, ReplaceTranscript, PassGoes, FreshIds, TypeOK,
     StoreTypeOK, StopTypeOK, RestTypeOK, PassTypeOK, storeVars, audioVars, workerVars,
     stopVars, passVars, mainVars, historyVars
<1>17. ASSUME FinalizeClose
      PROVE  FreshIds'
  BY <1>17 DEF FinalizeClose, SaveSession, PassGoes, FreshIds, TypeOK, StoreTypeOK,
     StopTypeOK, RestTypeOK, PassTypeOK, storeVars, audioVars, workerVars, stopVars,
     passVars, mainVars, historyVars
<1>18. ASSUME FinalizeReturns
      PROVE  FreshIds'
  BY <1>18 DEF FinalizeReturns, PassGoes, FreshIds, TypeOK, StoreTypeOK, StopTypeOK,
     RestTypeOK, PassTypeOK, storeVars, audioVars, workerVars, stopVars, passVars,
     mainVars, historyVars
<1>19. ASSUME NEW s \in Sessions, SummaryBegin(s)
      PROVE  FreshIds'
  BY <1>19 DEF SummaryBegin, FreshIds, TypeOK, StoreTypeOK, StopTypeOK, RestTypeOK,
     PassTypeOK, storeVars, audioVars, workerVars, stopVars, passVars, mainVars,
     historyVars
<1>20. ASSUME Summary
      PROVE  FreshIds'
  BY <1>20 DEF Summary, SaveSummary, PassGoes, FreshIds, TypeOK, StoreTypeOK, StopTypeOK,
     RestTypeOK, PassTypeOK, storeVars, audioVars, workerVars, stopVars, passVars,
     mainVars, historyVars
<1>21. ASSUME NEW s \in Sessions, NEW title \in Titles, RenameLive(s, title)
      PROVE  FreshIds'
  BY <1>21 DEF RenameLive, SaveSession, FreshIds, TypeOK, StoreTypeOK, StopTypeOK,
     RestTypeOK, PassTypeOK, storeVars, audioVars, workerVars, stopVars, passVars,
     mainVars, historyVars
<1>22. ASSUME NEW s \in Sessions, NEW title \in Titles, RenameStored(s, title)
      PROVE  FreshIds'
  BY <1>22 DEF RenameStored, RenameSession, FreshIds, TypeOK, StoreTypeOK, StopTypeOK,
     RestTypeOK, PassTypeOK, storeVars, audioVars, workerVars, stopVars, passVars,
     mainVars, historyVars
<1>23. ASSUME NEW s \in Sessions, DeleteBegin(s)
      PROVE  FreshIds'
  BY <1>23 DEF DeleteBegin, FreshIds, TypeOK, StoreTypeOK, StopTypeOK, RestTypeOK,
     PassTypeOK, storeVars, audioVars, workerVars, stopVars, passVars, mainVars,
     historyVars
<1>24. ASSUME DeleteRows
      PROVE  FreshIds'
  BY <1>24 DEF DeleteRows, DeleteSession, FreshIds, TypeOK, StoreTypeOK, StopTypeOK,
     RestTypeOK, PassTypeOK, storeVars, audioVars, workerVars, stopVars, passVars,
     mainVars, historyVars
<1>25. ASSUME DeleteFiles
      PROVE  FreshIds'
  BY <1>25 DEF DeleteFiles, FreshIds, TypeOK, StoreTypeOK, StopTypeOK, RestTypeOK,
     PassTypeOK, storeVars, audioVars, workerVars, stopVars, passVars, mainVars,
     historyVars
<1>26. ASSUME Crash
      PROVE  FreshIds'
  BY <1>26 DEF Crash, RecoverInterrupted, PassGoes, FreshIds, TypeOK, StoreTypeOK,
     StopTypeOK, RestTypeOK, PassTypeOK, storeVars, audioVars, workerVars, stopVars,
     passVars, mainVars, historyVars
<1>27. ASSUME NEW s \in Sessions, NEW c \in Channels,
         Append(s, c) \/ Decode(s, c) \/ Notify(s, c) \/ WorkerEnds(s, c)
         \/ DrainGivesUp(s, c) \/ StopChannel(s, c)
      PROVE  FreshIds'
  <2>1. UNCHANGED <<used, rows, segments, live, stopAt, passOf, passAt, mainAt, mainOf>>
    BY <1>27 DEF Append, Decode, Notify, WorkerEnds, DrainGivesUp, StopChannel,
       storeVars, audioVars, workerVars, stopVars, passVars, mainVars, historyVars
  <2>2. QED
    BY <2>1 DEF FreshIds
<1>28. ASSUME NEW c \in Channels,
         FinalizeChannel(c)
      PROVE  FreshIds'
  <2>1. UNCHANGED <<used, rows, segments, live, stopAt, passOf, passAt, mainAt, mainOf>>
    BY <1>28 DEF FinalizeChannel, storeVars, audioVars, workerVars, stopVars, passVars,
       mainVars, historyVars
  <2>2. QED
    BY <2>1 DEF FreshIds
<1>29. ASSUME Quit
      PROVE  FreshIds'
  <2>1. UNCHANGED <<used, rows, segments, live, stopAt, passOf, passAt, mainAt, mainOf>>
    BY <1>29 DEF Quit, storeVars, audioVars, workerVars, stopVars, passVars, mainVars,
       historyVars
  <2>2. QED
    BY <2>1 DEF FreshIds
<1>30. CASE UNCHANGED vars
  BY <1>30 DEF vars, storeVars, audioVars, workerVars, stopVars, passVars, mainVars,
     historyVars, FreshIds
<1>31. QED
  BY <1>1, <1>2, <1>3, <1>4, <1>5, <1>6, <1>7, <1>8, <1>9, <1>10, <1>11, <1>12, <1>13,
     <1>14, <1>15, <1>16, <1>17, <1>18, <1>19, <1>20, <1>21, <1>22, <1>23, <1>24, <1>25,
     <1>26, <1>27, <1>28, <1>29, <1>30
     DEF Next, WorkerStep, StopStep, PassStep, MainStep, UserStep

\* The live map hands a session over to stop, and stop to nobody, before finalize or delete
\* may touch it: their guards read the map and the status.
LEMMA OneOwnerStep ==
  ASSUME TypeOK, FiniteTranscripts, FreshIds, OneOwner, LiveIsRecording, [Next]_vars
  PROVE  OneOwner'
<1> SUFFICES ASSUME NEW t \in Sessions PROVE OwnedOnce(t)'
  BY DEF OneOwner, OwnedOnce
<1> USE StoreAssumption
<1>1. ASSUME NEW s \in Sessions, NEW sources \in SUBSET Channels, Start(s, sources)
      PROVE  OwnedOnce(t)'
  <2>1. /\ s \notin used
        /\ rows'[t] = IF t = s THEN NewRow(sources) ELSE rows[t]
        /\ live'[t] = IF t = s THEN NewRow(sources) ELSE live[t]
        /\ stopAt'[t] = stopAt[t]
        /\ stopCopy'[t] = stopCopy[t]
        /\ passAt' = passAt
        /\ passOf' = passOf
        /\ mainAt' = mainAt
        /\ mainOf' = mainOf
    BY <1>1 DEF Start, SaveSession, TypeOK, StoreTypeOK, WorkerTypeOK, StopTypeOK,
       PassTypeOK, RestTypeOK, storeVars, audioVars, workerVars, stopVars, passVars,
       mainVars, historyVars
  <2>2. /\ NewRow(sources) \in Row
        /\ NewRow(sources).status = "recording"
        /\ NewRow(sources).transcript = "live"
        /\ WithTitle(NewRow(sources), NewRow(sources).title) = NewRow(sources)
    BY <2>1, NewRowIsRow, WithTitleIsRow, RowFields
  <2>3. QED
    BY <2>1, <2>2 DEF OneOwner, OwnedOnce, FreshIds, Finalizing, Deleting, MidFlight
<1>2. ASSUME NEW s \in Sessions, NEW sources \in SUBSET Channels, StartFails(s, sources)
      PROVE  OwnedOnce(t)'
  <2>1. /\ s \notin used
        /\ (rows'[t] = rows[t] \/ (t = s /\ rows'[t] = NewRow(sources)))
        /\ live'[t] = live[t]
        /\ stopAt'[t] = stopAt[t]
        /\ stopCopy'[t] = stopCopy[t]
        /\ passAt' = passAt
        /\ passOf' = passOf
        /\ mainAt' = mainAt
        /\ mainOf' = mainOf
    BY <1>2 DEF StartFails, SaveSession, TypeOK, StoreTypeOK, WorkerTypeOK, StopTypeOK,
       PassTypeOK, RestTypeOK, storeVars, audioVars, workerVars, stopVars, passVars,
       mainVars, historyVars
  <2>2. /\ NewRow(sources) \in Row
    BY <2>1, NewRowIsRow
  <2>3. QED
    BY <2>1, <2>2 DEF OneOwner, OwnedOnce, FreshIds, Finalizing, Deleting
<1>3. ASSUME NEW s \in Sessions, StopBegin(s)
      PROVE  OwnedOnce(t)'
  <2>1. /\ live[s] # NoRow
        /\ rows'[t] = rows[t]
        /\ live'[t] = IF t = s THEN NoRow ELSE live[t]
        /\ stopAt'[t] = IF t = s THEN "mark" ELSE stopAt[t]
        /\ stopCopy'[t] = IF t = s THEN live[s] ELSE stopCopy[t]
        /\ passAt' = passAt
        /\ passOf' = passOf
        /\ mainAt' = mainAt
        /\ mainOf' = mainOf
    BY <1>3 DEF StopBegin, TypeOK, StoreTypeOK, WorkerTypeOK, StopTypeOK, PassTypeOK,
       RestTypeOK, storeVars, audioVars, workerVars, stopVars, passVars, mainVars,
       historyVars
  <2>2. /\ live[s] \in Row
        /\ rows[s] \in Row
        /\ live[s].transcript = rows[s].transcript
    BY <2>1, LiveIsRecording, WithTitleIsRow, RowFields DEF LiveIsRecording, TypeOK,
       StoreTypeOK, StopTypeOK
  <2>3. QED
    BY <2>1, <2>2 DEF OneOwner, OwnedOnce, FreshIds, LiveIsRecording, Finalizing,
       Deleting, MidFlight, TypeOK, StoreTypeOK, StopTypeOK, PassTypeOK
<1>4. ASSUME NEW s \in Sessions, StopMark(s)
      PROVE  OwnedOnce(t)'
  <2>1. /\ stopAt[s] = "mark"
        /\ live'[t] = live[t]
        /\ passAt' = passAt
        /\ passOf' = passOf
        /\ mainAt' = mainAt
        /\ mainOf' = mainOf
        /\ \/ /\ rows'[t] = IF t = s THEN WithStatus(stopCopy[s],
                   "transcribing") ELSE rows[t]
              /\ stopAt'[t] = IF t = s THEN "channels" ELSE stopAt[t]
              /\ stopCopy'[t] = IF t = s THEN WithStatus(stopCopy[s],
                   "transcribing") ELSE stopCopy[t]
           \/ /\ rows'[t] = rows[t]
              /\ stopAt'[t] = IF t = s THEN "drop" ELSE stopAt[t]
              /\ stopCopy'[t] = stopCopy[t]
    BY <1>4 DEF StopMark, SaveSession, TypeOK, StoreTypeOK, WorkerTypeOK, StopTypeOK,
       PassTypeOK, RestTypeOK, storeVars, audioVars, workerVars, stopVars, passVars,
       mainVars, historyVars
  <2>2. /\ stopCopy[s] \in Row
        /\ stopCopy[s].transcript = "live"
        /\ WithStatus(stopCopy[s], "transcribing") \in Row
        /\ WithStatus(stopCopy[s], "transcribing").transcript = "live"
        /\ WithStatus(stopCopy[s], "transcribing").status = "transcribing"
    BY <2>1, WithStatusIsRow DEF OneOwner, OwnedOnce, TypeOK, StopTypeOK, Statuses
  <2>3. QED
    BY <2>1, <2>2 DEF OneOwner, OwnedOnce, Finalizing, Deleting, MidFlight
<1>5. ASSUME NEW s \in Sessions, NEW c \in Channels, JoinChannel(s, c)
      PROVE  OwnedOnce(t)'
  <2>1. /\ stopAt[s] \in {"channels", "drop"}
        /\ rows'[t] = rows[t]
        /\ live'[t] = live[t]
        /\ (t # s => stopAt'[t] = stopAt[t]) /\ (t = s => stopAt'[t] \in {stopAt[t],
             "count", "idle"})
        /\ (stopCopy'[t] = stopCopy[t] \/ (t = s /\ stopAt'[t] = "idle"))
        /\ passAt' = passAt
        /\ passOf' = passOf
        /\ mainAt' = mainAt
        /\ mainOf' = mainOf
    BY <1>5 DEF JoinChannel, StopRests, TypeOK, StoreTypeOK, WorkerTypeOK, StopTypeOK,
       PassTypeOK, RestTypeOK, storeVars, audioVars, workerVars, stopVars, passVars,
       mainVars, historyVars
  <2>2. QED
    BY <2>1 DEF OneOwner, OwnedOnce, FreshIds, LiveIsRecording, Finalizing, Deleting,
       MidFlight, TypeOK, StoreTypeOK, StopTypeOK, PassTypeOK
<1>6. ASSUME NEW s \in Sessions, StopCount(s)
      PROVE  OwnedOnce(t)'
  <2>1. /\ stopAt[s] = "count"
        /\ rows'[t] = rows[t]
        /\ live'[t] = live[t]
        /\ stopAt'[t] = IF t = s THEN "close" ELSE stopAt[t]
        /\ stopCopy'[t] = IF t = s THEN WithCount(stopCopy[s],
             Cardinality(segments[s])) ELSE stopCopy[t]
        /\ passAt' = passAt
        /\ passOf' = passOf
        /\ mainAt' = mainAt
        /\ mainOf' = mainOf
    BY <1>6 DEF StopCount, TypeOK, StoreTypeOK, WorkerTypeOK, StopTypeOK, PassTypeOK,
       RestTypeOK, storeVars, audioVars, workerVars, stopVars, passVars, mainVars,
       historyVars
  <2>2. /\ stopCopy[s] \in Row
        /\ stopCopy[s].transcript = "live"
        /\ Cardinality(segments[s]) \in Nat
    BY <2>1, FS_CardinalityType DEF OneOwner, OwnedOnce, TypeOK, StopTypeOK,
       FiniteTranscripts
  <2>3. /\ WithCount(stopCopy[s], Cardinality(segments[s])) \in Row
        /\ WithCount(stopCopy[s], Cardinality(segments[s])).transcript = "live"
    BY <2>1, <2>2, WithCountIsRow
  <2>4. QED
    BY <2>1, <2>2, <2>3 DEF OneOwner, OwnedOnce, Finalizing, Deleting
<1>7. ASSUME NEW s \in Sessions, StopClose(s)
      PROVE  OwnedOnce(t)'
  <2>1. /\ stopAt[s] = "close"
        /\ rows'[t] = IF t = s THEN WithStatus(stopCopy[s], "stopped") ELSE rows[t]
        /\ live'[t] = live[t]
        /\ stopAt'[t] = IF t = s THEN "idle" ELSE stopAt[t]
        /\ stopCopy'[t] = IF t = s THEN NoRow ELSE stopCopy[t]
        /\ passAt' = passAt
        /\ passOf' = passOf
        /\ mainAt' = mainAt
        /\ mainOf' = mainOf
    BY <1>7 DEF StopClose, SaveSession, StopRests, TypeOK, StoreTypeOK, WorkerTypeOK,
       StopTypeOK, PassTypeOK, RestTypeOK, storeVars, audioVars, workerVars, stopVars,
       passVars, mainVars, historyVars
  <2>2. /\ WithStatus(stopCopy[s], "stopped") \in Row
        /\ WithStatus(stopCopy[s], "stopped").transcript = "live"
    BY <2>1, WithStatusIsRow DEF OneOwner, OwnedOnce, TypeOK, StopTypeOK, Statuses
  <2>3. QED
    BY <2>1, <2>2 DEF OneOwner, OwnedOnce, FreshIds, LiveIsRecording, Finalizing,
       Deleting, MidFlight, TypeOK, StoreTypeOK, StopTypeOK, PassTypeOK
<1>8. ASSUME NEW s \in Sessions, StopFails(s)
      PROVE  OwnedOnce(t)'
  BY <1>8 DEF StopFails, StopRests, storeVars, stopVars, passVars, mainVars, OneOwner,
     OwnedOnce, FreshIds, LiveIsRecording, Finalizing, Deleting, MidFlight, TypeOK,
     StoreTypeOK, StopTypeOK
<1>9. ASSUME NEW s \in Sessions, FinalizeBegin(s)
      PROVE  OwnedOnce(t)'
  BY <1>9 DEF FinalizeBegin, storeVars, stopVars, passVars, mainVars, OneOwner,
     OwnedOnce, FreshIds, LiveIsRecording, Finalizing, Deleting, MidFlight, TypeOK,
     StoreTypeOK, StopTypeOK, PassTypeOK
<1>10. ASSUME FinalizeLoad
      PROVE  OwnedOnce(t)'
  BY <1>10 DEF FinalizeLoad, PassGoes, storeVars, stopVars, passVars, mainVars, OneOwner,
     OwnedOnce, FreshIds, LiveIsRecording, Finalizing, Deleting, MidFlight, TypeOK,
     StoreTypeOK, StopTypeOK, PassTypeOK
<1>11. ASSUME FinalizeMark
      PROVE  OwnedOnce(t)'
  BY <1>11 DEF FinalizeMark, SaveSession, storeVars, stopVars, passVars, mainVars,
     OneOwner, OwnedOnce, FreshIds, LiveIsRecording, Finalizing, Deleting, MidFlight,
     TypeOK, StoreTypeOK, StopTypeOK, PassTypeOK
<1>12. ASSUME FinalizeSettle
      PROVE  OwnedOnce(t)'
  BY <1>12 DEF FinalizeSettle, storeVars, stopVars, passVars, mainVars, OneOwner,
     OwnedOnce, FreshIds, LiveIsRecording, Finalizing, Deleting, MidFlight, TypeOK,
     StoreTypeOK, StopTypeOK, PassTypeOK
<1>13. ASSUME FinalizeRestore
      PROVE  OwnedOnce(t)'
  BY <1>13 DEF FinalizeRestore, SaveSession, PassGoes, storeVars, stopVars, passVars,
     mainVars, OneOwner, OwnedOnce, FreshIds, LiveIsRecording, Finalizing, Deleting,
     MidFlight, TypeOK, StoreTypeOK, StopTypeOK, PassTypeOK
<1>14. ASSUME FinalizeFail
      PROVE  OwnedOnce(t)'
  BY <1>14 DEF FinalizeFail, SaveSession, PassGoes, storeVars, stopVars, passVars,
     mainVars, OneOwner, OwnedOnce, FreshIds, LiveIsRecording, Finalizing, Deleting,
     MidFlight, TypeOK, StoreTypeOK, StopTypeOK, PassTypeOK
<1>15. ASSUME FinalizeReplace
      PROVE  OwnedOnce(t)'
  BY <1>15 DEF FinalizeReplace, ReplaceTranscript, PassGoes, storeVars, stopVars,
     passVars, mainVars, OneOwner, OwnedOnce, FreshIds, LiveIsRecording, Finalizing,
     Deleting, MidFlight, TypeOK, StoreTypeOK, StopTypeOK, PassTypeOK
<1>16. ASSUME FinalizeClose
      PROVE  OwnedOnce(t)'
  BY <1>16 DEF FinalizeClose, SaveSession, PassGoes, storeVars, stopVars, passVars,
     mainVars, OneOwner, OwnedOnce, FreshIds, LiveIsRecording, Finalizing, Deleting,
     MidFlight, TypeOK, StoreTypeOK, StopTypeOK, PassTypeOK
<1>17. ASSUME FinalizeReturns
      PROVE  OwnedOnce(t)'
  BY <1>17 DEF FinalizeReturns, PassGoes, storeVars, stopVars, passVars, mainVars,
     OneOwner, OwnedOnce, FreshIds, LiveIsRecording, Finalizing, Deleting, MidFlight,
     TypeOK, StoreTypeOK, StopTypeOK, PassTypeOK
<1>18. ASSUME NEW s \in Sessions, SummaryBegin(s)
      PROVE  OwnedOnce(t)'
  BY <1>18 DEF SummaryBegin, storeVars, stopVars, passVars, mainVars, OneOwner,
     OwnedOnce, FreshIds, LiveIsRecording, Finalizing, Deleting, MidFlight, TypeOK,
     StoreTypeOK, StopTypeOK
<1>19. ASSUME Summary
      PROVE  OwnedOnce(t)'
  BY <1>19 DEF Summary, SaveSummary, PassGoes, storeVars, stopVars, passVars, mainVars,
     OneOwner, OwnedOnce, FreshIds, LiveIsRecording, Finalizing, Deleting, MidFlight,
     TypeOK, StoreTypeOK, StopTypeOK
<1>20. ASSUME NEW s \in Sessions, NEW title \in Titles, RenameLive(s, title)
      PROVE  OwnedOnce(t)'
  BY <1>20, WithTitleIsRow, RowFields DEF RenameLive, SaveSession, storeVars, stopVars,
     passVars, mainVars, OneOwner, OwnedOnce, FreshIds, LiveIsRecording, Finalizing,
     Deleting, MidFlight, TypeOK, StoreTypeOK, StopTypeOK
<1>21. ASSUME NEW s \in Sessions, NEW title \in Titles, RenameStored(s, title)
      PROVE  OwnedOnce(t)'
  BY <1>21, WithTitleIsRow DEF RenameStored, RenameSession, storeVars, stopVars,
     passVars, mainVars, OneOwner, OwnedOnce, FreshIds, LiveIsRecording, Finalizing,
     Deleting, MidFlight, TypeOK, StoreTypeOK, StopTypeOK
<1>22. ASSUME NEW s \in Sessions, DeleteBegin(s)
      PROVE  OwnedOnce(t)'
  BY <1>22 DEF DeleteBegin, storeVars, stopVars, passVars, mainVars, OneOwner, OwnedOnce,
     FreshIds, LiveIsRecording, Finalizing, Deleting, MidFlight, TypeOK, StoreTypeOK,
     StopTypeOK
<1>23. ASSUME DeleteRows
      PROVE  OwnedOnce(t)'
  <2>1. /\ mainAt = "delete rows"
        /\ live'[t] = live[t]
        /\ stopAt'[t] = stopAt[t]
        /\ stopCopy'[t] = stopCopy[t]
        /\ passAt' = passAt
        /\ passOf' = passOf
        /\ mainAt' \in {"idle", "delete files"}
        /\ mainOf' = mainOf
        /\ \/ /\ rows'[t] = rows[t]
           \/ /\ t = mainOf
              /\ rows'[t] = NoRow
    BY <1>23 DEF DeleteRows, DeleteSession, TypeOK, StoreTypeOK, WorkerTypeOK,
       StopTypeOK, PassTypeOK, RestTypeOK, storeVars, audioVars, workerVars, stopVars,
       passVars, mainVars, historyVars
  <2>2. QED
    BY <2>1 DEF OneOwner, OwnedOnce, FreshIds, LiveIsRecording, Finalizing, Deleting,
       MidFlight, TypeOK, StoreTypeOK, StopTypeOK, PassTypeOK
<1>24. ASSUME DeleteFiles
      PROVE  OwnedOnce(t)'
  BY <1>24 DEF DeleteFiles, storeVars, stopVars, passVars, mainVars, OneOwner, OwnedOnce,
     FreshIds, LiveIsRecording, Finalizing, Deleting, MidFlight, TypeOK, StoreTypeOK,
     StopTypeOK
<1>25. ASSUME Crash
      PROVE  OwnedOnce(t)'
  BY <1>25, WithStatusIsRow DEF Crash, RecoverInterrupted, PassGoes, storeVars, stopVars,
     passVars, mainVars, OneOwner, OwnedOnce, FreshIds, LiveIsRecording, Finalizing,
     Deleting, MidFlight, TypeOK, StoreTypeOK, Statuses, StopTypeOK
<1>26. ASSUME NEW s \in Sessions, NEW c \in Channels,
         Append(s, c) \/ Decode(s, c) \/ Deliver(s, c) \/ Notify(s, c) \/ WorkerEnds(s,
         c) \/ DrainGivesUp(s, c) \/ StopChannel(s, c)
      PROVE  OwnedOnce(t)'
  <2>1. UNCHANGED <<rows, live, stopAt, stopCopy, passAt, passOf, mainAt, mainOf>>
    BY <1>26 DEF Append, Decode, Deliver, AddSegments, Notify, WorkerEnds, DrainGivesUp,
       StopChannel, storeVars, audioVars, workerVars, stopVars, passVars, mainVars,
       historyVars
  <2>2. QED
    BY <2>1 DEF OneOwner, OwnedOnce, Finalizing, Deleting, OneOwner, OwnedOnce
<1>27. ASSUME NEW c \in Channels,
         FinalizeChannel(c)
      PROVE  OwnedOnce(t)'
  <2>1. UNCHANGED <<rows, live, stopAt, stopCopy, passAt, passOf, mainAt, mainOf>>
    BY <1>27 DEF FinalizeChannel, storeVars, audioVars, workerVars, stopVars, passVars,
       mainVars, historyVars
  <2>2. QED
    BY <2>1 DEF OneOwner, OwnedOnce, Finalizing, Deleting, OneOwner, OwnedOnce
<1>28. ASSUME Quit
      PROVE  OwnedOnce(t)'
  <2>1. UNCHANGED <<rows, live, stopAt, stopCopy, passAt, passOf, mainAt, mainOf>>
    BY <1>28 DEF Quit, storeVars, audioVars, workerVars, stopVars, passVars, mainVars,
       historyVars
  <2>2. QED
    BY <2>1 DEF OneOwner, OwnedOnce, Finalizing, Deleting, OneOwner, OwnedOnce
<1>29. CASE UNCHANGED vars
  BY <1>29 DEF vars, storeVars, workerVars, stopVars, passVars, mainVars, OneOwner,
     OwnedOnce, Finalizing, Deleting, OneOwner, OwnedOnce
<1>30. QED
  BY <1>1, <1>2, <1>3, <1>4, <1>5, <1>6, <1>7, <1>8, <1>9, <1>10, <1>11, <1>12, <1>13,
     <1>14, <1>15, <1>16, <1>17, <1>18, <1>19, <1>20, <1>21, <1>22, <1>23, <1>24, <1>25,
     <1>26, <1>27, <1>28, <1>29
     DEF Next, WorkerStep, StopStep, PassStep, MainStep, UserStep

\* Start makes the workers, stop lets go of a channel only after its worker has ended.
LEMMA WorkersOwnedStep ==
  ASSUME TypeOK, FreshIds, OneOwner, WorkersOwned, [Next]_vars
  PROVE  WorkersOwned'
<1> SUFFICES ASSUME NEW t \in Sessions, NEW d \in Channels PROVE WorkerOwned(t, d)'
  BY DEF WorkersOwned, WorkerOwned
<1> USE StoreAssumption
<1>1. ASSUME NEW s \in Sessions, NEW sources \in SUBSET Channels, Start(s, sources)
      PROVE  WorkerOwned(t, d)'
  <2>1. /\ s \notin used
        /\ (t # s => worker'[t][d] = worker[t][d]) /\ (t = s
             => worker'[t][d] = IF d \in sources THEN "waiting" ELSE "off")
        /\ live'[t] = IF t = s THEN NewRow(sources) ELSE live[t]
        /\ stopAt'[t] = stopAt[t]
        /\ stopLeft'[t] = stopLeft[t]
    BY <1>1 DEF Start, SaveSession, TypeOK, StoreTypeOK, WorkerTypeOK, StopTypeOK,
       PassTypeOK, RestTypeOK, storeVars, audioVars, workerVars, stopVars, passVars,
       mainVars, historyVars
  <2>2. /\ NewRow(sources) # NoRow
        /\ NewRow(sources).sources = sources
    BY <2>1, NewRowIsRow, RowFields
  <2>3. QED
    BY <2>1, <2>2 DEF WorkersOwned, WorkerOwned, OneOwner, OwnedOnce
<1>2. ASSUME NEW s \in Sessions, NEW c \in Channels, Decode(s, c)
      PROVE  WorkerOwned(t, d)'
  <2>1. /\ (worker'[t][d] = worker[t][d] \/ (t = s /\ d = c /\ worker[t][d] = "waiting"))
        /\ live'[t] = live[t]
        /\ stopAt'[t] = stopAt[t]
        /\ stopLeft'[t] = stopLeft[t]
    BY <1>2 DEF Decode, TypeOK, StoreTypeOK, WorkerTypeOK, StopTypeOK, PassTypeOK,
       RestTypeOK, storeVars, audioVars, workerVars, stopVars, passVars, mainVars,
       historyVars
  <2>2. QED
    BY <2>1 DEF WorkersOwned, WorkerOwned, OneOwner, OwnedOnce
<1>3. ASSUME NEW s \in Sessions, NEW c \in Channels, Deliver(s, c)
      PROVE  WorkerOwned(t, d)'
  <2>1. /\ worker'[t][d] = worker[t][d] \/ (t = s /\ d = c /\ worker[t][d] = "deliver")
        /\ live'[t] = live[t]
        /\ stopAt'[t] = stopAt[t]
        /\ stopLeft'[t] = stopLeft[t]
    BY <1>3 DEF Deliver, stopVars, TypeOK, WorkerTypeOK
  <2>2. QED
    BY <2>1 DEF WorkersOwned, WorkerOwned
<1>4. ASSUME NEW s \in Sessions, NEW c \in Channels, Notify(s, c)
      PROVE  WorkerOwned(t, d)'
  BY <1>4 DEF Notify, workerVars, stopVars, WorkersOwned, WorkerOwned, OneOwner,
     OwnedOnce, TypeOK, StopTypeOK, WorkerTypeOK
<1>5. ASSUME NEW s \in Sessions, NEW c \in Channels, WorkerEnds(s, c)
      PROVE  WorkerOwned(t, d)'
  BY <1>5 DEF WorkerEnds, workerVars, stopVars, WorkersOwned, WorkerOwned, OneOwner,
     OwnedOnce, TypeOK, StopTypeOK, WorkerTypeOK
<1>6. ASSUME NEW s \in Sessions, NEW c \in Channels, DrainGivesUp(s, c)
      PROVE  WorkerOwned(t, d)'
  BY <1>6 DEF DrainGivesUp, workerVars, stopVars, WorkersOwned, WorkerOwned, OneOwner,
     OwnedOnce, TypeOK, StopTypeOK, WorkerTypeOK
<1>7. ASSUME NEW s \in Sessions, StopBegin(s)
      PROVE  WorkerOwned(t, d)'
  <2>1. /\ live[s] # NoRow
        /\ worker'[t][d] = worker[t][d]
        /\ live'[t] = IF t = s THEN NoRow ELSE live[t]
        /\ stopAt'[t] = IF t = s THEN "mark" ELSE stopAt[t]
        /\ stopLeft'[t] = IF t = s THEN live[s].sources ELSE stopLeft[t]
    BY <1>7 DEF StopBegin, TypeOK, StoreTypeOK, WorkerTypeOK, StopTypeOK, PassTypeOK,
       RestTypeOK, storeVars, audioVars, workerVars, stopVars, passVars, mainVars,
       historyVars
  <2>2. QED
    BY <2>1 DEF WorkersOwned, WorkerOwned, OneOwner, OwnedOnce
<1>8. ASSUME NEW s \in Sessions, StopMark(s)
      PROVE  WorkerOwned(t, d)'
  BY <1>8 DEF StopMark, SaveSession, workerVars, stopVars, WorkersOwned, WorkerOwned,
     OneOwner, OwnedOnce, TypeOK, StopTypeOK, WorkerTypeOK
<1>9. ASSUME NEW s \in Sessions, NEW c \in Channels, JoinChannel(s, c)
      PROVE  WorkerOwned(t, d)'
  BY <1>9 DEF JoinChannel, StopRests, workerVars, stopVars, WorkersOwned, WorkerOwned,
     OneOwner, OwnedOnce, TypeOK, StopTypeOK, WorkerTypeOK
<1>10. ASSUME NEW s \in Sessions, StopCount(s)
      PROVE  WorkerOwned(t, d)'
  BY <1>10 DEF StopCount, workerVars, stopVars, WorkersOwned, WorkerOwned, OneOwner,
     OwnedOnce, TypeOK, StopTypeOK, WorkerTypeOK
<1>11. ASSUME NEW s \in Sessions, StopClose(s)
      PROVE  WorkerOwned(t, d)'
  BY <1>11 DEF StopClose, SaveSession, StopRests, workerVars, stopVars, WorkersOwned,
     WorkerOwned, OneOwner, OwnedOnce, TypeOK, StopTypeOK, WorkerTypeOK
<1>12. ASSUME NEW s \in Sessions, StopFails(s)
      PROVE  WorkerOwned(t, d)'
  BY <1>12 DEF StopFails, StopRests, workerVars, stopVars, WorkersOwned, WorkerOwned,
     OneOwner, OwnedOnce, TypeOK, StopTypeOK, WorkerTypeOK
<1>13. ASSUME NEW s \in Sessions, NEW title \in Titles, RenameLive(s, title)
      PROVE  WorkerOwned(t, d)'
  BY <1>13, WithTitleIsRow, RowFields DEF RenameLive, SaveSession, workerVars, stopVars,
     WorkersOwned, WorkerOwned, OneOwner, OwnedOnce, TypeOK, StopTypeOK, WorkerTypeOK
<1>14. ASSUME Crash
      PROVE  WorkerOwned(t, d)'
  BY <1>14 DEF Crash, RecoverInterrupted, PassGoes, workerVars, stopVars, WorkersOwned,
     WorkerOwned, OneOwner, OwnedOnce, TypeOK, StopTypeOK, WorkerTypeOK
<1>15. ASSUME NEW s \in Sessions, NEW sources \in SUBSET Channels,
         StartFails(s, sources)
      PROVE  WorkerOwned(t, d)'
  <2>1. UNCHANGED <<worker, live, stopAt, stopLeft>>
    BY <1>15 DEF StartFails, SaveSession, storeVars, audioVars, workerVars, stopVars,
       passVars, mainVars, historyVars
  <2>2. QED
    BY <2>1 DEF WorkersOwned, WorkerOwned, Finalizing, Deleting, OneOwner, OwnedOnce
<1>16. ASSUME NEW s \in Sessions, NEW c \in Channels,
         Append(s, c) \/ StopChannel(s, c)
      PROVE  WorkerOwned(t, d)'
  <2>1. UNCHANGED <<worker, live, stopAt, stopLeft>>
    BY <1>16 DEF Append, StopChannel, storeVars, audioVars, workerVars, stopVars,
       passVars, mainVars, historyVars
  <2>2. QED
    BY <2>1 DEF WorkersOwned, WorkerOwned, Finalizing, Deleting, OneOwner, OwnedOnce
<1>17. ASSUME NEW s \in Sessions,
         FinalizeBegin(s) \/ SummaryBegin(s) \/ DeleteBegin(s)
      PROVE  WorkerOwned(t, d)'
  <2>1. UNCHANGED <<worker, live, stopAt, stopLeft>>
    BY <1>17 DEF FinalizeBegin, SummaryBegin, DeleteBegin, storeVars, audioVars,
       workerVars, stopVars, passVars, mainVars, historyVars
  <2>2. QED
    BY <2>1 DEF WorkersOwned, WorkerOwned, Finalizing, Deleting, OneOwner, OwnedOnce
<1>18. ASSUME FinalizeLoad \/ FinalizeMark \/ FinalizeSettle \/ FinalizeRestore
     \/ FinalizeFail \/ FinalizeReplace \/ FinalizeClose \/ FinalizeReturns \/ Summary
     \/ DeleteRows \/ DeleteFiles \/ Quit
      PROVE  WorkerOwned(t, d)'
  <2>1. UNCHANGED <<worker, live, stopAt, stopLeft>>
    BY <1>18 DEF FinalizeLoad, PassGoes, FinalizeMark, SaveSession, FinalizeSettle,
       FinalizeRestore, SaveSession, PassGoes, FinalizeFail, SaveSession, PassGoes,
       FinalizeReplace, ReplaceTranscript, PassGoes, FinalizeClose, SaveSession,
       PassGoes, FinalizeReturns, PassGoes, Summary, SaveSummary, PassGoes, DeleteRows,
       DeleteSession, DeleteFiles, Quit, storeVars, audioVars, workerVars, stopVars,
       passVars, mainVars, historyVars
  <2>2. QED
    BY <2>1 DEF WorkersOwned, WorkerOwned, Finalizing, Deleting, OneOwner, OwnedOnce
<1>19. ASSUME NEW c \in Channels,
         FinalizeChannel(c)
      PROVE  WorkerOwned(t, d)'
  <2>1. UNCHANGED <<worker, live, stopAt, stopLeft>>
    BY <1>19 DEF FinalizeChannel, storeVars, audioVars, workerVars, stopVars, passVars,
       mainVars, historyVars
  <2>2. QED
    BY <2>1 DEF WorkersOwned, WorkerOwned, Finalizing, Deleting, OneOwner, OwnedOnce
<1>20. ASSUME NEW s \in Sessions, NEW title \in Titles,
         RenameStored(s, title)
      PROVE  WorkerOwned(t, d)'
  <2>1. UNCHANGED <<worker, live, stopAt, stopLeft>>
    BY <1>20 DEF RenameStored, RenameSession, storeVars, audioVars, workerVars, stopVars,
       passVars, mainVars, historyVars
  <2>2. QED
    BY <2>1 DEF WorkersOwned, WorkerOwned, Finalizing, Deleting, OneOwner, OwnedOnce
<1>21. CASE UNCHANGED vars
  BY <1>21 DEF vars, storeVars, workerVars, stopVars, passVars, mainVars, WorkersOwned,
     WorkerOwned, Finalizing, Deleting, OneOwner, OwnedOnce
<1>22. QED
  BY <1>1, <1>2, <1>3, <1>4, <1>5, <1>6, <1>7, <1>8, <1>9, <1>10, <1>11, <1>12, <1>13,
     <1>14, <1>15, <1>16, <1>17, <1>18, <1>19, <1>20, <1>21
     DEF Next, WorkerStep, StopStep, PassStep, MainStep, UserStep

\* Nobody but the pass itself changes which transcript the row of its session names.
LEMMA PassConsistentStep ==
  ASSUME TypeOK, FiniteTranscripts, FreshIds, OneOwner, PassConsistent, LiveIsRecording,
       [Next]_vars
  PROVE  PassConsistent'
<1> SUFFICES ASSUME NEW t \in Sessions PROVE PassReads(t)'
  BY DEF PassConsistent, PassReads
<1> USE StoreAssumption
<1>1. ASSUME NEW s \in Sessions, NEW sources \in SUBSET Channels, Start(s, sources)
      PROVE  PassReads(t)'
  BY <1>1, NewRowIsRow, WithTitleIsRow, RowFields DEF Start, SaveSession, storeVars,
     passVars, PassConsistent, PassReads, FreshIds, TypeOK, StoreTypeOK
<1>2. ASSUME NEW s \in Sessions, NEW sources \in SUBSET Channels, StartFails(s, sources)
      PROVE  PassReads(t)'
  BY <1>2, NewRowIsRow DEF StartFails, SaveSession, storeVars, passVars, PassConsistent,
     PassReads, FreshIds, TypeOK, StoreTypeOK
<1>3. ASSUME NEW s \in Sessions, StopMark(s)
      PROVE  PassReads(t)'
  BY <1>3, WithStatusIsRow DEF StopMark, SaveSession, storeVars, passVars,
     PassConsistent, PassReads, OneOwner, OwnedOnce, Finalizing, TypeOK, StopTypeOK,
     Statuses, StoreTypeOK
<1>4. ASSUME NEW s \in Sessions, StopClose(s)
      PROVE  PassReads(t)'
  BY <1>4, WithStatusIsRow DEF StopClose, SaveSession, StopRests, storeVars, passVars,
     PassConsistent, PassReads, OneOwner, OwnedOnce, Finalizing, TypeOK, StopTypeOK,
     Statuses, StoreTypeOK
<1>5. ASSUME NEW s \in Sessions, FinalizeBegin(s)
      PROVE  PassReads(t)'
  <2>1. /\ live[s] = NoRow
        /\ stopAt[s] = "idle"
        /\ passAt' = "load"
        /\ passOf' = s
        /\ original' = original
        /\ final' = final
        /\ rows'[t] = rows[t]
    BY <1>5 DEF FinalizeBegin, TypeOK, StoreTypeOK, WorkerTypeOK, StopTypeOK, PassTypeOK,
       RestTypeOK, storeVars, audioVars, workerVars, stopVars, passVars, mainVars,
       historyVars
  <2>2. QED
    BY <2>1 DEF PassConsistent, PassReads
<1>6. ASSUME FinalizeLoad
      PROVE  PassReads(t)'
  BY <1>6 DEF FinalizeLoad, PassGoes, storeVars, passVars, PassConsistent, PassReads,
     TypeOK, StoreTypeOK, PassTypeOK
<1>7. ASSUME FinalizeMark
      PROVE  PassReads(t)'
  BY <1>7, WithStatusIsRow DEF FinalizeMark, SaveSession, storeVars, passVars,
     PassConsistent, PassReads, TypeOK, PassTypeOK, Statuses, StoreTypeOK
<1>8. ASSUME NEW c \in Channels, FinalizeChannel(c)
      PROVE  PassReads(t)'
  BY <1>8, RecordingSegments DEF FinalizeChannel, storeVars, passVars, PassConsistent,
     PassReads, TypeOK, StoreTypeOK, PassTypeOK
<1>9. ASSUME FinalizeSettle
      PROVE  PassReads(t)'
  BY <1>9 DEF FinalizeSettle, storeVars, passVars, PassConsistent, PassReads, TypeOK,
     StoreTypeOK, PassTypeOK
<1>10. ASSUME FinalizeRestore
      PROVE  PassReads(t)'
  BY <1>10 DEF FinalizeRestore, SaveSession, PassGoes, storeVars, passVars,
     PassConsistent, PassReads, TypeOK, PassTypeOK, StoreTypeOK
<1>11. ASSUME FinalizeFail
      PROVE  PassReads(t)'
  BY <1>11, WithStatusIsRow, WithErrorIsRow DEF FinalizeFail, SaveSession, PassGoes,
     storeVars, passVars, PassConsistent, PassReads, TypeOK, PassTypeOK, Statuses,
     StoreTypeOK
<1>12. ASSUME FinalizeReplace
      PROVE  PassReads(t)'
  <2>1. /\ passAt = "replace"
        /\ passOf' = passOf
        /\ \/ /\ rows'[t] = rows[t]
              /\ passAt' = "idle"
              /\ final' = {}
           \/ /\ rows[passOf] # NoRow
              /\ rows'[t] = IF t = passOf THEN WithFinal(rows[passOf],
                   Cardinality(final)) ELSE rows[t]
              /\ passAt' = "close"
              /\ original' = original
              /\ final' = final
    BY <1>12 DEF FinalizeReplace, ReplaceTranscript, PassGoes, TypeOK, StoreTypeOK,
       WorkerTypeOK, StopTypeOK, PassTypeOK, RestTypeOK, storeVars, audioVars,
       workerVars, stopVars, passVars, mainVars, historyVars
  <2>2. /\ rows[passOf] # NoRow => WithFinal(rows[passOf],
             Cardinality(final)) \in Row /\ WithFinal(rows[passOf],
             Cardinality(final)).transcript = "final"
    BY <2>1, WithFinalIsRow, FS_CardinalityType DEF FiniteTranscripts, TypeOK,
       StoreTypeOK, PassTypeOK
  <2>3. QED
    BY <2>1, <2>2 DEF PassConsistent, PassReads
<1>13. ASSUME FinalizeClose
      PROVE  PassReads(t)'
  BY <1>13, FS_CardinalityType, WithStatusIsRow, WithFinalIsRow, WithErrorIsRow
     DEF FinalizeClose, SaveSession, PassGoes, storeVars, passVars, PassConsistent,
     PassReads, FiniteTranscripts, TypeOK, PassTypeOK, Statuses, StoreTypeOK
<1>14. ASSUME FinalizeReturns
      PROVE  PassReads(t)'
  BY <1>14 DEF FinalizeReturns, PassGoes, storeVars, passVars, PassConsistent, PassReads,
     TypeOK, StoreTypeOK, PassTypeOK
<1>15. ASSUME NEW s \in Sessions, SummaryBegin(s)
      PROVE  PassReads(t)'
  BY <1>15 DEF SummaryBegin, storeVars, passVars, PassConsistent, PassReads, TypeOK,
     StoreTypeOK
<1>16. ASSUME Summary
      PROVE  PassReads(t)'
  BY <1>16 DEF Summary, SaveSummary, PassGoes, storeVars, passVars, PassConsistent,
     PassReads, TypeOK, StoreTypeOK
<1>17. ASSUME NEW s \in Sessions, NEW title \in Titles, RenameLive(s, title)
      PROVE  PassReads(t)'
  BY <1>17, WithTitleIsRow, RowFields DEF RenameLive, SaveSession, storeVars, passVars,
     PassConsistent, PassReads, OneOwner, OwnedOnce, Finalizing, LiveIsRecording, TypeOK,
     StoreTypeOK, StopTypeOK
<1>18. ASSUME NEW s \in Sessions, NEW title \in Titles, RenameStored(s, title)
      PROVE  PassReads(t)'
  BY <1>18, WithTitleIsRow DEF RenameStored, RenameSession, storeVars, passVars,
     PassConsistent, PassReads, TypeOK, StoreTypeOK
<1>19. ASSUME DeleteRows
      PROVE  PassReads(t)'
  BY <1>19 DEF DeleteRows, DeleteSession, storeVars, passVars, PassConsistent, PassReads,
     TypeOK, StoreTypeOK, RestTypeOK
<1>20. ASSUME Crash
      PROVE  PassReads(t)'
  BY <1>20, WithStatusIsRow DEF Crash, RecoverInterrupted, PassGoes, storeVars, passVars,
     PassConsistent, PassReads, TypeOK, StoreTypeOK, Statuses
<1>21. ASSUME NEW s \in Sessions, NEW c \in Channels,
         Append(s, c) \/ Decode(s, c) \/ Deliver(s, c) \/ Notify(s, c) \/ WorkerEnds(s,
         c) \/ DrainGivesUp(s, c) \/ StopChannel(s, c) \/ JoinChannel(s, c)
      PROVE  PassReads(t)'
  <2>1. UNCHANGED <<passAt, passOf, original, final, rows>>
    BY <1>21 DEF Append, Decode, Deliver, AddSegments, Notify, WorkerEnds, DrainGivesUp,
       StopChannel, JoinChannel, StopRests, storeVars, audioVars, workerVars, stopVars,
       passVars, mainVars, historyVars
  <2>2. QED
    BY <2>1 DEF PassConsistent, PassReads, Finalizing, Deleting, OneOwner, OwnedOnce
<1>22. ASSUME NEW s \in Sessions,
         StopBegin(s) \/ StopCount(s) \/ StopFails(s) \/ DeleteBegin(s)
      PROVE  PassReads(t)'
  <2>1. UNCHANGED <<passAt, passOf, original, final, rows>>
    BY <1>22 DEF StopBegin, StopCount, StopFails, StopRests, DeleteBegin, storeVars,
       audioVars, workerVars, stopVars, passVars, mainVars, historyVars
  <2>2. QED
    BY <2>1 DEF PassConsistent, PassReads, Finalizing, Deleting, OneOwner, OwnedOnce
<1>23. ASSUME DeleteFiles \/ Quit
      PROVE  PassReads(t)'
  <2>1. UNCHANGED <<passAt, passOf, original, final, rows>>
    BY <1>23 DEF DeleteFiles, Quit, storeVars, audioVars, workerVars, stopVars, passVars,
       mainVars, historyVars
  <2>2. QED
    BY <2>1 DEF PassConsistent, PassReads, Finalizing, Deleting, OneOwner, OwnedOnce
<1>24. CASE UNCHANGED vars
  BY <1>24 DEF vars, storeVars, workerVars, stopVars, passVars, mainVars, PassConsistent,
     PassReads, Finalizing, Deleting, OneOwner, OwnedOnce
<1>25. QED
  BY <1>1, <1>2, <1>3, <1>4, <1>5, <1>6, <1>7, <1>8, <1>9, <1>10, <1>11, <1>12, <1>13,
     <1>14, <1>15, <1>16, <1>17, <1>18, <1>19, <1>20, <1>21, <1>22, <1>23, <1>24
     DEF Next, WorkerStep, StopStep, PassStep, MainStep, UserStep

\* Only start and rename write the row of a live session, and they write what is in memory.
LEMMA LiveIsRecordingStep ==
  ASSUME TypeOK, FiniteTranscripts, FreshIds, OneOwner, PassConsistent, LiveIsRecording,
       [Next]_vars
  PROVE  LiveIsRecording'
<1> SUFFICES ASSUME NEW t \in Sessions PROVE Mirrored(t)'
  BY DEF LiveIsRecording, Mirrored
<1> USE StoreAssumption
<1>1. ASSUME NEW s \in Sessions, NEW sources \in SUBSET Channels, Start(s, sources)
      PROVE  Mirrored(t)'
  <2>1. /\ s \notin used
        /\ rows'[t] = IF t = s THEN NewRow(sources) ELSE rows[t]
        /\ live'[t] = IF t = s THEN NewRow(sources) ELSE live[t]
    BY <1>1 DEF Start, SaveSession, TypeOK, StoreTypeOK, WorkerTypeOK, StopTypeOK,
       PassTypeOK, RestTypeOK, storeVars, audioVars, workerVars, stopVars, passVars,
       mainVars, historyVars
  <2>2. /\ NewRow(sources) \in Row
        /\ NewRow(sources).status = "recording"
        /\ NewRow(sources).transcript = "live"
        /\ WithTitle(NewRow(sources), NewRow(sources).title) = NewRow(sources)
    BY <2>1, NewRowIsRow, WithTitleIsRow, RowFields
  <2>3. QED
    BY <2>1, <2>2 DEF LiveIsRecording, Mirrored, FreshIds, OneOwner, OwnedOnce,
       Finalizing, Deleting, MidFlight, TypeOK, StoreTypeOK, StopTypeOK, PassTypeOK
<1>2. ASSUME NEW s \in Sessions, NEW sources \in SUBSET Channels, StartFails(s, sources)
      PROVE  Mirrored(t)'
  <2>1. /\ s \notin used
        /\ (rows'[t] = rows[t] \/ (t = s /\ rows'[t] = NewRow(sources)))
        /\ live'[t] = live[t]
    BY <1>2 DEF StartFails, SaveSession, TypeOK, StoreTypeOK, WorkerTypeOK, StopTypeOK,
       PassTypeOK, RestTypeOK, storeVars, audioVars, workerVars, stopVars, passVars,
       mainVars, historyVars
  <2>2. /\ NewRow(sources) \in Row
    BY <2>1, NewRowIsRow
  <2>3. QED
    BY <2>1, <2>2 DEF LiveIsRecording, Mirrored, FreshIds, OneOwner, OwnedOnce,
       Finalizing, Deleting, MidFlight, TypeOK, StoreTypeOK, StopTypeOK, PassTypeOK
<1>3. ASSUME NEW s \in Sessions, StopBegin(s)
      PROVE  Mirrored(t)'
  BY <1>3, WithTitleIsRow, RowFields DEF StopBegin, storeVars, LiveIsRecording, Mirrored,
     FreshIds, OneOwner, OwnedOnce, Finalizing, Deleting, MidFlight, TypeOK, StoreTypeOK,
     StopTypeOK
<1>4. ASSUME NEW s \in Sessions, StopMark(s)
      PROVE  Mirrored(t)'
  <2>1. /\ stopAt[s] = "mark"
        /\ live'[t] = live[t]
        /\ \/ /\ rows'[t] = IF t = s THEN WithStatus(stopCopy[s],
                   "transcribing") ELSE rows[t]
           \/ /\ rows'[t] = rows[t]
    BY <1>4 DEF StopMark, SaveSession, TypeOK, StoreTypeOK, WorkerTypeOK, StopTypeOK,
       PassTypeOK, RestTypeOK, storeVars, audioVars, workerVars, stopVars, passVars,
       mainVars, historyVars
  <2>2. /\ stopCopy[s] \in Row
        /\ stopCopy[s].transcript = "live"
        /\ WithStatus(stopCopy[s], "transcribing") \in Row
        /\ WithStatus(stopCopy[s], "transcribing").transcript = "live"
        /\ WithStatus(stopCopy[s], "transcribing").status = "transcribing"
    BY <2>1, WithStatusIsRow DEF OneOwner, OwnedOnce, TypeOK, StopTypeOK, Statuses
  <2>3. QED
    BY <2>1, <2>2 DEF LiveIsRecording, Mirrored, FreshIds, OneOwner, OwnedOnce,
       Finalizing, Deleting, MidFlight, TypeOK, StoreTypeOK, StopTypeOK, PassTypeOK
<1>5. ASSUME NEW s \in Sessions, StopClose(s)
      PROVE  Mirrored(t)'
  BY <1>5, WithStatusIsRow DEF StopClose, SaveSession, StopRests, storeVars,
     LiveIsRecording, Mirrored, FreshIds, OneOwner, OwnedOnce, Finalizing, Deleting,
     MidFlight, TypeOK, StopTypeOK, Statuses, StoreTypeOK
<1>6. ASSUME FinalizeMark
      PROVE  Mirrored(t)'
  BY <1>6 DEF FinalizeMark, SaveSession, storeVars, LiveIsRecording, Mirrored, FreshIds,
     OneOwner, OwnedOnce, Finalizing, Deleting, MidFlight, TypeOK, StoreTypeOK,
     StopTypeOK, PassTypeOK
<1>7. ASSUME FinalizeRestore
      PROVE  Mirrored(t)'
  BY <1>7 DEF FinalizeRestore, SaveSession, PassGoes, storeVars, LiveIsRecording,
     Mirrored, FreshIds, OneOwner, OwnedOnce, Finalizing, Deleting, MidFlight, TypeOK,
     StoreTypeOK, StopTypeOK, PassTypeOK
<1>8. ASSUME FinalizeFail
      PROVE  Mirrored(t)'
  BY <1>8 DEF FinalizeFail, SaveSession, PassGoes, storeVars, LiveIsRecording, Mirrored,
     FreshIds, OneOwner, OwnedOnce, Finalizing, Deleting, MidFlight, TypeOK, StoreTypeOK,
     StopTypeOK, PassTypeOK
<1>9. ASSUME FinalizeReplace
      PROVE  Mirrored(t)'
  BY <1>9 DEF FinalizeReplace, ReplaceTranscript, PassGoes, storeVars, LiveIsRecording,
     Mirrored, FreshIds, OneOwner, OwnedOnce, Finalizing, Deleting, MidFlight, TypeOK,
     StoreTypeOK, StopTypeOK, PassTypeOK
<1>10. ASSUME FinalizeClose
      PROVE  Mirrored(t)'
  BY <1>10 DEF FinalizeClose, SaveSession, PassGoes, storeVars, LiveIsRecording,
     Mirrored, FreshIds, OneOwner, OwnedOnce, Finalizing, Deleting, MidFlight, TypeOK,
     StoreTypeOK, StopTypeOK, PassTypeOK
<1>11. ASSUME NEW s \in Sessions, NEW title \in Titles, RenameLive(s, title)
      PROVE  Mirrored(t)'
  BY <1>11, WithTitleIsRow, RowFields DEF RenameLive, SaveSession, storeVars,
     LiveIsRecording, Mirrored, TypeOK, StoreTypeOK, StopTypeOK
<1>12. ASSUME NEW s \in Sessions, NEW title \in Titles, RenameStored(s, title)
      PROVE  Mirrored(t)'
  BY <1>12, WithTitleIsRow DEF RenameStored, RenameSession, storeVars, LiveIsRecording,
     Mirrored, FreshIds, OneOwner, OwnedOnce, Finalizing, Deleting, MidFlight, TypeOK,
     StoreTypeOK, StopTypeOK
<1>13. ASSUME DeleteRows
      PROVE  Mirrored(t)'
  BY <1>13 DEF DeleteRows, DeleteSession, storeVars, LiveIsRecording, Mirrored, FreshIds,
     OneOwner, OwnedOnce, Finalizing, Deleting, MidFlight, TypeOK, StoreTypeOK,
     StopTypeOK, RestTypeOK
<1>14. ASSUME Crash
      PROVE  Mirrored(t)'
  BY <1>14, WithStatusIsRow DEF Crash, RecoverInterrupted, PassGoes, storeVars,
     LiveIsRecording, Mirrored, FreshIds, OneOwner, OwnedOnce, Finalizing, Deleting,
     MidFlight, TypeOK, StoreTypeOK, Statuses, StopTypeOK
<1>15. ASSUME NEW s \in Sessions, NEW c \in Channels,
         Append(s, c) \/ Decode(s, c) \/ Deliver(s, c) \/ Notify(s, c) \/ WorkerEnds(s,
         c) \/ DrainGivesUp(s, c) \/ StopChannel(s, c) \/ JoinChannel(s, c)
      PROVE  Mirrored(t)'
  <2>1. UNCHANGED <<rows, live>>
    BY <1>15 DEF Append, Decode, Deliver, AddSegments, Notify, WorkerEnds, DrainGivesUp,
       StopChannel, JoinChannel, StopRests, storeVars, audioVars, workerVars, stopVars,
       passVars, mainVars, historyVars
  <2>2. QED
    BY <2>1 DEF LiveIsRecording, Mirrored, Finalizing, Deleting, OneOwner, OwnedOnce
<1>16. ASSUME NEW s \in Sessions,
         StopCount(s) \/ StopFails(s) \/ FinalizeBegin(s) \/ SummaryBegin(s)
         \/ DeleteBegin(s)
      PROVE  Mirrored(t)'
  <2>1. UNCHANGED <<rows, live>>
    BY <1>16 DEF StopCount, StopFails, StopRests, FinalizeBegin, SummaryBegin,
       DeleteBegin, storeVars, audioVars, workerVars, stopVars, passVars, mainVars,
       historyVars
  <2>2. QED
    BY <2>1 DEF LiveIsRecording, Mirrored, Finalizing, Deleting, OneOwner, OwnedOnce
<1>17. ASSUME FinalizeLoad \/ FinalizeSettle \/ FinalizeReturns \/ Summary
     \/ DeleteFiles \/ Quit
      PROVE  Mirrored(t)'
  <2>1. UNCHANGED <<rows, live>>
    BY <1>17 DEF FinalizeLoad, PassGoes, FinalizeSettle, FinalizeReturns, PassGoes,
       Summary, SaveSummary, PassGoes, DeleteFiles, Quit, storeVars, audioVars,
       workerVars, stopVars, passVars, mainVars, historyVars
  <2>2. QED
    BY <2>1 DEF LiveIsRecording, Mirrored, Finalizing, Deleting, OneOwner, OwnedOnce
<1>18. ASSUME NEW c \in Channels,
         FinalizeChannel(c)
      PROVE  Mirrored(t)'
  <2>1. UNCHANGED <<rows, live>>
    BY <1>18 DEF FinalizeChannel, storeVars, audioVars, workerVars, stopVars, passVars,
       mainVars, historyVars
  <2>2. QED
    BY <2>1 DEF LiveIsRecording, Mirrored, Finalizing, Deleting, OneOwner, OwnedOnce
<1>19. CASE UNCHANGED vars
  BY <1>19 DEF vars, storeVars, workerVars, stopVars, passVars, mainVars,
     LiveIsRecording, Mirrored, Finalizing, Deleting, OneOwner, OwnedOnce
<1>20. QED
  BY <1>1, <1>2, <1>3, <1>4, <1>5, <1>6, <1>7, <1>8, <1>9, <1>10, <1>11, <1>12, <1>13,
     <1>14, <1>15, <1>16, <1>17, <1>18, <1>19
     DEF Next, WorkerStep, StopStep, PassStep, MainStep, UserStep

\* Live segments are added only while the row says "live", and the transcript is replaced in
\* the same transaction as the column that names it.
LEMMA OneTranscriptStep ==
  ASSUME TypeOK, FiniteTranscripts, FreshIds, OneOwner, WorkersOwned, PassConsistent,
       LiveIsRecording, OneTranscript, [Next]_vars
  PROVE  OneTranscript'
<1> SUFFICES ASSUME NEW t \in Sessions PROVE OfOnePass(t)'
  BY DEF OneTranscript, OfOnePass
<1> USE StoreAssumption
<1>1. ASSUME NEW s \in Sessions, NEW sources \in SUBSET Channels, Start(s, sources)
      PROVE  OfOnePass(t)'
  BY <1>1, NewRowIsRow, WithTitleIsRow, RowFields DEF Start, SaveSession, storeVars,
     OneTranscript, OfOnePass, FreshIds, TypeOK, StoreTypeOK
<1>2. ASSUME NEW s \in Sessions, NEW sources \in SUBSET Channels, StartFails(s, sources)
      PROVE  OfOnePass(t)'
  BY <1>2, NewRowIsRow DEF StartFails, SaveSession, storeVars, OneTranscript, OfOnePass,
     FreshIds, TypeOK, StoreTypeOK
<1>3. ASSUME NEW s \in Sessions, NEW c \in Channels, Deliver(s, c)
      PROVE  OfOnePass(t)'
  BY <1>3, BatchSegments DEF Deliver, AddSegments, storeVars, OneTranscript, OfOnePass,
     OneOwner, OwnedOnce, WorkersOwned, WorkerOwned, TypeOK, StoreTypeOK
<1>4. ASSUME NEW s \in Sessions, StopMark(s)
      PROVE  OfOnePass(t)'
  BY <1>4, WithStatusIsRow DEF StopMark, SaveSession, storeVars, OneTranscript,
     OfOnePass, OneOwner, OwnedOnce, TypeOK, StopTypeOK, Statuses, StoreTypeOK
<1>5. ASSUME NEW s \in Sessions, StopClose(s)
      PROVE  OfOnePass(t)'
  <2>1. /\ stopAt[s] = "close"
        /\ rows'[t] = IF t = s THEN WithStatus(stopCopy[s], "stopped") ELSE rows[t]
        /\ segments'[t] = segments[t]
    BY <1>5 DEF StopClose, SaveSession, StopRests, TypeOK, StoreTypeOK, WorkerTypeOK,
       StopTypeOK, PassTypeOK, RestTypeOK, storeVars, audioVars, workerVars, stopVars,
       passVars, mainVars, historyVars
  <2>2. /\ WithStatus(stopCopy[s], "stopped") \in Row
        /\ WithStatus(stopCopy[s], "stopped").transcript = "live"
    BY <2>1, WithStatusIsRow DEF OneOwner, OwnedOnce, TypeOK, StopTypeOK, Statuses
  <2>3. /\ rows[s] # NoRow
        /\ rows[s].transcript = "live"
    BY <2>1, <2>2 DEF OneOwner, OwnedOnce
  <2>4. /\ (rows[t] # NoRow
             => rows'[t] # NoRow /\ rows'[t].transcript = rows[t].transcript)
    BY <2>1, <2>2, <2>3
  <2>5. QED
    BY <2>1, <2>2, <2>3, <2>4 DEF OneTranscript, OfOnePass
<1>6. ASSUME FinalizeMark
      PROVE  OfOnePass(t)'
  BY <1>6, WithStatusIsRow DEF FinalizeMark, SaveSession, storeVars, OneTranscript,
     OfOnePass, PassConsistent, PassReads, TypeOK, PassTypeOK, Statuses, StoreTypeOK
<1>7. ASSUME FinalizeRestore
      PROVE  OfOnePass(t)'
  BY <1>7 DEF FinalizeRestore, SaveSession, PassGoes, storeVars, OneTranscript,
     OfOnePass, PassConsistent, PassReads, TypeOK, PassTypeOK, StoreTypeOK
<1>8. ASSUME FinalizeFail
      PROVE  OfOnePass(t)'
  <2>1. /\ passAt = "fail"
        /\ rows'[t] = IF t = passOf THEN WithError(WithStatus(original, "stopped"),
             TRUE) ELSE rows[t]
        /\ segments'[t] = segments[t]
    BY <1>8 DEF FinalizeFail, SaveSession, PassGoes, TypeOK, StoreTypeOK, WorkerTypeOK,
       StopTypeOK, PassTypeOK, RestTypeOK, storeVars, audioVars, workerVars, stopVars,
       passVars, mainVars, historyVars
  <2>2. /\ original \in Row
    BY <2>1 DEF PassConsistent, PassReads, TypeOK, PassTypeOK
  <2>3. /\ WithStatus(original, "stopped") \in Row
        /\ WithStatus(original, "stopped").transcript = original.transcript
    BY <2>1, <2>2, WithStatusIsRow DEF Statuses
  <2>4. /\ WithError(WithStatus(original, "stopped"), TRUE) \in Row
        /\ WithError(WithStatus(original, "stopped"),
             TRUE).transcript = original.transcript
    BY <2>1, <2>2, <2>3, WithErrorIsRow
  <2>5. /\ (rows[t] # NoRow
             => rows'[t] # NoRow /\ rows'[t].transcript = rows[t].transcript)
    BY <2>1, <2>2, <2>3, <2>4 DEF PassConsistent, PassReads, TypeOK, PassTypeOK
  <2>6. QED
    BY <2>1, <2>2, <2>3, <2>4, <2>5 DEF OneTranscript, OfOnePass
<1>9. ASSUME FinalizeReplace
      PROVE  OfOnePass(t)'
  <2>1. /\ passAt = "replace"
        /\ \/ /\ rows'[t] = rows[t]
              /\ segments'[t] = segments[t]
           \/ /\ rows[passOf] # NoRow
              /\ rows'[t] = IF t = passOf THEN WithFinal(rows[passOf],
                   Cardinality(final)) ELSE rows[t]
              /\ segments'[t] = IF t = passOf THEN final ELSE segments[t]
    BY <1>9 DEF FinalizeReplace, ReplaceTranscript, PassGoes, TypeOK, StoreTypeOK,
       WorkerTypeOK, StopTypeOK, PassTypeOK, RestTypeOK, storeVars, audioVars,
       workerVars, stopVars, passVars, mainVars, historyVars
  <2>2. /\ rows[passOf] # NoRow => WithFinal(rows[passOf],
             Cardinality(final)) \in Row /\ WithFinal(rows[passOf],
             Cardinality(final)).transcript = "final"
    BY <2>1, WithFinalIsRow, FS_CardinalityType DEF FiniteTranscripts, TypeOK,
       StoreTypeOK, PassTypeOK
  <2>3. QED
    BY <2>1, <2>2 DEF OneTranscript, OfOnePass, PassConsistent, PassReads, TypeOK,
       PassTypeOK
<1>10. ASSUME FinalizeClose
      PROVE  OfOnePass(t)'
  <2>1. /\ passAt = "close"
        /\ rows'[t] = IF t = passOf THEN WithError(WithFinal(WithStatus(original,
             "stopped"), Cardinality(final)), FALSE) ELSE rows[t]
        /\ segments'[t] = segments[t]
    BY <1>10 DEF FinalizeClose, SaveSession, PassGoes, TypeOK, StoreTypeOK, WorkerTypeOK,
       StopTypeOK, PassTypeOK, RestTypeOK, storeVars, audioVars, workerVars, stopVars,
       passVars, mainVars, historyVars
  <2>2. /\ original \in Row
        /\ Cardinality(final) \in Nat
    BY <2>1, FS_CardinalityType DEF FiniteTranscripts, PassConsistent, PassReads, TypeOK,
       PassTypeOK
  <2>3. /\ WithStatus(original, "stopped") \in Row
    BY <2>1, <2>2, WithStatusIsRow DEF Statuses
  <2>4. /\ WithFinal(WithStatus(original, "stopped"), Cardinality(final)) \in Row
        /\ WithFinal(WithStatus(original, "stopped"),
             Cardinality(final)).transcript = "final"
    BY <2>1, <2>2, <2>3, WithFinalIsRow
  <2>5. /\ WithError(WithFinal(WithStatus(original, "stopped"), Cardinality(final)),
             FALSE) \in Row
        /\ WithError(WithFinal(WithStatus(original, "stopped"), Cardinality(final)),
             FALSE).transcript = "final"
    BY <2>1, <2>2, <2>3, <2>4, WithErrorIsRow
  <2>6. /\ (rows[t] # NoRow
             => rows'[t] # NoRow /\ rows'[t].transcript = rows[t].transcript)
    BY <2>1, <2>2, <2>3, <2>4, <2>5 DEF PassConsistent, PassReads, TypeOK, PassTypeOK
  <2>7. QED
    BY <2>1, <2>2, <2>3, <2>4, <2>5, <2>6 DEF OneTranscript, OfOnePass
<1>11. ASSUME NEW s \in Sessions, NEW title \in Titles, RenameLive(s, title)
      PROVE  OfOnePass(t)'
  BY <1>11, WithTitleIsRow, RowFields DEF RenameLive, SaveSession, storeVars,
     OneTranscript, OfOnePass, LiveIsRecording, TypeOK, StoreTypeOK, StopTypeOK,
     OneOwner, OwnedOnce
<1>12. ASSUME NEW s \in Sessions, NEW title \in Titles, RenameStored(s, title)
      PROVE  OfOnePass(t)'
  BY <1>12, WithTitleIsRow DEF RenameStored, RenameSession, storeVars, OneTranscript,
     OfOnePass, TypeOK, StoreTypeOK
<1>13. ASSUME DeleteRows
      PROVE  OfOnePass(t)'
  BY <1>13 DEF DeleteRows, DeleteSession, storeVars, OneTranscript, OfOnePass, TypeOK,
     StoreTypeOK, RestTypeOK
<1>14. ASSUME Crash
      PROVE  OfOnePass(t)'
  BY <1>14, WithStatusIsRow DEF Crash, RecoverInterrupted, PassGoes, storeVars,
     OneTranscript, OfOnePass, TypeOK, StoreTypeOK, Statuses
<1>15. ASSUME NEW s \in Sessions, NEW c \in Channels,
         Append(s, c) \/ Decode(s, c) \/ Notify(s, c) \/ WorkerEnds(s, c)
         \/ DrainGivesUp(s, c) \/ StopChannel(s, c) \/ JoinChannel(s, c)
      PROVE  OfOnePass(t)'
  <2>1. UNCHANGED <<rows, segments>>
    BY <1>15 DEF Append, Decode, Notify, WorkerEnds, DrainGivesUp, StopChannel,
       JoinChannel, StopRests, storeVars, audioVars, workerVars, stopVars, passVars,
       mainVars, historyVars
  <2>2. QED
    BY <2>1 DEF OneTranscript, OfOnePass, Finalizing, Deleting, OneOwner, OwnedOnce
<1>16. ASSUME NEW s \in Sessions,
         StopBegin(s) \/ StopCount(s) \/ StopFails(s) \/ FinalizeBegin(s)
         \/ SummaryBegin(s) \/ DeleteBegin(s)
      PROVE  OfOnePass(t)'
  <2>1. UNCHANGED <<rows, segments>>
    BY <1>16 DEF StopBegin, StopCount, StopFails, StopRests, FinalizeBegin, SummaryBegin,
       DeleteBegin, storeVars, audioVars, workerVars, stopVars, passVars, mainVars,
       historyVars
  <2>2. QED
    BY <2>1 DEF OneTranscript, OfOnePass, Finalizing, Deleting, OneOwner, OwnedOnce
<1>17. ASSUME FinalizeLoad \/ FinalizeSettle \/ FinalizeReturns \/ Summary
     \/ DeleteFiles \/ Quit
      PROVE  OfOnePass(t)'
  <2>1. UNCHANGED <<rows, segments>>
    BY <1>17 DEF FinalizeLoad, PassGoes, FinalizeSettle, FinalizeReturns, PassGoes,
       Summary, SaveSummary, PassGoes, DeleteFiles, Quit, storeVars, audioVars,
       workerVars, stopVars, passVars, mainVars, historyVars
  <2>2. QED
    BY <2>1 DEF OneTranscript, OfOnePass, Finalizing, Deleting, OneOwner, OwnedOnce
<1>18. ASSUME NEW c \in Channels,
         FinalizeChannel(c)
      PROVE  OfOnePass(t)'
  <2>1. UNCHANGED <<rows, segments>>
    BY <1>18 DEF FinalizeChannel, storeVars, audioVars, workerVars, stopVars, passVars,
       mainVars, historyVars
  <2>2. QED
    BY <2>1 DEF OneTranscript, OfOnePass, Finalizing, Deleting, OneOwner, OwnedOnce
<1>19. CASE UNCHANGED vars
  BY <1>19 DEF vars, storeVars, workerVars, stopVars, passVars, mainVars, OneTranscript,
     OfOnePass, Finalizing, Deleting, OneOwner, OwnedOnce
<1>20. QED
  BY <1>1, <1>2, <1>3, <1>4, <1>5, <1>6, <1>7, <1>8, <1>9, <1>10, <1>11, <1>12, <1>13,
     <1>14, <1>15, <1>16, <1>17, <1>18, <1>19
     DEF Next, WorkerStep, StopStep, PassStep, MainStep, UserStep

-----------------------------------------------------------------------------
(* The theorems.                                                                       *)

LEMMA InitInvariant ==
  ASSUME Init
  PROVE  IInv
<1>1. TypeOK
  <2>1. StoreTypeOK /\ AudioTypeOK
    BY RecorderAssumption DEF Init, StoreInit, StoreTypeOK, AudioTypeOK
  <2>2. WorkerTypeOK /\ StopTypeOK
    BY RecorderAssumption DEF Init, WorkerTypeOK, StopTypeOK, WorkerAt, StopAt
  <2>3. PassTypeOK
    BY DEF Init, PassTypeOK, PassAt
  <2>4. missed \in [Sessions -> SUBSET Segments] /\ captions \in [Sessions -> SUBSET Segments]
    BY DEF Init
  <2>5. named \in [Sessions -> Titles \cup {Untitled}]
    BY DEF Init
  <2>6. faults \in 0 .. MaxMishaps /\ crashes \in 0 .. MaxMishaps
    BY RecorderAssumption DEF Init
  <2>7. used = {} /\ mainAt \in MainAt /\ mainOf \in Sessions /\ quitting \in BOOLEAN
          /\ deleted = {}
    BY DEF Init, MainAt
  <2>8. RestTypeOK
    BY <2>4, <2>5, <2>6, <2>7 DEF RestTypeOK
  <2>9. QED
    BY <2>1, <2>2, <2>3, <2>8 DEF TypeOK
<1>2. FiniteTranscripts
  BY FS_EmptySet DEF Init, StoreInit, FiniteTranscripts
<1>3. FreshIds /\ OneOwner /\ WorkersOwned /\ PassConsistent
  BY DEF Init, StoreInit, FreshIds, OneOwner, OwnedOnce, WorkersOwned, WorkerOwned,
         PassConsistent, PassReads
<1>4. LiveIsRecording /\ OneTranscript
  BY DEF Init, StoreInit, LiveIsRecording, OneTranscript
<1>5. QED
  BY <1>1, <1>2, <1>3, <1>4 DEF IInv

LEMMA StepInvariant ==
  ASSUME IInv, [Next]_vars
  PROVE  IInv'
<1>1. /\ TypeOK /\ FiniteTranscripts /\ FreshIds /\ OneOwner
      /\ WorkersOwned /\ PassConsistent /\ LiveIsRecording /\ OneTranscript
  BY DEF IInv
<1>2. TypeOK'
  BY <1>1, StoreTypeOKStep, AudioTypeOKStep, WorkerTypeOKStep, StopTypeOKStep,
     PassTypeOKStep, RestTypeOKStep DEF TypeOK
<1>3. FiniteTranscripts'
  BY <1>1, FiniteTranscriptsStep
<1>4. FreshIds'
  BY <1>1, FreshIdsStep
<1>5. OneOwner'
  BY <1>1, OneOwnerStep
<1>6. WorkersOwned'
  BY <1>1, WorkersOwnedStep
<1>7. PassConsistent'
  BY <1>1, PassConsistentStep
<1>8. LiveIsRecording'
  BY <1>1, LiveIsRecordingStep
<1>9. OneTranscript'
  BY <1>1, OneTranscriptStep
<1>10. QED
  BY <1>2, <1>3, <1>4, <1>5, <1>6, <1>7, <1>8, <1>9 DEF IInv

\* The inductive invariant holds throughout.
THEOREM Invariance == Spec => []IInv
<1>1. Init => IInv
  BY InitInvariant
<1>2. IInv /\ [Next]_vars => IInv'
  BY StepInvariant
<1>3. QED
  BY <1>1, <1>2, PTL DEF Spec

\* Every row, copy of a row, segment and thread of recorder.rs keeps its type.
THEOREM TypeCorrect == Spec => []TypeOK
<1>1. IInv => TypeOK
  BY DEF IInv
<1>2. QED
  BY <1>1, Invariance, PTL

\* The session in Recorder.live and its row in the database agree, whatever fails.
THEOREM LiveMatchesStore == Spec => []LiveIsRecording
<1>1. IInv => LiveIsRecording
  BY DEF IInv
<1>2. QED
  BY <1>1, Invariance, PTL

\* No session ever mixes segments of the live captions with segments of the final pass, nor
\* has segments without a row.
THEOREM TranscriptIsOfOnePass == Spec => []OneTranscript
<1>1. IInv => OneTranscript
  BY DEF IInv
<1>2. QED
  BY <1>1, Invariance, PTL

\* One step either adds to a transcript, removes it with its row, or replaces it whole by
\* what the final pass made.
LEMMA TranscriptStep ==
  ASSUME IInv, [Next]_vars, NEW t \in Sessions
  PROVE  \/ segments[t] \subseteq segments'[t]
         \/ rows'[t] = NoRow
         \/ rows'[t].transcript = "final" /\ segments'[t] = final
<1> DEFINE Kind == \/ segments[t] \subseteq segments'[t]
                   \/ rows'[t] = NoRow
                   \/ rows'[t].transcript = "final" /\ segments'[t] = final
<1> USE DEF IInv, TypeOK, StoreTypeOK, PassTypeOK
<1>1. ASSUME NEW s \in Sessions, NEW c \in Channels, Deliver(s, c)
      PROVE  Kind
  BY <1>1 DEF Deliver, AddSegments, storeVars
<1>2. ASSUME DeleteRows
      PROVE  Kind
  BY <1>2 DEF DeleteRows, DeleteSession, storeVars
<1>3. ASSUME FinalizeReplace
      PROVE  Kind
  <2>1. \/ segments' = segments
        \/ /\ rows[passOf] # NoRow
           /\ rows' = [rows EXCEPT ![passOf] = WithFinal(rows[passOf], Cardinality(final))]
           /\ segments' = [segments EXCEPT ![passOf] = final]
    BY <1>3 DEF FinalizeReplace, ReplaceTranscript, storeVars
  <2>2. rows[passOf] # NoRow
            => WithFinal(rows[passOf], Cardinality(final)).transcript = "final"
    BY WithFinalIsRow, FS_CardinalityType DEF FiniteTranscripts
  <2>3. QED
    BY <2>1, <2>2
<1>4. ASSUME NEW s \in Sessions, NEW sources \in SUBSET Channels,
             Start(s, sources) \/ StartFails(s, sources)
      PROVE  Kind
  BY <1>4 DEF Start, StartFails, SaveSession, storeVars
<1>5. ASSUME NEW s \in Sessions, NEW c \in Channels,
             \/ Append(s, c) \/ Decode(s, c) \/ Notify(s, c) \/ WorkerEnds(s, c)
             \/ DrainGivesUp(s, c) \/ StopChannel(s, c) \/ JoinChannel(s, c) \/ FinalizeChannel(c)
      PROVE  Kind
  BY <1>5 DEF Append, Decode, Notify, WorkerEnds, DrainGivesUp, StopChannel, JoinChannel,
     FinalizeChannel, storeVars
<1>6. ASSUME NEW s \in Sessions,
             \/ StopBegin(s) \/ StopMark(s) \/ StopCount(s) \/ StopClose(s) \/ StopFails(s)
             \/ FinalizeBegin(s) \/ SummaryBegin(s) \/ DeleteBegin(s)
      PROVE  Kind
  BY <1>6 DEF StopBegin, StopMark, StopCount, StopClose, StopFails, FinalizeBegin,
     SummaryBegin, DeleteBegin, SaveSession, storeVars
<1>7. ASSUME NEW s \in Sessions, NEW title \in Titles,
             RenameLive(s, title) \/ RenameStored(s, title)
      PROVE  Kind
  BY <1>7 DEF RenameLive, RenameStored, SaveSession, RenameSession, storeVars
<1>8. ASSUME \/ FinalizeLoad \/ FinalizeMark \/ FinalizeSettle \/ FinalizeRestore
             \/ FinalizeFail \/ FinalizeClose \/ FinalizeReturns \/ Summary
      PROVE  Kind
  BY <1>8 DEF FinalizeLoad, FinalizeMark, FinalizeSettle, FinalizeRestore, FinalizeFail,
     FinalizeClose, FinalizeReturns, Summary, SaveSession, SaveSummary, storeVars
<1>9. ASSUME DeleteFiles \/ Quit \/ Crash
      PROVE  Kind
  BY <1>9 DEF DeleteFiles, Quit, Crash, RecoverInterrupted, storeVars
<1>10. CASE UNCHANGED vars
  BY <1>10 DEF vars, storeVars
<1> HIDE DEF IInv, TypeOK, StoreTypeOK, PassTypeOK
<1>11. QED
  BY <1>1, <1>2, <1>3, <1>4, <1>5, <1>6, <1>7, <1>8, <1>9, <1>10
     DEF Next, WorkerStep, StopStep, PassStep, MainStep, UserStep

\* A failed, cancelled or cut-off pass leaves the transcript as it was; a transcript is only
\* ever extended, replaced whole, or deleted with its session.
THEOREM TranscriptKept == Spec => TranscriptNeverShrinks
<1>1. IInv /\ [Next]_vars => [\A s \in Sessions :
                                \/ segments[s] \subseteq segments'[s]
                                \/ rows'[s] = NoRow
                                \/ rows'[s].transcript = "final" /\ segments'[s] = final]_vars
  BY TranscriptStep
<1>2. QED
  BY <1>1, Invariance, PTL DEF Spec, TranscriptNeverShrinks

-----------------------------------------------------------------------------
(* The promises to the user: a caption that was shown is in the transcript, a session the       *)
(* process is not working on does not say that it does, and a session that was closed has all   *)
(* of the meeting in its transcript.                                                            *)

\* No final pass has replaced the transcript of s, and nobody deleted it.
Live(s) == s \notin deleted /\ (rows[s] = NoRow \/ rows[s].transcript = "live")

\* What was shown is stored, and so is what a worker is about to show.
ShownIsStored(s) ==
    Live(s) =>
        /\ captions[s] \subseteq segments[s]
        /\ \A c \in Channels : worker[s][c] = "notify" => Batch(s, c) \subseteq segments[s]

AllShownIsStored == \A s \in Sessions : ShownIsStored(s)

-----------------------------------------------------------------------------
(* Captions.                                                                 *)

\* The row as the final pass leaves it in the transaction that replaces the transcript.
FinalRow(row) ==
    /\ WithFinal(row, Cardinality(final)) # NoRow
    /\ WithFinal(row, Cardinality(final)).transcript = "final"

LEMMA ReplacedIsFinal ==
  ASSUME IInv, rows[passOf] # NoRow
  PROVE  FinalRow(rows[passOf])
<1>1. rows[passOf] \in Row /\ Cardinality(final) \in Nat
  BY FS_CardinalityType DEF IInv, TypeOK, StoreTypeOK, PassTypeOK, FiniteTranscripts
<1>2. QED
  BY <1>1, WithFinalIsRow, RowFields DEF FinalRow

\* A transcript that is live was live before: whoever writes a row writes the transcript of
\* the row it has read, which is still the one the row names.
LEMMA LiveBefore ==
  ASSUME IInv, [Next]_vars, NEW t \in Sessions, Live(t)'
  PROVE  Live(t)
<1> USE StoreAssumption DEF IInv
<1> USE DEF Live
<1>1. ASSUME NEW s \in Sessions, NEW sources \in SUBSET Channels,
             Start(s, sources) \/ StartFails(s, sources)
      PROVE  Live(t)
  BY <1>1 DEF Start, StartFails, SaveSession, storeVars, historyVars, FreshIds, TypeOK,
     StoreTypeOK
<1>2. ASSUME NEW s \in Sessions, StopMark(s) \/ StopClose(s)
      PROVE  Live(t)
  BY <1>2 DEF StopMark, StopClose, SaveSession, storeVars, historyVars, OneOwner, OwnedOnce,
     TypeOK, StoreTypeOK
<1>3. ASSUME NEW s \in Sessions, NEW title \in Titles, RenameLive(s, title)
      PROVE  Live(t)
  BY <1>3 DEF RenameLive, SaveSession, storeVars, OneOwner, OwnedOnce, TypeOK, StoreTypeOK
<1>4. ASSUME NEW s \in Sessions, NEW title \in Titles, RenameStored(s, title)
      PROVE  Live(t)
  BY <1>4, WithTitleIsRow DEF RenameStored, RenameSession, TypeOK, StoreTypeOK
<1>5. CASE FinalizeMark
  BY <1>5, WithStatusIsRow DEF FinalizeMark, SaveSession, historyVars, PassConsistent,
     PassReads, TypeOK, StoreTypeOK, PassTypeOK, Statuses
<1>6. CASE FinalizeRestore
  BY <1>6 DEF FinalizeRestore, SaveSession, historyVars, PassConsistent, PassReads, TypeOK,
     StoreTypeOK, PassTypeOK
<1>7. CASE FinalizeFail
  <2>1. original \in Row
    BY <1>7 DEF FinalizeFail, PassConsistent, PassReads, TypeOK, PassTypeOK
  <2>2. /\ WithStatus(original, "stopped") \in Row
        /\ WithStatus(original, "stopped").transcript = original.transcript
    BY <2>1, WithStatusIsRow DEF Statuses
  <2>3. /\ WithError(WithStatus(original, "stopped"), TRUE) \in Row
        /\ WithError(WithStatus(original, "stopped"), TRUE).transcript = original.transcript
    BY <2>2, WithErrorIsRow
  <2>4. QED
    BY <1>7, <2>3, RowFields DEF FinalizeFail, SaveSession, historyVars, PassConsistent,
       PassReads,
       TypeOK, StoreTypeOK, PassTypeOK
<1>8. CASE FinalizeReplace
  <2>1. \/ rows' = rows
        \/ /\ rows[passOf] # NoRow
           /\ rows' = [rows EXCEPT ![passOf] = WithFinal(rows[passOf], Cardinality(final))]
    BY <1>8 DEF FinalizeReplace, ReplaceTranscript, storeVars
  <2>2. rows[passOf] # NoRow => FinalRow(rows[passOf])
    BY ReplacedIsFinal
  <2>3. QED
    BY <1>8, <2>1, <2>2 DEF FinalizeReplace, FinalRow, historyVars, TypeOK, StoreTypeOK,
       PassTypeOK
<1>9. CASE FinalizeClose
  <2>1. original \in Row /\ Cardinality(final) \in Nat
    BY <1>9, FS_CardinalityType DEF FinalizeClose, FiniteTranscripts, PassConsistent,
       PassReads, TypeOK, PassTypeOK
  <2>2. WithFinal(WithStatus(original, "stopped"), Cardinality(final)) \in Row
    BY <2>1, WithStatusIsRow, WithFinalIsRow DEF Statuses
  <2>3. WithFinal(WithStatus(original, "stopped"), Cardinality(final)).transcript = "final"
    BY <2>1, WithStatusIsRow, WithFinalIsRow DEF Statuses
  <2>4. /\ WithError(WithFinal(WithStatus(original, "stopped"),
                               Cardinality(final)), FALSE).transcript = "final"
        /\ WithError(WithFinal(WithStatus(original, "stopped"),
                               Cardinality(final)), FALSE) # NoRow
    BY <2>2, <2>3, WithErrorIsRow, RowFields
  <2>5. QED
    BY <1>9, <2>4 DEF FinalizeClose, SaveSession, historyVars, TypeOK, StoreTypeOK,
       PassTypeOK
<1>10. CASE DeleteRows
  BY <1>10 DEF DeleteRows, DeleteSession, storeVars, TypeOK, StoreTypeOK, RestTypeOK
<1>11. CASE Crash
  BY <1>11, WithStatusIsRow DEF Crash, RecoverInterrupted, historyVars, TypeOK, StoreTypeOK,
     Statuses
<1>12. CASE UNCHANGED <<rows, deleted>>
  BY <1>12
<1> HIDE DEF IInv, Live
<1>13. ASSUME NEW s \in Sessions, NEW c \in Channels,
              \/ Append(s, c) \/ Decode(s, c) \/ Deliver(s, c) \/ Notify(s, c)
              \/ WorkerEnds(s, c) \/ DrainGivesUp(s, c) \/ StopChannel(s, c)
              \/ JoinChannel(s, c) \/ FinalizeChannel(c)
       PROVE  UNCHANGED <<rows, deleted>>
  BY <1>13 DEF Append, Decode, Deliver, AddSegments, Notify, WorkerEnds, DrainGivesUp,
     StopChannel, JoinChannel, FinalizeChannel, storeVars, historyVars
<1>14. ASSUME NEW s \in Sessions,
              \/ StopBegin(s) \/ StopCount(s) \/ StopFails(s) \/ FinalizeBegin(s)
              \/ SummaryBegin(s) \/ DeleteBegin(s)
       PROVE  UNCHANGED <<rows, deleted>>
  BY <1>14 DEF StopBegin, StopCount, StopFails, FinalizeBegin, SummaryBegin, DeleteBegin,
     storeVars, historyVars
<1>15. ASSUME \/ FinalizeLoad \/ FinalizeSettle \/ FinalizeReturns \/ Summary
              \/ DeleteFiles \/ Quit \/ UNCHANGED vars
       PROVE  UNCHANGED <<rows, deleted>>
  BY <1>15 DEF FinalizeLoad, FinalizeSettle, FinalizeReturns, Summary, SaveSummary,
     DeleteFiles, Quit, vars, storeVars, historyVars
<1>16. QED
  BY <1>1, <1>2, <1>3, <1>4, <1>5, <1>6, <1>7, <1>8, <1>9, <1>10, <1>11, <1>12, <1>13,
     <1>14, <1>15
     DEF Next, WorkerStep, StopStep, PassStep, MainStep, UserStep

\* What a step does to the segments, the captions and the workers of a session whose
\* transcript stays live.
LEMMA ShownIsStoredStep ==
  ASSUME IInv, [Next]_vars, AllShownIsStored
  PROVE  AllShownIsStored'
<1> SUFFICES ASSUME NEW t \in Sessions, Live(t)'
             PROVE  /\ captions'[t] \subseteq segments'[t]
                    /\ \A c \in Channels :
                         worker'[t][c] = "notify" => Batch(t, c)' \subseteq segments'[t]
  BY DEF AllShownIsStored, ShownIsStored
<1> DEFINE Goal == /\ captions'[t] \subseteq segments'[t]
                   /\ \A c \in Channels :
                        worker'[t][c] = "notify" => Batch(t, c)' \subseteq segments'[t]
<1> DEFINE Same == UNCHANGED <<segments, captions, worker, batch>>
<1>1. /\ captions[t] \subseteq segments[t]
      /\ \A c \in Channels : worker[t][c] = "notify" => Batch(t, c) \subseteq segments[t]
  BY LiveBefore DEF AllShownIsStored, ShownIsStored
<1>2. TypeOK
  BY DEF IInv
<1>3. ASSUME NEW s \in Sessions, NEW c \in Channels, Deliver(s, c)
      PROVE  Goal
  <2>1. captions' = captions
    BY <1>3 DEF Deliver
  <2>2. CASE AddSegments(s, Batch(s, c)) /\ worker' = [worker EXCEPT ![s][c] = "notify"]
             /\ UNCHANGED batch
    <3>1. \A d \in Channels : Batch(t, d)' = Batch(t, d)
      BY <2>2 DEF Batch, SegmentsOf
    <3>2. segments'[t] = IF t = s THEN segments[t] \cup Batch(s, c) ELSE segments[t]
      BY <1>2, <2>2 DEF AddSegments, TypeOK, StoreTypeOK
    <3>3. \A d \in Channels :
             worker'[t][d] = IF t = s /\ d = c THEN "notify" ELSE worker[t][d]
      BY <1>2, <2>2 DEF TypeOK, WorkerTypeOK
    <3>4. QED
      BY <1>1, <2>1, <3>1, <3>2, <3>3
  <2>3. CASE /\ worker' = [worker EXCEPT ![s][c] = "waiting"]
             /\ batch' = [batch EXCEPT ![s][c] = {}]
             /\ UNCHANGED storeVars
    BY <1>1, <1>2, <2>1, <2>3 DEF Batch, SegmentsOf, storeVars, TypeOK, WorkerTypeOK
  <2>4. QED
    BY <1>3, <2>2, <2>3 DEF Deliver
<1>4. ASSUME NEW s \in Sessions, NEW c \in Channels, Notify(s, c)
      PROVE  Goal
  BY <1>1, <1>2, <1>4 DEF Notify, Batch, SegmentsOf, storeVars, TypeOK, StoreTypeOK,
     WorkerTypeOK, RestTypeOK
<1>5. ASSUME NEW s \in Sessions, NEW c \in Channels,
             Decode(s, c) \/ WorkerEnds(s, c) \/ DrainGivesUp(s, c)
      PROVE  Goal
  BY <1>1, <1>2, <1>5 DEF Decode, WorkerEnds, DrainGivesUp, Batch, SegmentsOf, storeVars,
     historyVars, TypeOK, WorkerTypeOK
<1>6. ASSUME NEW s \in Sessions, NEW sources \in SUBSET Channels, Start(s, sources)
      PROVE  Goal
  BY <1>1, <1>2, <1>6 DEF Start, SaveSession, Batch, SegmentsOf, storeVars, historyVars,
     TypeOK, WorkerTypeOK
<1>7. ASSUME DeleteRows
      PROVE  Goal
  BY <1>1, <1>2, <1>7 DEF DeleteRows, DeleteSession, Live, Batch, SegmentsOf, storeVars,
     workerVars, TypeOK, StoreTypeOK, RestTypeOK
<1>8. ASSUME FinalizeReplace
      PROVE  Goal
  <2>1. CASE UNCHANGED storeVars
    BY <1>1, <1>8, <2>1 DEF FinalizeReplace, Batch, SegmentsOf, storeVars, workerVars,
       historyVars
  <2>2. CASE ReplaceTranscript(passOf, final)
    <3>1. t # passOf
      BY <1>2, <2>2, ReplacedIsFinal DEF ReplaceTranscript, FinalRow, Live, TypeOK,
         StoreTypeOK, PassTypeOK
    <3>2. segments'[t] = segments[t]
      BY <1>2, <2>2, <3>1 DEF ReplaceTranscript, TypeOK, StoreTypeOK
    <3>3. QED
      BY <1>1, <1>8, <3>2 DEF FinalizeReplace, Batch, SegmentsOf, workerVars, historyVars
  <2>3. QED
    BY <1>8, <2>1, <2>2 DEF FinalizeReplace
<1>9. ASSUME Crash
      PROVE  Goal
  BY <1>1, <1>9 DEF Crash, RecoverInterrupted, historyVars
<1>10. ASSUME Same
       PROVE  Goal
  BY <1>1, <1>10 DEF Batch, SegmentsOf
<1>11. ASSUME NEW s \in Sessions, NEW c \in Channels,
              Append(s, c) \/ StopChannel(s, c) \/ JoinChannel(s, c) \/ FinalizeChannel(c)
       PROVE  Same
  BY <1>11 DEF Append, StopChannel, JoinChannel, FinalizeChannel, storeVars, workerVars,
     historyVars
<1>12. ASSUME NEW s \in Sessions,
              \/ StopBegin(s) \/ StopMark(s) \/ StopCount(s) \/ StopClose(s) \/ StopFails(s)
              \/ FinalizeBegin(s) \/ SummaryBegin(s) \/ DeleteBegin(s)
       PROVE  Same
  BY <1>12 DEF StopBegin, StopMark, StopCount, StopClose, StopFails, FinalizeBegin,
     SummaryBegin, DeleteBegin, SaveSession, storeVars, workerVars, historyVars
<1>13. ASSUME NEW s \in Sessions, NEW title \in Titles,
              RenameLive(s, title) \/ RenameStored(s, title)
       PROVE  Same
  BY <1>13 DEF RenameLive, RenameStored, SaveSession, RenameSession, storeVars, workerVars
<1>14. ASSUME \/ FinalizeLoad \/ FinalizeMark \/ FinalizeSettle \/ FinalizeRestore
              \/ FinalizeFail \/ FinalizeClose \/ FinalizeReturns \/ Summary
       PROVE  Same
  BY <1>14 DEF FinalizeLoad, FinalizeMark, FinalizeSettle, FinalizeRestore, FinalizeFail,
     FinalizeClose, FinalizeReturns, Summary, SaveSession, SaveSummary, storeVars,
     workerVars, historyVars
<1>15. ASSUME DeleteFiles \/ Quit \/ UNCHANGED vars
       PROVE  Same
  BY <1>15 DEF DeleteFiles, Quit, vars, storeVars, workerVars, historyVars
<1>16. ASSUME NEW s \in Sessions, NEW sources \in SUBSET Channels, StartFails(s, sources)
       PROVE  Same
  BY <1>16 DEF StartFails, SaveSession, storeVars, workerVars, historyVars
<1> HIDE DEF Goal, Same
<1>17. ASSUME NEW s \in Sessions, UserStep(s)
       PROVE  Goal
  BY <1>6, <1>10, <1>11, <1>12, <1>13, <1>16, <1>17 DEF UserStep
<1>18. ASSUME NEW s \in Sessions, StopStep(s)
       PROVE  Goal
  BY <1>10, <1>11, <1>12, <1>18 DEF StopStep
<1>19. ASSUME NEW s \in Sessions, NEW c \in Channels, WorkerStep(s, c)
       PROVE  Goal
  BY <1>3, <1>4, <1>5, <1>19 DEF WorkerStep
<1>20. ASSUME PassStep
      PROVE  Goal
  BY <1>8, <1>10, <1>11, <1>14, <1>20 DEF PassStep
<1>21. Goal
  BY <1>7, <1>9, <1>10, <1>15, <1>17, <1>18, <1>19, <1>20 DEF Next, MainStep
<1>22. QED
  BY <1>21 DEF Goal

\* What the pipelines of a live session keep in memory is what the table has and what is on
\* its way there, but for the batches whose write failed.
ViewIsStored(s) ==
    live[s] # NoRow =>
        /\ segments[s] \subseteq memory[s]
        /\ memory[s] \subseteq segments[s] \cup Delivering(s) \cup missed[s]
        /\ \A c \in Channels : worker[s][c] = "deliver" => Batch(s, c) \subseteq memory[s]

AllViewsAreStored == \A s \in Sessions : ViewIsStored(s)

\* Only the workers of t and its start write what the view of t is made of.
LEMMA ViewIsStoredStep ==
  ASSUME IInv, [Next]_vars, AllViewsAreStored
  PROVE  AllViewsAreStored'
<1> SUFFICES ASSUME NEW t \in Sessions
             PROVE  ViewIsStored(t)'
  BY DEF AllViewsAreStored
<1> DEFINE Goal == ViewIsStored(t)'
           Same == /\ live'[t] # NoRow => live[t] # NoRow
                   /\ UNCHANGED <<segments, memory, missed, worker, batch>>
<1>1. TypeOK /\ FreshIds /\ OneOwner
  BY DEF IInv
<1>2. ViewIsStored(t)
  BY DEF AllViewsAreStored
<1>3. ASSUME NEW s \in Sessions, NEW sources \in SUBSET Channels, Start(s, sources)
      PROVE  Goal
  <2>1. /\ segments' = segments /\ missed' = missed /\ batch' = batch
        /\ memory' = [memory EXCEPT ![s] = {}]
        /\ live' = [live EXCEPT ![s] = NewRow(sources)]
        /\ worker' = [worker EXCEPT ![s] =
                         [c \in Channels |-> IF c \in sources THEN "waiting" ELSE "off"]]
    BY <1>3 DEF Start, SaveSession, historyVars
  <2>2. CASE t = s
    <3>1. segments'[t] = {} /\ memory'[t] = {}
      BY <1>1, <1>3, <2>1, <2>2 DEF Start, FreshIds, TypeOK, WorkerTypeOK
    <3>2. \A c \in Channels : worker'[t][c] # "deliver"
      BY <1>1, <2>1, <2>2 DEF TypeOK, WorkerTypeOK
    <3>3. QED
      BY <3>1, <3>2 DEF ViewIsStored
  <2>3. CASE t # s
    <3>1. /\ live'[t] = live[t] /\ memory'[t] = memory[t] /\ worker'[t] = worker[t]
      BY <1>1, <2>1, <2>3 DEF TypeOK, WorkerTypeOK, StopTypeOK
    <3>2. Delivering(t)' = Delivering(t) /\ \A c \in Channels : Batch(t, c)' = Batch(t, c)
      BY <2>1, <3>1 DEF Delivering, Batch, SegmentsOf
    <3>3. QED
      BY <1>2, <2>1, <3>1, <3>2 DEF ViewIsStored
  <2>4. QED
    BY <2>2, <2>3
<1>4. ASSUME NEW s \in Sessions, NEW c \in Channels, Decode(s, c)
      PROVE  Goal
  <2>1. PICK upto \in Heard(s, c, length[s][c]) :
          \/ /\ worker' = [worker EXCEPT ![s][c] = "deliver"]
             /\ batch' = [batch EXCEPT ![s][c] = Heard(s, c, upto)]
             /\ memory' = [memory EXCEPT ![s] =
                              @ \cup SegmentsOf("live", c, Heard(s, c, upto))]
             /\ missed' = missed
          \/ /\ missed' = [missed EXCEPT ![s] =
                              @ \cup SegmentsOf("live", c, Heard(s, c, upto))]
             /\ UNCHANGED <<worker, batch, memory>>
    BY <1>4 DEF Decode
  <2>2. live' = live /\ segments' = segments /\ worker[s][c] = "waiting"
    BY <1>4 DEF Decode, storeVars
  <2>3. CASE UNCHANGED <<worker, batch, memory>> /\ missed[t] \subseteq missed'[t]
    <3>1. Delivering(t)' = Delivering(t) /\ \A d \in Channels : Batch(t, d)' = Batch(t, d)
      BY <2>3 DEF Delivering, Batch, SegmentsOf
    <3>2. QED
      BY <1>2, <2>2, <2>3, <3>1 DEF ViewIsStored
  <2>4. CASE /\ worker' = [worker EXCEPT ![s][c] = "deliver"]
             /\ batch' = [batch EXCEPT ![s][c] = Heard(s, c, upto)]
             /\ memory' = [memory EXCEPT ![s] =
                              @ \cup SegmentsOf("live", c, Heard(s, c, upto))]
             /\ missed' = missed
    <3> DEFINE new == SegmentsOf("live", c, Heard(s, c, upto))
    <3>1. \A d \in Channels :
            /\ worker'[t][d] = IF t = s /\ d = c THEN "deliver" ELSE worker[t][d]
            /\ batch'[t][d] = IF t = s /\ d = c THEN Heard(s, c, upto) ELSE batch[t][d]
      BY <1>1, <2>4 DEF TypeOK, WorkerTypeOK
    <3>2. \A d \in Channels : Batch(t, d)' = IF t = s /\ d = c THEN new ELSE Batch(t, d)
      BY <3>1 DEF Batch, SegmentsOf
    <3>3. memory'[t] = IF t = s THEN memory[t] \cup new ELSE memory[t]
      BY <1>1, <2>4 DEF TypeOK, WorkerTypeOK
    <3>4. Delivering(t) \subseteq Delivering(t)'
      BY <2>2, <3>1, <3>2 DEF Delivering
    <3>5. t = s => new \subseteq Delivering(t)'
      BY <3>1, <3>2 DEF Delivering
    <3>6. QED
      BY <1>2, <2>2, <2>4, <3>1, <3>2, <3>3, <3>4, <3>5 DEF ViewIsStored
  <2>5. missed[t] \subseteq missed'[t]
    BY <1>1, <2>1 DEF TypeOK, RestTypeOK
  <2>6. QED
    BY <2>1, <2>3, <2>4, <2>5
<1>5. ASSUME NEW s \in Sessions, NEW c \in Channels, Deliver(s, c)
      PROVE  Goal
  <2>1. /\ live' = live /\ memory' = memory /\ worker[s][c] = "deliver"
        /\ \/ /\ segments' = [segments EXCEPT ![s] = @ \cup Batch(s, c)]
              /\ worker' = [worker EXCEPT ![s][c] = "notify"]
              /\ batch' = batch /\ missed' = missed
           \/ /\ worker' = [worker EXCEPT ![s][c] = "waiting"]
              /\ batch' = [batch EXCEPT ![s][c] = {}]
              /\ missed' = [missed EXCEPT ![s] = @ \cup Batch(s, c)]
              /\ segments' = segments
    BY <1>5 DEF Deliver, AddSegments, storeVars
  <2>2. \A d \in Channels :
          /\ worker'[t][d] # worker[t][d] => t = s /\ d = c
          /\ worker'[s][c] # "deliver"
          /\ batch'[t][d] # batch[t][d] => t = s /\ d = c
    BY <1>1, <2>1 DEF TypeOK, WorkerTypeOK
  <2>3. \A d \in Channels : Batch(t, d)' # Batch(t, d) => t = s /\ d = c
    BY <2>2 DEF Batch, SegmentsOf
  <2>4. /\ segments[t] \subseteq segments'[t] /\ missed[t] \subseteq missed'[t]
        /\ t = s => Batch(s, c) \subseteq segments'[t] \cup missed'[t]
        /\ segments'[t] \subseteq segments[t] \cup IF t = s THEN Batch(s, c) ELSE {}
    BY <1>1, <2>1 DEF TypeOK, StoreTypeOK, RestTypeOK
  <2>5. Delivering(t) \subseteq Delivering(t)' \cup IF t = s THEN Batch(s, c) ELSE {}
    BY <2>2, <2>3 DEF Delivering
  <2>6. QED
    BY <1>2, <2>1, <2>2, <2>3, <2>4, <2>5 DEF ViewIsStored
<1>6. ASSUME NEW s \in Sessions, NEW c \in Channels,
             Notify(s, c) \/ WorkerEnds(s, c) \/ DrainGivesUp(s, c)
      PROVE  Goal
  <2>1. UNCHANGED <<live, segments, memory>> /\ worker[s][c] # "deliver"
    BY <1>6 DEF Notify, WorkerEnds, DrainGivesUp, storeVars
  <2>2. /\ \/ worker' = [worker EXCEPT ![s][c] = "waiting"]
           \/ worker' = [worker EXCEPT ![s][c] = "ended"]
        /\ \/ batch' = batch
           \/ batch' = [batch EXCEPT ![s][c] = {}]
    BY <1>6 DEF Notify, WorkerEnds, DrainGivesUp
  <2>3. missed[t] \subseteq missed'[t]
    BY <1>1, <1>6 DEF Notify, WorkerEnds, DrainGivesUp, historyVars, TypeOK, RestTypeOK
  <2>4. \A d \in Channels :
          /\ worker'[t][d] = "deliver" <=> worker[t][d] = "deliver"
          /\ worker[t][d] = "deliver" => batch'[t][d] = batch[t][d]
    <3>1. ASSUME NEW d \in Channels
          PROVE  /\ t # s \/ d # c => worker'[t][d] = worker[t][d]
                 /\ t = s /\ d = c => worker'[t][d] # "deliver"
      BY <1>1, <2>2 DEF TypeOK, WorkerTypeOK
    <3>2. ASSUME NEW d \in Channels, t # s \/ d # c
          PROVE  batch'[t][d] = batch[t][d]
      <4>1. CASE batch' = batch
        BY <4>1
      <4>2. CASE batch' = [batch EXCEPT ![s][c] = {}]
        <5>1. t # s => batch'[t] = batch[t]
          BY <1>1, <4>2 DEF TypeOK, WorkerTypeOK
        <5>2. t = s => batch'[t] = [batch[t] EXCEPT ![c] = {}]
          BY <1>1, <4>2 DEF TypeOK, WorkerTypeOK
        <5>3. QED
          BY <1>1, <3>2, <5>1, <5>2 DEF TypeOK, WorkerTypeOK
      <4>3. QED
        BY <2>2, <4>1, <4>2
    <3>3. QED
      BY <2>1, <3>1, <3>2
  <2>5. \A d \in Channels : worker[t][d] = "deliver" => Batch(t, d)' = Batch(t, d)
    BY <2>4 DEF Batch, SegmentsOf
  <2>6. Delivering(t)' = Delivering(t)
    BY <2>4, <2>5 DEF Delivering
  <2>7. QED
    BY <1>2, <2>1, <2>3, <2>4, <2>5, <2>6 DEF ViewIsStored
<1>7. CASE FinalizeReplace
  <2>1. live[t] # NoRow => segments'[t] = segments[t]
    BY <1>1, <1>7 DEF FinalizeReplace, ReplaceTranscript, storeVars, OneOwner, OwnedOnce,
       Finalizing, TypeOK, StoreTypeOK, PassTypeOK
  <2>2. UNCHANGED <<live, memory, missed, worker, batch>>
    BY <1>7 DEF FinalizeReplace, workerVars, historyVars
  <2>3. Delivering(t)' = Delivering(t) /\ \A c \in Channels : Batch(t, c)' = Batch(t, c)
    BY <2>2 DEF Delivering, Batch, SegmentsOf
  <2>4. QED
    BY <1>2, <2>1, <2>2, <2>3 DEF ViewIsStored
<1>8. CASE DeleteRows
  <2>1. live[t] # NoRow => segments'[t] = segments[t]
    BY <1>1, <1>8 DEF DeleteRows, DeleteSession, storeVars, OneOwner, OwnedOnce, Deleting,
       TypeOK, StoreTypeOK
  <2>2. UNCHANGED <<live, memory, missed, worker, batch>>
    BY <1>8 DEF DeleteRows, workerVars
  <2>3. Delivering(t)' = Delivering(t) /\ \A c \in Channels : Batch(t, c)' = Batch(t, c)
    BY <2>2 DEF Delivering, Batch, SegmentsOf
  <2>4. QED
    BY <1>2, <2>1, <2>2, <2>3 DEF ViewIsStored
<1>9. CASE Crash
  BY <1>9 DEF Crash, ViewIsStored
<1>10. ASSUME Same
       PROVE  Goal
  <2>1. Delivering(t)' = Delivering(t) /\ \A c \in Channels : Batch(t, c)' = Batch(t, c)
    BY <1>10 DEF Delivering, Batch, SegmentsOf
  <2>2. QED
    BY <1>2, <1>10, <2>1 DEF ViewIsStored
<1>11. ASSUME NEW s \in Sessions, NEW c \in Channels,
              Append(s, c) \/ StopChannel(s, c) \/ JoinChannel(s, c)
       PROVE  Same
  BY <1>11 DEF Append, StopChannel, JoinChannel, storeVars, workerVars, historyVars
<1>12. ASSUME NEW s \in Sessions,
              \/ StopMark(s) \/ StopCount(s) \/ StopClose(s) \/ StopFails(s)
              \/ FinalizeBegin(s) \/ SummaryBegin(s) \/ DeleteBegin(s)
       PROVE  Same
  BY <1>12 DEF StopMark, StopCount, StopClose, StopFails, FinalizeBegin,
     SummaryBegin, DeleteBegin, SaveSession, storeVars, workerVars, historyVars
<1>13. ASSUME NEW s \in Sessions, NEW title \in Titles,
              RenameLive(s, title) \/ RenameStored(s, title)
       PROVE  Same
  BY <1>1, <1>13 DEF RenameLive, RenameStored, SaveSession, RenameSession,
     storeVars, workerVars, historyVars, TypeOK, StopTypeOK
<1>14. ASSUME \/ FinalizeLoad \/ FinalizeMark \/ FinalizeSettle \/ FinalizeRestore
              \/ FinalizeFail \/ FinalizeClose \/ FinalizeReturns \/ Summary
       PROVE  Same
  BY <1>14 DEF FinalizeLoad, FinalizeMark, FinalizeSettle, FinalizeRestore, FinalizeFail,
     FinalizeClose, FinalizeReturns, Summary, SaveSession, SaveSummary, storeVars,
     workerVars, historyVars
<1>15. ASSUME DeleteFiles \/ Quit \/ UNCHANGED vars
       PROVE  Same
  BY <1>15 DEF DeleteFiles, Quit, vars, storeVars, workerVars, historyVars
<1>16. ASSUME NEW s \in Sessions, NEW sources \in SUBSET Channels, StartFails(s, sources)
       PROVE  Same
  BY <1>16 DEF StartFails, SaveSession, storeVars, workerVars, historyVars
<1>17. ASSUME NEW c \in Channels, FinalizeChannel(c)
       PROVE  Same
  BY <1>17 DEF FinalizeChannel, storeVars, workerVars, historyVars
<1> HIDE DEF Goal, Same
<1>18. ASSUME NEW s \in Sessions, UserStep(s)
       PROVE  Goal
  <2>1. ASSUME StopBegin(s)
        PROVE  Same
    BY <1>1, <2>1 DEF StopBegin, Same, storeVars, workerVars, historyVars, TypeOK,
       StopTypeOK
  <2>2. QED
    BY <1>3, <1>10, <1>11, <1>12, <1>13, <1>16, <1>18, <2>1 DEF UserStep
<1>19. ASSUME NEW s \in Sessions, StopStep(s)
       PROVE  Goal
  BY <1>10, <1>11, <1>12, <1>19 DEF StopStep
<1>20. ASSUME NEW s \in Sessions, NEW c \in Channels, WorkerStep(s, c)
       PROVE  Goal
  BY <1>4, <1>5, <1>6, <1>20 DEF WorkerStep
<1>21. ASSUME PassStep
       PROVE  Goal
  <2>1. FinalizeReplace \/ Same
    BY <1>14, <1>17, <1>21 DEF PassStep
  <2>2. FinalizeReplace => Goal
    BY <1>7 DEF Goal
  <2>3. QED
    BY <1>10, <2>1, <2>2
<1>22. Goal
  <2>1. (DeleteRows => Goal) /\ (Crash => Goal)
    BY <1>8, <1>9 DEF Goal
  <2>2. QED
    BY <1>10, <1>15, <1>18, <1>19, <1>20, <1>21, <2>1 DEF Next, MainStep
<1>23. QED
  BY <1>22 DEF Goal

\* Whatever fails, dies, is stopped or is renamed in between: a caption that was pushed is in
\* the table until the final pass replaces the transcript or the session is deleted, and what
\* the panel pulls of a live session is in the table, on its way there, or in a batch whose
\* write failed.
THEOREM CaptionsAreKept == Spec => []CaptionsArePersisted
<1>1. Init => AllShownIsStored /\ AllViewsAreStored
  BY DEF Init, StoreInit, AllShownIsStored, ShownIsStored, AllViewsAreStored, ViewIsStored
<1>2. IInv /\ AllShownIsStored /\ [Next]_vars => AllShownIsStored'
  BY ShownIsStoredStep
<1>3. IInv /\ AllViewsAreStored /\ [Next]_vars => AllViewsAreStored'
  BY ViewIsStoredStep
<1>4. AllShownIsStored /\ AllViewsAreStored => CaptionsArePersisted
  BY DEF AllShownIsStored, ShownIsStored, AllViewsAreStored, ViewIsStored, View, Live,
     CaptionsArePersisted, Kept
<1>5. QED
  BY <1>1, <1>2, <1>3, <1>4, Invariance, PTL DEF Spec

-----------------------------------------------------------------------------
(* Owners.                                                                   *)

\* The row of s says that somebody is working on it.
Busy(s) == rows[s] # NoRow /\ rows[s].status \in MidFlight

\* A summary owns no session, and a stop that failed would own one without closing it.
HasOwner(s) == Busy(s) => live[s] # NoRow \/ stopAt[s] # "idle" \/ Finalizing(s)

\* finalize starts from a session nobody is working on and keeps a copy of such a row: what
\* it restores when it is cancelled does not say otherwise.
PassFromClosed ==
    /\ passAt = "load" => ~Busy(passOf)
    /\ passAt \notin {"idle", "load", "summary"} => original.status \notin MidFlight

OwnerInv ==
    /\ \A s \in Sessions : HasOwner(s)
    /\ PassFromClosed
    /\ \A s \in Sessions : stopAt[s] # "drop"

LEMMA NoFaults ==
  ASSUME faults' = 0, TypeOK
  PROVE  ~Fault
BY DEF TypeOK, RestTypeOK, Fault

\* Calls that failed are counted and never forgotten.
LEMMA FaultsStay ==
  ASSUME TypeOK, [Next]_vars, faults' = 0
  PROVE  faults = 0
<1> SUFFICES Fault \/ NoFault
  BY DEF Fault, NoFault, TypeOK, RestTypeOK
<1>1. ASSUME NEW s \in Sessions, NEW sources \in SUBSET Channels,
             Start(s, sources) \/ StartFails(s, sources)
      PROVE  Fault \/ NoFault
  BY <1>1 DEF Start, StartFails, NoFault
<1>2. ASSUME NEW s \in Sessions, NEW c \in Channels,
             \/ Append(s, c) \/ WorkerStep(s, c) \/ StopChannel(s, c) \/ JoinChannel(s, c)
             \/ FinalizeChannel(c)
      PROVE  Fault \/ NoFault
  BY <1>2 DEF Append, WorkerStep, Decode, Deliver, Notify, WorkerEnds, DrainGivesUp,
     StopChannel, JoinChannel, FinalizeChannel, NoFault
<1>3. ASSUME NEW s \in Sessions,
             \/ StopBegin(s) \/ StopMark(s) \/ StopCount(s) \/ StopClose(s) \/ StopFails(s)
             \/ FinalizeBegin(s) \/ SummaryBegin(s) \/ DeleteBegin(s)
      PROVE  Fault \/ NoFault
  BY <1>3 DEF StopBegin, StopMark, StopCount, StopClose, StopFails, FinalizeBegin,
     SummaryBegin, DeleteBegin, NoFault
<1>4. ASSUME NEW s \in Sessions, NEW title \in Titles,
             RenameLive(s, title) \/ RenameStored(s, title)
      PROVE  Fault \/ NoFault
  BY <1>4 DEF RenameLive, RenameStored, NoFault
<1>5. ASSUME \/ FinalizeLoad \/ FinalizeMark \/ FinalizeSettle \/ FinalizeRestore
             \/ FinalizeFail \/ FinalizeReplace \/ FinalizeClose \/ FinalizeReturns \/ Summary
             \/ DeleteRows \/ DeleteFiles \/ Quit \/ Crash \/ UNCHANGED vars
      PROVE  Fault \/ NoFault
  BY <1>5 DEF FinalizeLoad, FinalizeMark, FinalizeSettle, FinalizeRestore, FinalizeFail,
     FinalizeReplace, FinalizeClose, FinalizeReturns, Summary, DeleteRows, DeleteFiles,
     Quit, Crash, vars, NoFault
<1>6. (\E c \in Channels : FinalizeChannel(c)) => Fault \/ NoFault
  BY <1>2 DEF TypeOK, PassTypeOK
<1>7. QED
  BY <1>1, <1>2, <1>3, <1>4, <1>5, <1>6
     DEF Next, StopStep, PassStep, MainStep, UserStep

\* Each of the five ways finalize ends leaves a row that is closed, or none.
LEMMA OwnerPassStep ==
  ASSUME faults' = 0, IInv, OwnerInv, PassStep, NEW t \in Sessions
  PROVE  HasOwner(t)' /\ PassFromClosed' /\ stopAt'[t] # "drop"
<1> DEFINE Goal == HasOwner(t)' /\ PassFromClosed' /\ stopAt'[t] # "drop"
<1>1. TypeOK /\ PassConsistent /\ ~Fault
  BY NoFaults DEF IInv
<1>2. passAt \notin {"idle", "load", "summary"} => original \in Row
  BY <1>1 DEF PassConsistent, PassReads, TypeOK, PassTypeOK
<1> USE <1>1 DEF OwnerInv, HasOwner, PassFromClosed, Busy, Finalizing, stopVars, storeVars,
        TypeOK, StoreTypeOK, PassTypeOK, StopTypeOK
<1>3. CASE FinalizeLoad
  BY <1>3 DEF FinalizeLoad, PassGoes
<1>4. CASE FinalizeMark
  <2>1. /\ WithStatus(original, "finalizing").status = "finalizing"
        /\ WithStatus(original, "finalizing") # NoRow
    BY <1>2, <1>4, WithStatusIsRow, RowFields DEF FinalizeMark, Statuses
  <2>2. QED
    BY <1>4, <2>1 DEF FinalizeMark, SaveSession
<1>5. ASSUME NEW c \in Channels, FinalizeChannel(c)
      PROVE  Goal
  BY <1>5 DEF FinalizeChannel
<1>6. CASE FinalizeSettle
  BY <1>6 DEF FinalizeSettle
<1>7. CASE FinalizeRestore
  BY <1>7 DEF FinalizeRestore, SaveSession, PassGoes
<1>8. CASE FinalizeFail
  <2>1. /\ WithStatus(original, "stopped") \in Row
        /\ WithStatus(original, "stopped").status = "stopped"
    BY <1>2, <1>8, WithStatusIsRow DEF FinalizeFail, Statuses
  <2>2. WithError(WithStatus(original, "stopped"), TRUE).status = "stopped"
    BY <2>1, WithErrorIsRow
  <2>3. QED
    BY <1>8, <2>2 DEF FinalizeFail, SaveSession, PassGoes, MidFlight
<1>9. CASE FinalizeReplace
  BY <1>9 DEF FinalizeReplace, ReplaceTranscript, PassGoes
<1>10. CASE FinalizeClose
  <2>1. Cardinality(final) \in Nat
    BY FS_CardinalityType DEF IInv, FiniteTranscripts
  <2>2. /\ WithStatus(original, "stopped") \in Row
        /\ WithStatus(original, "stopped").status = "stopped"
    BY <1>2, <1>10, WithStatusIsRow DEF FinalizeClose, Statuses
  <2>3. /\ WithFinal(WithStatus(original, "stopped"), Cardinality(final)) \in Row
        /\ WithFinal(WithStatus(original, "stopped"), Cardinality(final)).status = "stopped"
    BY <2>1, <2>2, WithFinalIsRow
  <2>4. WithError(WithFinal(WithStatus(original, "stopped"),
                            Cardinality(final)), FALSE).status = "stopped"
    BY <2>3, WithErrorIsRow
  <2>5. QED
    BY <1>10, <2>4 DEF FinalizeClose, SaveSession, PassGoes, MidFlight
<1>11. CASE FinalizeReturns
  BY <1>11 DEF FinalizeReturns
<1>12. CASE Summary
  BY <1>12 DEF Summary, SaveSummary, PassGoes
<1>13. QED
  BY <1>3, <1>4, <1>5, <1>6, <1>7, <1>8, <1>9, <1>10, <1>11, <1>12 DEF PassStep

LEMMA OwnerStopStep ==
  ASSUME faults' = 0, IInv, OwnerInv, NEW s \in Sessions, StopStep(s), NEW t \in Sessions
  PROVE  HasOwner(t)' /\ PassFromClosed' /\ stopAt'[t] # "drop"
<1> DEFINE Goal == HasOwner(t)' /\ PassFromClosed' /\ stopAt'[t] # "drop"
<1>1. TypeOK /\ OneOwner /\ ~Fault
  BY NoFaults DEF IInv
<1> USE <1>1 DEF OwnerInv, HasOwner, PassFromClosed, Busy, Finalizing, OneOwner, OwnedOnce,
        passVars, storeVars, TypeOK, StoreTypeOK, PassTypeOK, StopTypeOK
<1>2. CASE StopMark(s)
  BY <1>2 DEF StopMark, SaveSession
<1>3. ASSUME NEW c \in Channels, StopChannel(s, c)
      PROVE  Goal
  BY <1>3 DEF StopChannel, stopVars
<1>4. ASSUME NEW c \in Channels, JoinChannel(s, c)
      PROVE  Goal
  BY <1>4 DEF JoinChannel
<1>5. CASE StopCount(s)
  BY <1>5 DEF StopCount
<1>6. CASE StopClose(s)
  <2>1. WithStatus(stopCopy[s], "stopped").status = "stopped"
    BY <1>6, WithStatusIsRow DEF StopClose, Statuses
  <2>2. QED
    BY <1>6, <2>1 DEF StopClose, SaveSession, StopRests, MidFlight
<1>7. CASE StopFails(s)
  BY <1>7 DEF StopFails
<1>8. QED
  BY <1>2, <1>3, <1>4, <1>5, <1>6, <1>7 DEF StopStep

LEMMA OwnerUserStep ==
  ASSUME faults' = 0, IInv, OwnerInv, NEW s \in Sessions, UserStep(s), NEW t \in Sessions
  PROVE  HasOwner(t)' /\ PassFromClosed' /\ stopAt'[t] # "drop"
<1> DEFINE Goal == HasOwner(t)' /\ PassFromClosed' /\ stopAt'[t] # "drop"
<1>1. TypeOK /\ OneOwner /\ FreshIds /\ ~Fault
  BY NoFaults DEF IInv
<1> USE <1>1 DEF OwnerInv, HasOwner, PassFromClosed, Busy, Finalizing, OneOwner, OwnedOnce,
        passVars, storeVars, stopVars, TypeOK, StoreTypeOK, PassTypeOK, StopTypeOK
<1>2. ASSUME NEW sources \in SUBSET Channels, Start(s, sources)
      PROVE  Goal
  BY <1>2, NewRowIsRow, RowFields DEF Start, SaveSession, FreshIds
<1>3. ASSUME NEW sources \in SUBSET Channels, StartFails(s, sources)
      PROVE  Goal
  BY <1>3 DEF StartFails
<1>4. ASSUME NEW c \in Channels, Append(s, c)
      PROVE  Goal
  BY <1>4 DEF Append
<1>5. CASE StopBegin(s)
  BY <1>5 DEF StopBegin
<1>6. CASE FinalizeBegin(s)
  BY <1>6 DEF FinalizeBegin, MidFlight
<1>7. CASE SummaryBegin(s)
  BY <1>7 DEF SummaryBegin
<1>8. CASE DeleteBegin(s)
  BY <1>8 DEF DeleteBegin
<1>9. ASSUME NEW title \in Titles, RenameLive(s, title)
      PROVE  Goal
  <2>1. WithTitle(live[s], title) # NoRow
    BY <1>9, WithTitleIsRow, RowFields DEF RenameLive
  <2>2. QED
    BY <1>9, <2>1 DEF RenameLive, SaveSession
<1>10. ASSUME NEW title \in Titles, RenameStored(s, title)
       PROVE  Goal
  <2>1. WithTitle(rows[s], title).status = rows[s].status
    BY <1>10, WithTitleIsRow DEF RenameStored
  <2>2. QED
    BY <1>10, <2>1 DEF RenameStored, RenameSession
<1>11. QED
  BY <1>2, <1>3, <1>4, <1>5, <1>6, <1>7, <1>8, <1>9, <1>10 DEF UserStep

LEMMA OwnerStep ==
  ASSUME faults' = 0, IInv, OwnerInv, [Next]_vars
  PROVE  OwnerInv'
<1> SUFFICES ASSUME NEW t \in Sessions
             PROVE  HasOwner(t)' /\ PassFromClosed' /\ stopAt'[t] # "drop"
  <2>1. \E t \in Sessions : TRUE
    BY DEF IInv, TypeOK, PassTypeOK
  <2>2. QED
    BY <2>1 DEF OwnerInv
<1> DEFINE Goal == HasOwner(t)' /\ PassFromClosed' /\ stopAt'[t] # "drop"
<1>1. TypeOK
  BY DEF IInv
<1>2. ASSUME NEW s \in Sessions, NEW c \in Channels, WorkerStep(s, c)
      PROVE  UNCHANGED <<rows, live, stopVars, passVars>>
  BY <1>2 DEF WorkerStep, Decode, Deliver, AddSegments, Notify, WorkerEnds, DrainGivesUp,
     storeVars
<1>3. CASE DeleteFiles \/ Quit \/ UNCHANGED vars
  <2>1. UNCHANGED <<rows, live, stopVars, passVars>>
    BY <1>3 DEF DeleteFiles, Quit, vars, storeVars
  <2>2. QED
    BY <2>1 DEF OwnerInv, HasOwner, PassFromClosed, Busy, Finalizing, stopVars, passVars
<1>4. ASSUME NEW s \in Sessions, NEW c \in Channels, WorkerStep(s, c)
      PROVE  Goal
  BY <1>2, <1>4 DEF OwnerInv, HasOwner, PassFromClosed, Busy, Finalizing, stopVars, passVars
<1>5. CASE DeleteRows
  BY <1>1, <1>5 DEF DeleteRows, DeleteSession, OwnerInv, HasOwner, PassFromClosed, Busy,
     Finalizing, stopVars, passVars, storeVars, TypeOK, StoreTypeOK, RestTypeOK, PassTypeOK
<1>6. CASE Crash
  <2>1. rows[t] # NoRow => WithStatus(rows[t], "interrupted").status = "interrupted"
    BY <1>1, WithStatusIsRow DEF TypeOK, StoreTypeOK, Statuses
  <2>2. QED
    BY <1>6, <2>1 DEF Crash, RecoverInterrupted, PassGoes, HasOwner, PassFromClosed, Busy,
       MidFlight
<1>7. ASSUME NEW s \in Sessions, UserStep(s) \/ StopStep(s)
      PROVE  Goal
  BY <1>7, OwnerUserStep, OwnerStopStep
<1>8. QED
  BY <1>3, <1>4, <1>5, <1>6, <1>7, OwnerPassStep DEF Next, MainStep

\* As long as no call has returned an error, and however often the process dies, a row says
\* recording, transcribing or finalizing only while a thread is doing that.
THEOREM NobodyIsStuck == Spec => []MidFlightHasOwner
<1> DEFINE Inv == faults = 0 => OwnerInv
<1>1. Init => Inv
  BY DEF Init, StoreInit, OwnerInv, HasOwner, PassFromClosed, Busy
<1>2. IInv /\ Inv /\ [Next]_vars => Inv'
  BY OwnerStep, FaultsStay DEF IInv
<1>3. Inv => MidFlightHasOwner
  BY DEF OwnerInv, HasOwner, Busy, Finalizing, MidFlightHasOwner
<1> HIDE DEF Inv
<1>4. QED
  BY <1>1, <1>2, <1>3, Invariance, PTL DEF Spec

-----------------------------------------------------------------------------
(* Complete transcripts.                                                     *)

\* A stop owns the workers of s, or nobody has asked for one yet.
Owned(s) == live[s] # NoRow \/ stopAt[s] # "idle"

\* Channels of s with audio, or with a store that takes some.
Touched(s) == open[s] \cup {c \in Channels : length[s][c] # 0}

\* An id nobody started has no audio, no losses, and cannot have been deleted.
Untouched ==
    \A s \in Sessions : s \notin used =>
        /\ Touched(s) = {}
        /\ \A c \in Channels : cursor[s][c] = 0
        /\ missed[s] = {}
        /\ stopping[s] = {}
        /\ s \notin deleted

\* The files of a session go after its rows; only live segments are ever missed.
DeletedFirst == mainAt = "delete files" => mainOf \in deleted
MissedIsLive == \A s \in Sessions : \A g \in missed[s] : g[1] = "live"

\* Every copy of the row of s names all channels with audio, and these have a recording.
Covered(s) ==
    s \notin deleted =>
        /\ Touched(s) \subseteq recorded[s]
        /\ rows[s] # NoRow => Touched(s) \subseteq rows[s].sources
        /\ stopAt[s] # "idle" => Touched(s) \subseteq stopCopy[s].sources
        /\ Finalizing(s) /\ passAt # "load" => Touched(s) \subseteq original.sources

\* Audio is captured only while the row says so: a pass and a delete find it closed.
OpenIsRecording(s) ==
    open[s] # {} =>
        /\ rows[s] # NoRow
        /\ rows[s].status \in {"recording", "transcribing"}
        /\ ~Finalizing(s)
        /\ ~Deleting(s)
        /\ s \notin deleted

\* stop closes the audio of a channel before it tells the worker, and joins them all before
\* it counts.
StopOrder(s) ==
    /\ live[s] # NoRow \/ stopAt[s] = "mark" => stopping[s] = {}
    /\ stopAt[s] \in {"mark", "channels"} => open[s] \subseteq stopLeft[s]
    /\ stopAt[s] = "channels" => open[s] \cap stopping[s] = {}
    /\ stopAt[s] \in {"count", "close"} => open[s] = {}
    /\ \A c \in Channels : worker[s][c] = "ended" => c \in stopping[s]

\* While s is recorded or stopped, its transcript is what was decoded of each channel, but
\* what is lost and what the worker holds; what is not decoded is not lost.
Accounted(s, c) ==
    /\ cursor[s][c] <= length[s][c]
    /\ worker[s][c] = "off" => length[s][c] = 0 /\ c \notin open[s]
    /\ \A k \in Nat \ {0} :
         <<"live", c, k>> \in segments[s] <=>
             /\ k <= cursor[s][c]
             /\ <<"live", c, k>> \notin missed[s]
             /\ ~(worker[s][c] = "deliver" /\ k \in batch[s][c])
    /\ worker[s][c] # "ended" =>
         \A k \in Nat : k > cursor[s][c] => <<"live", c, k>> \notin missed[s]
    /\ worker[s][c] = "deliver" =>
         \A k \in batch[s][c] : k <= cursor[s][c] /\ <<"live", c, k>> \notin missed[s]

\* A worker that ended under a stop has decoded the channel to its end, or lost the rest.
Drained(s, c) ==
    stopAt[s] \in {"channels", "count", "close"} /\ worker[s][c] = "ended" =>
        \A k \in (cursor[s][c] + 1) .. length[s][c] : <<"live", c, k>> \in missed[s]

StopIsSound(s) ==
    /\ Owned(s) =>
         /\ s \notin deleted
         /\ \A c \in Channels : Accounted(s, c) /\ Drained(s, c)
    /\ stopAt[s] = "close" => stopCopy[s].count = Cardinality(segments[s])

\* The transcript of s is as the row has it, if the row is closed.
LiveIsWhole(s)  == segments[s] = Spoken(s, "live") \ missed[s]
FinalIsWhole(s) == segments[s] = Spoken(s, "final")

CompleteAs(s, row) ==
    row.status = "stopped" /\ ~row.error =>
        /\ row.transcript = "live" => LiveIsWhole(s)
        /\ row.transcript = "final" => FinalIsWhole(s)
        /\ row.count = Cardinality(segments[s])

RowIsComplete(s) == Kept(s) => CompleteAs(s, rows[s])

\* Until it replaces the transcript, a pass can put the row back as it was; what it replaces
\* it by is all the recording.
PassIsComplete(s) ==
    /\ passAt \in {"idle", "load", "mark", "summary"} => final = {} /\ ~failed
    /\ Finalizing(s) /\ s \notin deleted =>
         /\ passAt \notin {"load", "close"} => CompleteAs(s, original)
         /\ passAt = "channels" /\ ~failed =>
              final = UNION {SegmentsOf("final", c, 1 .. length[s][c]) :
                             c \in Channels \ passLeft}
         /\ passAt \in {"replace", "close"} => final = Spoken(s, "final")
         /\ passAt = "close" => segments[s] = final

CompleteInv ==
    /\ Untouched
    /\ DeletedFirst
    /\ MissedIsLive
    /\ \A s \in Sessions :
         /\ Covered(s)
         /\ OpenIsRecording(s)
         /\ StopOrder(s)
         /\ StopIsSound(s)
         /\ RowIsComplete(s)
         /\ PassIsComplete(s)

-----------------------------------------------------------------------------
(* The operators these are made of.                                          *)

\* The columns a copy of a row does not change.
LEMMA CopiesKeep ==
  ASSUME NEW r \in Row
  PROVE  /\ \A x \in Statuses : /\ WithStatus(r, x).count = r.count
                                /\ WithStatus(r, x).error = r.error
         /\ \A x \in Titles : /\ WithTitle(r, x).count = r.count
                              /\ WithTitle(r, x).error = r.error
         /\ \A n \in Nat : /\ WithCount(r, n).count = n
                           /\ WithCount(r, n).error = r.error
                           /\ WithFinal(r, n).count = n
         /\ \A x \in BOOLEAN : /\ WithError(r, x).count = r.count
                               /\ WithError(r, x).error = x
         /\ r.count \in Nat
BY DEF WithStatus, WithTitle, WithCount, WithFinal, WithError, Row

\* What was spoken depends on the audio of the session alone.
LEMMA SpokenSame ==
  ASSUME NEW s \in Sessions, NEW kind, length'[s] = length[s]
  PROVE  Spoken(s, kind)' = Spoken(s, kind)
BY DEF Spoken, SegmentsOf

LEMMA NothingHeard ==
  ASSUME NEW kind, NEW c
  PROVE  SegmentsOf(kind, c, 1 .. 0) = {}
BY DEF SegmentsOf

LEMMA WholeSame ==
  ASSUME NEW s \in Sessions, segments'[s] = segments[s], missed'[s] = missed[s],
         length'[s] = length[s]
  PROVE  /\ LiveIsWhole(s)' <=> LiveIsWhole(s)
         /\ FinalIsWhole(s)' <=> FinalIsWhole(s)
BY SpokenSame DEF LiveIsWhole, FinalIsWhole

\* The elements of what was spoken, and of what a channel holds.
LEMMA InSpoken ==
  ASSUME NEW s \in Sessions, NEW kind, NEW g
  PROVE  g \in Spoken(s, kind) <=>
            \E c \in Channels : \E k \in 1 .. length[s][c] : g = <<kind, c, k>>
BY DEF Spoken, SegmentsOf

\* Nothing of a final transcript is ever missed.
LEMMA FinalIsNotMissed ==
  ASSUME MissedIsLive, NEW s \in Sessions
  PROVE  Spoken(s, "final") \ missed[s] = Spoken(s, "final")
<1>1. \A g \in Spoken(s, "final") : g[1] = "final"
  BY InSpoken
<1>2. QED
  BY <1>1 DEF MissedIsLive

\* A worker that is not joined belongs to a session that is recorded or stopped, whose row
\* says so.
LEMMA WorkerIsOwned ==
  ASSUME IInv, NEW s \in Sessions, NEW c \in Channels,
         worker[s][c] \in {"waiting", "deliver", "notify"}
  PROVE  Owned(s)
<1>1. WorkerOwned(s, c)
  BY DEF IInv, WorkersOwned
<1>2. QED
  BY <1>1 DEF WorkerOwned, Owned

LEMMA OwnedIsMidFlight ==
  ASSUME IInv, NEW s \in Sessions, Owned(s)
  PROVE  rows[s] # NoRow /\ rows[s].status \in MidFlight /\ rows[s].transcript = "live"
         /\ ~Finalizing(s) /\ ~Deleting(s)
BY DEF IInv, OneOwner, OwnedOnce, Owned

\* Once stop has joined the workers, the transcript is all that was spoken but the losses.
LEMMA DrainedIsComplete ==
  ASSUME IInv, CompleteInv, NEW s \in Sessions, stopAt[s] = "close"
  PROVE  LiveIsWhole(s)
<1>1. /\ \A c \in Channels : Accounted(s, c) /\ Drained(s, c)
      /\ rows[s].transcript = "live"
  BY OwnedIsMidFlight DEF CompleteInv, StopIsSound, Owned
<1>2. \A c \in Channels : worker[s][c] \in {"off", "ended"}
  <2>1. /\ \A c \in Channels : WorkerOwned(s, c) /\ worker[s][c] \in WorkerAt
        /\ live[s] = NoRow
    BY DEF IInv, WorkersOwned, OneOwner, OwnedOnce, TypeOK, WorkerTypeOK
  <2>2. QED
    BY <2>1 DEF WorkerOwned, WorkerAt
<1>3. \A c \in Channels : cursor[s][c] \in Nat /\ length[s][c] \in Nat
  BY RecorderAssumption DEF IInv, TypeOK, WorkerTypeOK, AudioTypeOK
<1>4. ASSUME NEW c \in Channels, NEW k \in Nat \ {0}
      PROVE  <<"live", c, k>> \in segments[s] <=>
                k \in 1 .. length[s][c] /\ <<"live", c, k>> \notin missed[s]
  <2>1. <<"live", c, k>> \in segments[s] <=>
           k <= cursor[s][c] /\ <<"live", c, k>> \notin missed[s]
    BY <1>1, <1>2 DEF Accounted
  <2>2. cursor[s][c] <= length[s][c]
    BY <1>1 DEF Accounted
  <2>3. k \in (cursor[s][c] + 1) .. length[s][c] => <<"live", c, k>> \in missed[s]
    <3>1. CASE worker[s][c] = "off"
      BY <1>1, <1>3, <3>1 DEF Accounted
    <3>2. CASE worker[s][c] = "ended"
      BY <1>1, <3>2 DEF Drained
    <3>3. QED
      BY <1>2, <3>1, <3>2
  <2>4. QED
    BY <1>3, <2>1, <2>2, <2>3
<1>5. \A g \in segments[s] : \E c \in Channels, k \in Nat \ {0} : g = <<"live", c, k>>
  <2>1. \A g \in segments[s] : g \in Segments /\ g[1] = "live"
    BY <1>1 DEF IInv, OneTranscript, TypeOK, StoreTypeOK
  <2>2. QED
    BY <2>1 DEF Segments
<1>6. ASSUME NEW g \in segments[s]
      PROVE  g \in Spoken(s, "live") \ missed[s]
  <2>1. PICK c \in Channels, k \in Nat \ {0} : g = <<"live", c, k>>
    BY <1>5
  <2>2. k \in 1 .. length[s][c] /\ g \notin missed[s]
    BY <1>4, <2>1
  <2>3. QED
    BY <2>1, <2>2, InSpoken
<1>7. ASSUME NEW g \in Spoken(s, "live"), g \notin missed[s]
      PROVE  g \in segments[s]
  <2>1. PICK c \in Channels : \E k \in 1 .. length[s][c] : g = <<"live", c, k>>
    BY <1>7, InSpoken
  <2>2. PICK k \in 1 .. length[s][c] : g = <<"live", c, k>>
    BY <2>1
  <2>3. k \in Nat \ {0}
    BY <1>3, <2>2
  <2>4. QED
    BY <1>4, <1>7, <2>2, <2>3
<1>8. QED
  BY <1>6, <1>7 DEF LiveIsWhole

\* A step that leaves a channel alone leaves its account as it was.
LEMMA ChannelSame ==
  ASSUME IInv, NEW s \in Sessions, NEW c \in Channels,
         Accounted(s, c), Drained(s, c),
         cursor'[s][c] = cursor[s][c], length'[s][c] = length[s][c],
         worker'[s][c] = worker[s][c], batch'[s][c] = batch[s][c],
         c \in open'[s] => c \in open[s],
         \A k \in Nat :
            <<"live", c, k>> \in segments'[s] <=> <<"live", c, k>> \in segments[s],
         \A k \in Nat :
            <<"live", c, k>> \in missed'[s] <=> <<"live", c, k>> \in missed[s],
         stopAt'[s] \in {"channels", "count", "close"} =>
            stopAt[s] \in {"channels", "count", "close"} \/ worker[s][c] # "ended"
  PROVE  Accounted(s, c)' /\ Drained(s, c)'
<1> cursor[s][c] \in Nat /\ length[s][c] \in Nat /\ batch[s][c] \subseteq Nat
  BY RecorderAssumption DEF IInv, TypeOK, WorkerTypeOK, AudioTypeOK, Utterances
<1>1. Accounted(s, c)'
  BY DEF Accounted
<1>2. Drained(s, c)'
  <2>1. SUFFICES ASSUME stopAt'[s] \in {"channels", "count", "close"},
                        worker'[s][c] = "ended",
                        NEW k \in (cursor'[s][c] + 1) .. length'[s][c]
                 PROVE  <<"live", c, k>> \in missed'[s]
    BY DEF Drained
  <2>2. k \in (cursor[s][c] + 1) .. length[s][c] /\ k \in Nat
    BY <2>1
  <2>3. QED
    BY <2>1, <2>2 DEF Drained
<1>3. QED
  BY <1>1, <1>2

\* stop counts only when every worker has been joined.
LEMMA NotYetJoined ==
  ASSUME IInv, NEW s \in Sessions, NEW c \in Channels,
         worker[s][c] \in {"waiting", "deliver", "notify"}
  PROVE  stopAt[s] # "close"
BY DEF IInv, WorkersOwned, WorkerOwned, OneOwner, OwnedOnce

\* Whoever touches a session has started it.
LEMMA UntouchedStep ==
  ASSUME IInv, CompleteInv, [Next]_vars, NEW t \in Sessions
  PROVE  t \notin used' =>
            /\ Touched(t)' = {}
            /\ \A c \in Channels : cursor'[t][c] = 0
            /\ missed'[t] = {}
            /\ stopping'[t] = {}
            /\ t \notin deleted'
<1> USE DEF IInv, CompleteInv
<1>1. t \notin used =>
         /\ Touched(t) = {}
         /\ \A c \in Channels : cursor[t][c] = 0
         /\ missed[t] = {}
         /\ stopping[t] = {}
         /\ t \notin deleted
         /\ stopAt[t] = "idle"
  BY DEF Untouched, FreshIds
<1>2. t \notin used =>
         \A c \in Channels : worker[t][c] \notin {"waiting", "deliver", "notify"}
  BY DEF FreshIds, WorkersOwned, WorkerOwned
<1> USE <1>1 DEF FreshIds
<1> DEFINE Goal == t \notin used' =>
            /\ Touched(t)' = {}
            /\ \A c \in Channels : cursor'[t][c] = 0
            /\ missed'[t] = {}
            /\ stopping'[t] = {}
            /\ t \notin deleted'
<1>3. ASSUME NEW s \in Sessions, NEW sources \in SUBSET Channels, Start(s, sources)
      PROVE  Goal
  BY <1>3 DEF Start, SaveSession, Touched, TypeOK, AudioTypeOK, audioVars, workerVars,
     historyVars
<1>4. ASSUME NEW s \in Sessions, NEW sources \in SUBSET Channels, StartFails(s, sources)
      PROVE  Goal
  BY <1>4 DEF StartFails, SaveSession, Touched, audioVars, workerVars, historyVars
<1>5. ASSUME NEW s \in Sessions, NEW c \in Channels, Append(s, c)
      PROVE  Goal
  BY <1>5 DEF Append, Touched, TypeOK, AudioTypeOK, audioVars, workerVars, historyVars
<1>6. ASSUME NEW s \in Sessions, NEW c \in Channels, StopChannel(s, c)
      PROVE  Goal
  BY <1>6 DEF StopChannel, Touched, TypeOK, AudioTypeOK, WorkerTypeOK, audioVars,
     historyVars, workerVars
<1>7. ASSUME NEW s \in Sessions, NEW c \in Channels, Decode(s, c)
      PROVE  Goal
  BY <1>7, <1>2 DEF Decode, Touched, audioVars, TypeOK, RestTypeOK, WorkerTypeOK,
     workerVars, historyVars
<1>8. ASSUME NEW s \in Sessions, NEW c \in Channels, Deliver(s, c)
      PROVE  Goal
  BY <1>8, <1>2 DEF Deliver, AddSegments, Touched, audioVars, TypeOK, RestTypeOK,
     workerVars, historyVars
<1>9. ASSUME NEW s \in Sessions, NEW c \in Channels, DrainGivesUp(s, c)
      PROVE  Goal
  BY <1>9, <1>2 DEF DrainGivesUp, Touched, audioVars, TypeOK, RestTypeOK, workerVars,
     historyVars
<1>10. ASSUME DeleteRows
       PROVE  Goal
  BY <1>10 DEF DeleteRows, DeleteSession, Touched, audioVars, FreshIds, TypeOK, RestTypeOK,
     workerVars, historyVars
<1>11. ASSUME DeleteFiles
       PROVE  Goal
  BY <1>11 DEF DeleteFiles, Touched, TypeOK, AudioTypeOK, RestTypeOK, historyVars,
     workerVars, audioVars
<1>12. ASSUME Crash
       PROVE  Goal
  BY <1>12 DEF Crash, RecoverInterrupted, PassGoes, Touched, historyVars, audioVars,
     workerVars
<1> DEFINE Same == UNCHANGED <<used, open, length, stopping, cursor, missed, deleted>>
<1>13. ASSUME Same
       PROVE  Goal
  BY <1>13 DEF Touched
<1>14. ASSUME NEW s \in Sessions,
              \/ StopBegin(s) \/ FinalizeBegin(s) \/ SummaryBegin(s) \/ DeleteBegin(s)
              \/ StopMark(s) \/ StopCount(s) \/ StopClose(s) \/ StopFails(s)
       PROVE  Same
  BY <1>14 DEF StopBegin, FinalizeBegin, SummaryBegin, DeleteBegin, StopMark, SaveSession,
     StopCount, StopClose, StopRests, StopFails, audioVars, workerVars, historyVars
<1>15. ASSUME NEW s \in Sessions, NEW title \in Titles,
              \/ RenameLive(s, title) \/ RenameStored(s, title)
       PROVE  Same
  BY <1>15 DEF RenameLive, SaveSession, RenameStored, RenameSession, audioVars, workerVars,
     historyVars
<1>16. ASSUME NEW s \in Sessions, NEW c \in Channels,
              \/ JoinChannel(s, c) \/ Notify(s, c) \/ WorkerEnds(s, c)
       PROVE  Same
  BY <1>16 DEF JoinChannel, StopRests, Notify, WorkerEnds, audioVars, workerVars,
     historyVars
<1>17. ASSUME NEW c \in Channels, FinalizeChannel(c)
       PROVE  Same
  BY <1>17 DEF FinalizeChannel, audioVars, workerVars, historyVars
<1>18. ASSUME \/ FinalizeLoad \/ FinalizeMark \/ FinalizeSettle \/ FinalizeRestore
              \/ FinalizeFail \/ FinalizeReplace \/ FinalizeClose \/ FinalizeReturns
              \/ Summary \/ Quit \/ UNCHANGED vars
       PROVE  Same
  BY <1>18 DEF FinalizeLoad, PassGoes, FinalizeMark, SaveSession, FinalizeSettle,
     FinalizeRestore, FinalizeFail, FinalizeReplace, ReplaceTranscript, FinalizeClose,
     FinalizeReturns, Summary, SaveSummary, Quit, vars, audioVars, workerVars, historyVars
<1> HIDE DEF Goal, Same
<1>19. Goal
  BY <1>3, <1>4, <1>5, <1>6, <1>7, <1>8, <1>9, <1>10, <1>11, <1>12, <1>13, <1>14, <1>15,
     <1>16, <1>17, <1>18 DEF Next, UserStep, StopStep, WorkerStep, PassStep, MainStep
<1>20. QED
  BY <1>19 DEF Goal

\* The rows of a session are deleted before its files.
LEMMA DeletedFirstStep ==
  ASSUME CompleteInv, [Next]_vars
  PROVE  DeletedFirst'
<1>1. DeletedFirst
  BY DEF CompleteInv
<1> USE <1>1 DEF DeletedFirst
<1> DEFINE Goal == DeletedFirst'
<1>2. ASSUME NEW s \in Sessions, DeleteBegin(s)
      PROVE  Goal
  BY <1>2 DEF DeleteBegin, historyVars
<1>3. ASSUME DeleteRows
      PROVE  Goal
  BY <1>3 DEF DeleteRows, DeleteSession, mainVars, historyVars
<1>4. ASSUME DeleteFiles
      PROVE  Goal
  BY <1>4 DEF DeleteFiles, mainVars, historyVars
<1>5. ASSUME Crash
      PROVE  Goal
  BY <1>5 DEF Crash, RecoverInterrupted, PassGoes, mainVars, historyVars
<1> DEFINE Same == UNCHANGED <<mainAt, mainOf, deleted>>
<1>6. ASSUME Same
      PROVE  Goal
  BY <1>6
<1>7. ASSUME NEW s \in Sessions, NEW sources \in SUBSET Channels,
             \/ Start(s, sources) \/ StartFails(s, sources)
      PROVE  Same
  BY <1>7 DEF Start, SaveSession, StartFails, mainVars, historyVars
<1>8. ASSUME NEW s \in Sessions, NEW c \in Channels,
             \/ Append(s, c) \/ StopChannel(s, c) \/ JoinChannel(s, c) \/ Decode(s, c)
             \/ Deliver(s, c) \/ Notify(s, c) \/ WorkerEnds(s, c) \/ DrainGivesUp(s, c)
      PROVE  Same
  BY <1>8 DEF Append, StopChannel, JoinChannel, StopRests, Decode, Deliver, AddSegments,
     Notify, WorkerEnds, DrainGivesUp, mainVars, historyVars
<1>9. ASSUME NEW s \in Sessions,
             \/ StopBegin(s) \/ FinalizeBegin(s) \/ SummaryBegin(s) \/ StopMark(s)
             \/ StopCount(s) \/ StopClose(s) \/ StopFails(s)
      PROVE  Same
  BY <1>9 DEF StopBegin, FinalizeBegin, SummaryBegin, StopMark, SaveSession, StopCount,
     StopClose, StopRests, StopFails, mainVars, historyVars
<1>10. ASSUME NEW s \in Sessions, NEW title \in Titles,
              \/ RenameLive(s, title) \/ RenameStored(s, title)
       PROVE  Same
  BY <1>10 DEF RenameLive, SaveSession, RenameStored, RenameSession, mainVars, historyVars
<1>11. ASSUME NEW c \in Channels, FinalizeChannel(c)
       PROVE  Same
  BY <1>11 DEF FinalizeChannel, mainVars, historyVars
<1>12. ASSUME \/ FinalizeLoad \/ FinalizeMark \/ FinalizeSettle \/ FinalizeRestore
              \/ FinalizeFail \/ FinalizeReplace \/ FinalizeClose \/ FinalizeReturns
              \/ Summary \/ Quit \/ UNCHANGED vars
       PROVE  Same
  BY <1>12 DEF FinalizeLoad, PassGoes, FinalizeMark, SaveSession, FinalizeSettle,
     FinalizeRestore, FinalizeFail, FinalizeReplace, ReplaceTranscript, FinalizeClose,
     FinalizeReturns, Summary, SaveSummary, Quit, vars, mainVars, historyVars
<1> HIDE DEF Goal, Same
<1>13. Goal
  BY <1>2, <1>3, <1>4, <1>5, <1>6, <1>7, <1>8, <1>9, <1>10, <1>11, <1>12 DEF Next,
     UserStep, StopStep, WorkerStep, PassStep, MainStep
<1>14. QED
  BY <1>13 DEF Goal

\* Only workers miss anything.
LEMMA MissedIsLiveStep ==
  ASSUME IInv, CompleteInv, [Next]_vars, NEW t \in Sessions
  PROVE  \A g \in missed'[t] : g[1] = "live"
<1>1. TypeOK /\ MissedIsLive
  BY DEF IInv, CompleteInv
<1> USE <1>1 DEF MissedIsLive, TypeOK, RestTypeOK
<1> DEFINE Goal == \A g \in missed'[t] : g[1] = "live"
<1>2. ASSUME NEW s \in Sessions, NEW c \in Channels, Decode(s, c)
      PROVE  Goal
  BY <1>2 DEF Decode, SegmentsOf, historyVars
<1>3. ASSUME NEW s \in Sessions, NEW c \in Channels, Deliver(s, c)
      PROVE  Goal
  BY <1>3 DEF Deliver, AddSegments, Batch, SegmentsOf, historyVars
<1>4. ASSUME NEW s \in Sessions, NEW c \in Channels, DrainGivesUp(s, c)
      PROVE  Goal
  BY <1>4 DEF DrainGivesUp, SegmentsOf, historyVars
<1> DEFINE Same == UNCHANGED <<missed>>
<1>5. ASSUME Same
      PROVE  Goal
  BY <1>5
<1>6. ASSUME NEW s \in Sessions, NEW sources \in SUBSET Channels,
             \/ Start(s, sources) \/ StartFails(s, sources)
      PROVE  Same
  BY <1>6 DEF Start, SaveSession, StartFails, historyVars
<1>7. ASSUME NEW s \in Sessions, NEW c \in Channels,
             \/ Append(s, c) \/ StopChannel(s, c) \/ JoinChannel(s, c) \/ Notify(s, c)
             \/ WorkerEnds(s, c)
      PROVE  Same
  BY <1>7 DEF Append, StopChannel, JoinChannel, StopRests, Notify, WorkerEnds, historyVars
<1>8. ASSUME NEW s \in Sessions,
             \/ StopBegin(s) \/ FinalizeBegin(s) \/ SummaryBegin(s) \/ DeleteBegin(s)
             \/ StopMark(s) \/ StopCount(s) \/ StopClose(s) \/ StopFails(s)
      PROVE  Same
  BY <1>8 DEF StopBegin, FinalizeBegin, SummaryBegin, DeleteBegin, StopMark, SaveSession,
     StopCount, StopClose, StopRests, StopFails, historyVars
<1>9. ASSUME NEW s \in Sessions, NEW title \in Titles,
             \/ RenameLive(s, title) \/ RenameStored(s, title)
      PROVE  Same
  BY <1>9 DEF RenameLive, SaveSession, RenameStored, RenameSession, historyVars
<1>10. ASSUME NEW c \in Channels, FinalizeChannel(c)
       PROVE  Same
  BY <1>10 DEF FinalizeChannel, historyVars
<1>11. ASSUME \/ FinalizeLoad \/ FinalizeMark \/ FinalizeSettle \/ FinalizeRestore
              \/ FinalizeFail \/ FinalizeReplace \/ FinalizeClose \/ FinalizeReturns
              \/ Summary \/ DeleteRows \/ DeleteFiles \/ Quit \/ Crash \/ UNCHANGED vars
       PROVE  Same
  BY <1>11 DEF FinalizeLoad, PassGoes, FinalizeMark, SaveSession, FinalizeSettle,
     FinalizeRestore, FinalizeFail, FinalizeReplace, ReplaceTranscript, FinalizeClose,
     FinalizeReturns, Summary, SaveSummary, DeleteRows, DeleteSession, DeleteFiles, Quit,
     Crash, RecoverInterrupted, vars, historyVars
<1> HIDE DEF Goal, Same
<1>12. Goal
  BY <1>2, <1>3, <1>4, <1>5, <1>6, <1>7, <1>8, <1>9, <1>10, <1>11 DEF Next, UserStep,
     StopStep, WorkerStep, PassStep, MainStep
<1>13. QED
  BY <1>12 DEF Goal

\* Audio begins with the row and its recordings, and every copy of a row names the channels
\* of the row it was made of.
LEMMA CoveredStep ==
  ASSUME IInv, CompleteInv, [Next]_vars, NEW t \in Sessions
  PROVE  Covered(t)'
<1>1. TypeOK /\ Covered(t) /\ FiniteTranscripts
  BY DEF IInv, CompleteInv
<1>2. mainAt = "delete files" => mainOf \in deleted
  BY DEF CompleteInv, DeletedFirst
<1>3. t \notin used => Touched(t) = {} /\ stopAt[t] = "idle" /\ ~Finalizing(t)
  BY DEF IInv, CompleteInv, Untouched, FreshIds, Finalizing
<1>4. live[t] # NoRow => /\ live[t] \in Row
                         /\ rows[t] # NoRow
                         /\ rows[t].sources = live[t].sources
  <2>1. live[t] # NoRow =>
           live[t] \in Row /\ rows[t] \in Row /\ rows[t] = WithTitle(live[t], rows[t].title)
    BY DEF IInv, LiveIsRecording, TypeOK, StoreTypeOK, StopTypeOK
  <2>2. QED
    BY <2>1, RowFields, WithTitleIsRow
<1>5. stopAt[t] # "idle" => stopCopy[t] \in Row
  BY DEF IInv, OneOwner, OwnedOnce, TypeOK, StopTypeOK
<1>6. passAt \notin {"idle", "load", "summary"} => original \in Row
  BY DEF IInv, TypeOK, PassTypeOK, PassConsistent, PassReads
<1> USE <1>1 DEF Covered, Touched, Finalizing, TypeOK, StoreTypeOK, AudioTypeOK,
        StopTypeOK, PassTypeOK, RestTypeOK
<1> DEFINE Goal == Covered(t)'
<1>7. ASSUME NEW s \in Sessions, NEW sources \in SUBSET Channels, Start(s, sources)
      PROVE  Goal
  <2>1. \A u \in Sessions :
           /\ open'[u] = IF u = s THEN sources ELSE open[u]
           /\ recorded'[u] = IF u = s THEN sources ELSE recorded[u]
           /\ rows'[u] = IF u = s THEN NewRow(sources) ELSE rows[u]
    BY <1>7 DEF Start, SaveSession
  <2>2. UNCHANGED <<length, stopAt, stopCopy, passAt, passOf, original, deleted>>
    BY <1>7 DEF Start, stopVars, passVars, historyVars
  <2>3. t = s => Touched(t) = {} /\ stopAt[t] = "idle" /\ ~Finalizing(t)
    BY <1>7, <1>3 DEF Start
  <2>4. CASE t = s
    <3>1. open'[t] = sources /\ recorded'[t] = sources /\ rows'[t] = NewRow(sources)
      BY <2>1, <2>4
    <3>2. \A c \in Channels : length'[t][c] = 0
      BY <2>2, <2>3, <2>4
    <3>3. Touched(t)' = sources
      BY <3>1, <3>2
    <3>4. ~Finalizing(t)' /\ stopAt'[t] = "idle"
      BY <2>2, <2>3, <2>4
    <3>5. QED
      BY <3>1, <3>3, <3>4, NewRowIsRow DEF Covered
  <2>5. CASE t # s
    BY <2>1, <2>2, <2>5
  <2>6. QED
    BY <2>4, <2>5
<1>8. ASSUME NEW s \in Sessions, NEW sources \in SUBSET Channels, StartFails(s, sources)
      PROVE  Goal
  <2>1. /\ \A u \in Sessions : u # s => rows'[u] = rows[u] /\ recorded'[u] = recorded[u]
        /\ s \notin used
        /\ UNCHANGED <<open, length, stopAt, stopCopy, passAt, passOf, original, deleted>>
    BY <1>8 DEF StartFails, SaveSession, storeVars, stopVars, passVars, historyVars
  <2>2. t = s => Touched(t)' = {}
    BY <1>3, <2>1
  <2>3. QED
    BY <2>1, <2>2
<1>9. ASSUME NEW s \in Sessions, NEW c \in Channels, Append(s, c)
      PROVE  Goal
  BY <1>9 DEF Append, storeVars, audioVars, stopVars, passVars, historyVars
<1>10. ASSUME NEW s \in Sessions, StopBegin(s)
       PROVE  Goal
  BY <1>10, <1>4 DEF StopBegin, storeVars, audioVars, passVars, historyVars
<1>11. ASSUME NEW s \in Sessions, FinalizeBegin(s)
       PROVE  Goal
  BY <1>11 DEF FinalizeBegin, storeVars, audioVars, stopVars, passVars, historyVars
<1>12. ASSUME NEW s \in Sessions, SummaryBegin(s)
       PROVE  Goal
  BY <1>12 DEF SummaryBegin, storeVars, audioVars, stopVars, passVars, historyVars
<1>13. ASSUME NEW s \in Sessions, NEW title \in Titles, RenameLive(s, title)
       PROVE  Goal
  BY <1>13, <1>4, WithTitleIsRow DEF RenameLive, SaveSession, storeVars, audioVars,
     stopVars, passVars, historyVars
<1>14. ASSUME NEW s \in Sessions, NEW title \in Titles, RenameStored(s, title)
       PROVE  Goal
  BY <1>14, WithTitleIsRow DEF RenameStored, RenameSession, storeVars, audioVars, stopVars,
     passVars, historyVars
<1>15. ASSUME NEW s \in Sessions, StopMark(s)
       PROVE  Goal
  <2>1. \/ rows' = rows /\ stopCopy' = stopCopy
        \/ /\ rows' = [rows EXCEPT ![s] = WithStatus(stopCopy[s], "transcribing")]
           /\ stopCopy' = [stopCopy EXCEPT ![s] = WithStatus(stopCopy[s], "transcribing")]
    BY <1>15 DEF StopMark, SaveSession, storeVars
  <2>2. /\ stopAt[s] = "mark" /\ \A u \in Sessions : u # s => stopAt'[u] = stopAt[u]
        /\ UNCHANGED <<open, length, recorded, passAt, passOf, original, deleted>>
    BY <1>15 DEF StopMark, audioVars, passVars, historyVars
  <2>3. stopAt[t] # "idle" =>
           WithStatus(stopCopy[t], "transcribing").sources = stopCopy[t].sources
    BY <1>5, WithStatusIsRow DEF Statuses
  <2>4. QED
    BY <2>1, <2>2, <2>3
<1>16. ASSUME NEW s \in Sessions, NEW c \in Channels, StopChannel(s, c)
       PROVE  Goal
  BY <1>16 DEF StopChannel, storeVars, audioVars, stopVars, passVars, historyVars
<1>17. ASSUME NEW s \in Sessions, NEW c \in Channels, JoinChannel(s, c)
       PROVE  Goal
  BY <1>17 DEF JoinChannel, StopRests, storeVars, audioVars, passVars, historyVars
<1>18. ASSUME NEW s \in Sessions, StopCount(s)
       PROVE  Goal
  <2>1. stopAt[t] # "idle" =>
           WithCount(stopCopy[t], Cardinality(segments[t])).sources = stopCopy[t].sources
    BY <1>5, WithCountIsRow, FS_CardinalityType DEF FiniteTranscripts
  <2>2. QED
    BY <1>18, <2>1 DEF StopCount, storeVars, audioVars, passVars, historyVars
<1>19. ASSUME NEW s \in Sessions, StopClose(s)
       PROVE  Goal
  BY <1>19, WithStatusIsRow, <1>5 DEF StopClose, SaveSession, StopRests, Statuses,
     storeVars, audioVars, passVars, historyVars
<1>20. ASSUME NEW s \in Sessions, StopFails(s)
       PROVE  Goal
  BY <1>20 DEF StopFails, StopRests, storeVars, audioVars, passVars, historyVars
<1>21. ASSUME FinalizeLoad
       PROVE  Goal
  BY <1>21 DEF FinalizeLoad, PassGoes, storeVars, audioVars, stopVars, passVars,
     historyVars
<1>22. ASSUME FinalizeMark
       PROVE  Goal
  BY <1>22, WithStatusIsRow, <1>6 DEF FinalizeMark, SaveSession, Statuses, storeVars,
     audioVars, stopVars, passVars, historyVars
<1>23. ASSUME FinalizeSettle
       PROVE  Goal
  BY <1>23 DEF FinalizeSettle, storeVars, audioVars, stopVars, passVars, historyVars
<1>24. ASSUME FinalizeRestore
       PROVE  Goal
  BY <1>24 DEF FinalizeRestore, SaveSession, PassGoes, storeVars, audioVars, stopVars,
     passVars, historyVars
<1>25. ASSUME FinalizeFail
       PROVE  Goal
  <2>1. original \in Row
    BY <1>25, <1>6 DEF FinalizeFail
  <2>2. /\ WithStatus(original, "stopped") \in Row
        /\ WithStatus(original, "stopped").sources = original.sources
    BY <2>1, WithStatusIsRow DEF Statuses
  <2>3. WithError(WithStatus(original, "stopped"), TRUE).sources = original.sources
    BY <2>2, WithErrorIsRow
  <2>4. QED
    BY <1>25, <2>3 DEF FinalizeFail, SaveSession, PassGoes, audioVars, stopVars, historyVars
<1>26. ASSUME FinalizeReplace
       PROVE  Goal
  <2>1. CASE PassGoes("idle") /\ UNCHANGED storeVars
    BY <1>26, <2>1 DEF FinalizeReplace, PassGoes, storeVars, audioVars, stopVars,
       historyVars
  <2>2. CASE ReplaceTranscript(passOf, final) /\ passAt' = "close" /\ original' = original
             /\ passOf' = passOf
    <3>1. WithFinal(rows[passOf], Cardinality(final)).sources = rows[passOf].sources
      BY <2>2, WithFinalIsRow, FS_CardinalityType DEF ReplaceTranscript, FiniteTranscripts
    <3>2. rows' = [rows EXCEPT ![passOf] = WithFinal(rows[passOf], Cardinality(final))]
      BY <2>2 DEF ReplaceTranscript
    <3>3. QED
      BY <1>26, <2>2, <3>1, <3>2 DEF FinalizeReplace, ReplaceTranscript, audioVars,
         stopVars, historyVars
  <2>3. QED
    BY <1>26, <2>1, <2>2 DEF FinalizeReplace
<1>27. ASSUME FinalizeClose
       PROVE  Goal
  <2>1. original \in Row /\ Cardinality(final) \in Nat
    BY <1>27, <1>6, FS_CardinalityType DEF FinalizeClose, FiniteTranscripts
  <2>2. /\ WithStatus(original, "stopped") \in Row
        /\ WithStatus(original, "stopped").sources = original.sources
    BY <2>1, WithStatusIsRow DEF Statuses
  <2>3. /\ WithFinal(WithStatus(original, "stopped"), Cardinality(final)) \in Row
        /\ WithFinal(WithStatus(original, "stopped"), Cardinality(final)).sources
             = original.sources
    BY <2>1, <2>2, WithFinalIsRow
  <2>4. WithError(WithFinal(WithStatus(original, "stopped"),
                            Cardinality(final)), FALSE).sources = original.sources
    BY <2>3, WithErrorIsRow
  <2>5. QED
    BY <1>27, <2>4 DEF FinalizeClose, SaveSession, PassGoes, audioVars, stopVars,
       historyVars
<1>28. ASSUME FinalizeReturns
       PROVE  Goal
  BY <1>28 DEF FinalizeReturns, PassGoes, storeVars, audioVars, stopVars, passVars,
     historyVars
<1>29. ASSUME Summary
       PROVE  Goal
  BY <1>29 DEF Summary, SaveSummary, PassGoes, storeVars, audioVars, stopVars, passVars,
     historyVars
<1>30. ASSUME DeleteRows
       PROVE  Goal
  <2>1. \/ rows' = rows /\ deleted' = deleted
        \/ /\ rows' = [rows EXCEPT ![mainOf] = NoRow]
           /\ deleted' = deleted \cup {mainOf}
    BY <1>30 DEF DeleteRows, DeleteSession, storeVars
  <2>2. QED
    BY <1>30, <2>1 DEF DeleteRows, audioVars, stopVars, passVars, historyVars
<1>31. ASSUME DeleteFiles
       PROVE  Goal
  BY <1>31, <1>2 DEF DeleteFiles, storeVars, audioVars, stopVars, passVars, historyVars
<1>32. ASSUME Crash
       PROVE  Goal
  BY <1>32, WithStatusIsRow DEF Crash, RecoverInterrupted, PassGoes, Statuses, storeVars,
     audioVars, passVars, historyVars
<1> DEFINE Same == UNCHANGED <<rows, recorded, open, length, stopAt, stopCopy, passAt,
                              passOf, original, deleted>>
<1>33. ASSUME Same
       PROVE  Goal
  BY <1>33
<1>34. ASSUME NEW s \in Sessions, DeleteBegin(s)
       PROVE  Same
  BY <1>34 DEF DeleteBegin, storeVars, audioVars, stopVars, passVars, historyVars
<1>35. ASSUME NEW s \in Sessions, NEW c \in Channels,
              \/ Decode(s, c) \/ Deliver(s, c) \/ Notify(s, c) \/ WorkerEnds(s, c)
              \/ DrainGivesUp(s, c)
       PROVE  Same
  BY <1>35 DEF Decode, Deliver, AddSegments, Notify, WorkerEnds, DrainGivesUp, storeVars,
     audioVars, stopVars, passVars, historyVars
<1>36. ASSUME NEW c \in Channels, FinalizeChannel(c)
       PROVE  Same
  BY <1>36 DEF FinalizeChannel, storeVars, audioVars, stopVars, passVars, historyVars
<1>37. ASSUME \/ Quit \/ UNCHANGED vars
       PROVE  Same
  BY <1>37 DEF Quit, vars, storeVars, audioVars, stopVars, passVars, historyVars
<1> HIDE DEF Goal, Same
<1>38. Goal
  BY <1>7, <1>8, <1>9, <1>10, <1>11, <1>12, <1>13, <1>14, <1>15, <1>16, <1>17, <1>18,
     <1>19, <1>20, <1>21, <1>22, <1>23, <1>24, <1>25, <1>26, <1>27, <1>28, <1>29, <1>30,
     <1>31, <1>32, <1>33, <1>34, <1>35, <1>36, <1>37 DEF Next, UserStep, StopStep,
     WorkerStep, PassStep, MainStep
<1>39. QED
  BY <1>38 DEF Goal

\* A store is open from start until stop closes it; before that no pass and no delete can
\* begin.
LEMMA OpenIsRecordingStep ==
  ASSUME IInv, CompleteInv, [Next]_vars, NEW t \in Sessions
  PROVE  OpenIsRecording(t)'
<1>1. /\ TypeOK /\ FreshIds /\ OpenIsRecording(t)
      /\ t \notin used => open[t] = {} /\ t \notin deleted
  BY DEF IInv, CompleteInv, Untouched, Touched
<1>2. live[t] # NoRow => live[t] \in Row /\ live[t].status = "recording"
  BY DEF IInv, LiveIsRecording, TypeOK, StopTypeOK
<1>3. stopAt[t] # "idle" => stopCopy[t] \in Row
  BY DEF IInv, OneOwner, OwnedOnce, TypeOK, StopTypeOK
<1>4. stopAt[t] = "close" => open[t] = {}
  BY DEF CompleteInv, StopOrder
<1> USE <1>1 DEF OpenIsRecording, Finalizing, Deleting, TypeOK, StoreTypeOK, AudioTypeOK,
        StopTypeOK, PassTypeOK, RestTypeOK
<1> DEFINE Goal == OpenIsRecording(t)'
<1>5. ASSUME NEW s \in Sessions, NEW sources \in SUBSET Channels, Start(s, sources)
      PROVE  Goal
  <2>1. /\ \A u \in Sessions :
              /\ rows'[u] = IF u = s THEN NewRow(sources) ELSE rows[u]
              /\ u # s => open'[u] = open[u]
        /\ s \notin used
        /\ UNCHANGED <<passAt, passOf, mainAt, mainOf, deleted>>
    BY <1>5 DEF Start, SaveSession, passVars, mainVars, historyVars
  <2>2. s \notin used => passOf # s \/ passAt = "idle"
    BY DEF FreshIds
  <2>3. s \notin used => mainOf # s \/ mainAt = "idle"
    BY DEF FreshIds
  <2>4. NewRow(sources) # NoRow /\ NewRow(sources).status = "recording"
    BY NewRowIsRow, RowFields
  <2>5. QED
    BY <2>1, <2>2, <2>3, <2>4
<1>6. ASSUME NEW s \in Sessions, NEW sources \in SUBSET Channels, StartFails(s, sources)
      PROVE  Goal
  <2>1. /\ \A u \in Sessions : u # s => rows'[u] = rows[u]
        /\ s \notin used
        /\ UNCHANGED <<open, passAt, passOf, mainAt, mainOf, deleted>>
    BY <1>6 DEF StartFails, SaveSession, storeVars, passVars, mainVars, historyVars
  <2>2. QED
    BY <2>1
<1>7. ASSUME NEW s \in Sessions, FinalizeBegin(s)
      PROVE  Goal
  BY <1>7 DEF FinalizeBegin, storeVars, audioVars, passVars, mainVars, historyVars
<1>8. ASSUME NEW s \in Sessions, SummaryBegin(s)
      PROVE  Goal
  BY <1>8 DEF SummaryBegin, storeVars, audioVars, passVars, mainVars, historyVars
<1>9. ASSUME NEW s \in Sessions, DeleteBegin(s)
      PROVE  Goal
  BY <1>9 DEF DeleteBegin, MidFlight, storeVars, audioVars, passVars, historyVars
<1>10. ASSUME NEW s \in Sessions, NEW title \in Titles, RenameLive(s, title)
       PROVE  Goal
  BY <1>10, <1>2, WithTitleIsRow, RowFields DEF RenameLive, SaveSession, storeVars,
     audioVars, passVars, mainVars, historyVars
<1>11. ASSUME NEW s \in Sessions, NEW title \in Titles, RenameStored(s, title)
       PROVE  Goal
  BY <1>11, WithTitleIsRow, RowFields DEF RenameStored, RenameSession, storeVars,
     audioVars, passVars, mainVars, historyVars
<1>12. ASSUME NEW s \in Sessions, StopMark(s)
       PROVE  Goal
  <2>1. stopAt[t] # "idle" =>
           /\ WithStatus(stopCopy[t], "transcribing") # NoRow
           /\ WithStatus(stopCopy[t], "transcribing").status = "transcribing"
    BY <1>3, WithStatusIsRow, RowFields DEF Statuses
  <2>2. \/ rows' = rows
        \/ rows' = [rows EXCEPT ![s] = WithStatus(stopCopy[s], "transcribing")]
    BY <1>12 DEF StopMark, SaveSession, storeVars
  <2>3. /\ stopAt[s] = "mark"
        /\ UNCHANGED <<open, passAt, passOf, mainAt, mainOf, deleted>>
    BY <1>12 DEF StopMark, audioVars, passVars, mainVars, historyVars
  <2>4. QED
    BY <2>1, <2>2, <2>3
<1>13. ASSUME NEW s \in Sessions, NEW c \in Channels, StopChannel(s, c)
       PROVE  Goal
  BY <1>13 DEF StopChannel, storeVars, audioVars, passVars, mainVars, historyVars
<1>14. ASSUME NEW s \in Sessions, StopClose(s)
       PROVE  Goal
  BY <1>14, <1>4 DEF StopClose, SaveSession, StopRests, storeVars, audioVars, passVars,
     mainVars, historyVars
<1>15. ASSUME FinalizeLoad
       PROVE  Goal
  BY <1>15 DEF FinalizeLoad, PassGoes, storeVars, audioVars, passVars, mainVars,
     historyVars
<1>16. ASSUME FinalizeMark
       PROVE  Goal
  BY <1>16 DEF FinalizeMark, SaveSession, storeVars, audioVars, passVars, mainVars,
     historyVars
<1>17. ASSUME FinalizeSettle
       PROVE  Goal
  BY <1>17 DEF FinalizeSettle, storeVars, audioVars, passVars, mainVars, historyVars
<1>18. ASSUME FinalizeRestore
       PROVE  Goal
  BY <1>18 DEF FinalizeRestore, SaveSession, PassGoes, storeVars, audioVars, passVars,
     mainVars, historyVars
<1>19. ASSUME FinalizeFail
       PROVE  Goal
  BY <1>19 DEF FinalizeFail, SaveSession, PassGoes, storeVars, audioVars, passVars,
     mainVars, historyVars
<1>20. ASSUME FinalizeReplace
       PROVE  Goal
  BY <1>20 DEF FinalizeReplace, ReplaceTranscript, PassGoes, storeVars, audioVars,
     passVars, mainVars, historyVars
<1>21. ASSUME FinalizeClose
       PROVE  Goal
  BY <1>21 DEF FinalizeClose, SaveSession, PassGoes, storeVars, audioVars, passVars,
     mainVars, historyVars
<1>22. ASSUME FinalizeReturns
       PROVE  Goal
  BY <1>22 DEF FinalizeReturns, PassGoes, storeVars, audioVars, passVars, mainVars,
     historyVars
<1>23. ASSUME Summary
       PROVE  Goal
  BY <1>23 DEF Summary, SaveSummary, PassGoes, storeVars, audioVars, passVars, mainVars,
     historyVars
<1>24. ASSUME DeleteRows
       PROVE  Goal
  <2>1. \/ rows' = rows /\ deleted' = deleted
        \/ /\ rows' = [rows EXCEPT ![mainOf] = NoRow]
           /\ deleted' = deleted \cup {mainOf}
    BY <1>24 DEF DeleteRows, DeleteSession, storeVars
  <2>2. QED
    BY <1>24, <2>1 DEF DeleteRows, audioVars, stopVars, passVars, historyVars
<1>25. ASSUME DeleteFiles
       PROVE  Goal
  BY <1>25 DEF DeleteFiles, storeVars, audioVars, passVars, mainVars, historyVars
<1>26. ASSUME Crash
       PROVE  Goal
  BY <1>26 DEF Crash, RecoverInterrupted, PassGoes, storeVars, audioVars, passVars,
     mainVars, historyVars
<1> DEFINE Same == UNCHANGED <<rows, open, passAt, passOf, mainAt, mainOf, deleted>>
<1>27. ASSUME Same
       PROVE  Goal
  BY <1>27
<1>28. ASSUME NEW s \in Sessions, NEW c \in Channels,
              \/ Append(s, c) \/ JoinChannel(s, c) \/ Decode(s, c) \/ Deliver(s, c)
              \/ Notify(s, c) \/ WorkerEnds(s, c) \/ DrainGivesUp(s, c)
       PROVE  Same
  BY <1>28 DEF Append, JoinChannel, StopRests, Decode, Deliver, AddSegments, Notify,
     WorkerEnds, DrainGivesUp, storeVars, audioVars, passVars, mainVars, historyVars
<1>29. ASSUME NEW s \in Sessions,
              \/ StopBegin(s) \/ StopCount(s) \/ StopFails(s)
       PROVE  Same
  BY <1>29 DEF StopBegin, StopCount, StopFails, StopRests, storeVars, audioVars, passVars,
     mainVars, historyVars
<1>30. ASSUME NEW c \in Channels, FinalizeChannel(c)
       PROVE  Same
  BY <1>30 DEF FinalizeChannel, storeVars, audioVars, passVars, mainVars, historyVars
<1>31. ASSUME \/ Quit \/ UNCHANGED vars
       PROVE  Same
  BY <1>31 DEF Quit, vars, storeVars, audioVars, passVars, mainVars, historyVars
<1> HIDE DEF Goal, Same
<1>32. Goal
  BY <1>5, <1>6, <1>7, <1>8, <1>9, <1>10, <1>11, <1>12, <1>13, <1>14, <1>15, <1>16, <1>17,
     <1>18, <1>19, <1>20, <1>21, <1>22, <1>23, <1>24, <1>25, <1>26, <1>27, <1>28, <1>29,
     <1>30, <1>31 DEF Next, UserStep, StopStep, WorkerStep, PassStep, MainStep
<1>33. QED
  BY <1>32 DEF Goal

\* Channels are closed one after the other, each before its worker is told.
LEMMA StopOrderStep ==
  ASSUME IInv, CompleteInv, [Next]_vars, NEW t \in Sessions
  PROVE  StopOrder(t)'
<1>1. /\ TypeOK /\ FreshIds /\ StopOrder(t)
      /\ t \notin used => stopping[t] = {}
  BY DEF IInv, CompleteInv, Untouched
<1>2. live[t] # NoRow => open[t] \subseteq live[t].sources
  <2>1. live[t] # NoRow =>
           /\ live[t] \in Row
           /\ rows[t] \in Row
           /\ rows[t] = WithTitle(live[t], rows[t].title)
    BY DEF IInv, LiveIsRecording, TypeOK, StoreTypeOK, StopTypeOK
  <2>2. live[t] # NoRow => rows[t].sources = live[t].sources
    BY <2>1, RowFields, WithTitleIsRow
  <2>3. rows[t] # NoRow => open[t] \subseteq rows[t].sources
    BY DEF CompleteInv, OpenIsRecording, Covered, Touched
  <2>4. QED
    BY <2>1, <2>2, <2>3, RowFields
<1>3. live[t] # NoRow => stopAt[t] = "idle"
  BY DEF IInv, OneOwner, OwnedOnce
<1>4. worker \in [Sessions -> [Channels -> WorkerAt]]
  BY <1>1 DEF TypeOK, WorkerTypeOK
<1> USE <1>1 DEF StopOrder, FreshIds, WorkerTypeOK, TypeOK, StoreTypeOK, AudioTypeOK,
        StopTypeOK, PassTypeOK, RestTypeOK
<1> DEFINE Goal == StopOrder(t)'
<1>5. ASSUME NEW s \in Sessions, NEW sources \in SUBSET Channels, Start(s, sources)
      PROVE  Goal
  BY <1>5, NewRowIsRow DEF Start, SaveSession, workerVars, audioVars, stopVars
<1>6. ASSUME NEW s \in Sessions, StopBegin(s)
      PROVE  Goal
  BY <1>6, <1>2 DEF StopBegin, audioVars, workerVars
<1>7. ASSUME NEW s \in Sessions, NEW title \in Titles, RenameLive(s, title)
      PROVE  Goal
  BY <1>7 DEF RenameLive, SaveSession, audioVars, workerVars, stopVars
<1>8. ASSUME NEW s \in Sessions, StopMark(s)
      PROVE  Goal
  BY <1>8, <1>3 DEF StopMark, SaveSession, audioVars, workerVars, stopVars
<1>9. ASSUME NEW s \in Sessions, NEW c \in Channels, StopChannel(s, c)
      PROVE  Goal
  BY <1>9, <1>3 DEF StopChannel, audioVars, workerVars, stopVars
<1>10. ASSUME NEW s \in Sessions, NEW c \in Channels, JoinChannel(s, c)
       PROVE  Goal
  BY <1>10 DEF JoinChannel, StopRests, audioVars, workerVars
<1>11. ASSUME NEW s \in Sessions, StopCount(s)
       PROVE  Goal
  BY <1>11 DEF StopCount, audioVars, workerVars, stopVars
<1>12. ASSUME NEW s \in Sessions, StopClose(s)
       PROVE  Goal
  BY <1>12 DEF StopClose, SaveSession, StopRests, audioVars, workerVars
<1>13. ASSUME NEW s \in Sessions, StopFails(s)
       PROVE  Goal
  BY <1>13 DEF StopFails, StopRests, audioVars, workerVars
<1>14. ASSUME NEW s \in Sessions, NEW c \in Channels, Decode(s, c)
       PROVE  Goal
  <2>1. worker' = worker \/ worker' = [worker EXCEPT ![s][c] = "deliver"]
    BY <1>14 DEF Decode
  <2>2. UNCHANGED <<live, open, stopping, stopAt, stopLeft>>
    BY <1>14 DEF Decode, audioVars, stopVars
  <2>3. \A d \in Channels : worker'[t][d] = "ended" => worker[t][d] = "ended"
    BY ONLY <1>4, <2>1
  <2>4. QED
    BY <2>2, <2>3
<1>15. ASSUME NEW s \in Sessions, NEW c \in Channels, Deliver(s, c)
       PROVE  Goal
  <2>1. \/ worker' = [worker EXCEPT ![s][c] = "notify"]
        \/ worker' = [worker EXCEPT ![s][c] = "waiting"]
    BY <1>15 DEF Deliver
  <2>2. UNCHANGED <<live, open, stopping, stopAt, stopLeft>>
    BY <1>15 DEF Deliver, audioVars, stopVars
  <2>3. \A d \in Channels : worker'[t][d] = "ended" => worker[t][d] = "ended"
    BY ONLY <1>4, <2>1
  <2>4. QED
    BY <2>2, <2>3
<1>16. ASSUME NEW s \in Sessions, NEW c \in Channels, Notify(s, c)
       PROVE  Goal
  BY <1>16 DEF Notify, audioVars, workerVars, stopVars
<1>17. ASSUME NEW s \in Sessions, NEW c \in Channels, WorkerEnds(s, c)
       PROVE  Goal
  BY <1>17 DEF WorkerEnds, audioVars, workerVars, stopVars
<1>18. ASSUME NEW s \in Sessions, NEW c \in Channels, DrainGivesUp(s, c)
       PROVE  Goal
  BY <1>18 DEF DrainGivesUp, audioVars, workerVars, stopVars
<1>19. ASSUME Crash
       PROVE  Goal
  BY <1>19 DEF Crash, RecoverInterrupted, PassGoes, audioVars, workerVars
<1> DEFINE Same == UNCHANGED <<live, open, worker, stopping, stopAt, stopLeft>>
<1>20. ASSUME Same
       PROVE  Goal
  BY <1>20
<1>21. ASSUME NEW s \in Sessions, NEW sources \in SUBSET Channels, StartFails(s, sources)
       PROVE  Same
  BY <1>21 DEF StartFails, SaveSession, audioVars, workerVars, stopVars
<1>22. ASSUME NEW s \in Sessions, NEW c \in Channels, Append(s, c)
       PROVE  Same
  BY <1>22 DEF Append, audioVars, workerVars, stopVars
<1>23. ASSUME NEW s \in Sessions,
              \/ FinalizeBegin(s) \/ SummaryBegin(s) \/ DeleteBegin(s)
       PROVE  Same
  BY <1>23 DEF FinalizeBegin, SummaryBegin, DeleteBegin, audioVars, workerVars, stopVars
<1>24. ASSUME NEW s \in Sessions, NEW title \in Titles, RenameStored(s, title)
       PROVE  Same
  BY <1>24 DEF RenameStored, RenameSession, audioVars, workerVars, stopVars
<1>25. ASSUME NEW c \in Channels, FinalizeChannel(c)
       PROVE  Same
  BY <1>25 DEF FinalizeChannel, audioVars, workerVars, stopVars
<1>26. ASSUME \/ FinalizeLoad \/ FinalizeMark \/ FinalizeSettle \/ FinalizeRestore
              \/ FinalizeFail \/ FinalizeReplace \/ FinalizeClose \/ FinalizeReturns
              \/ Summary \/ DeleteRows \/ DeleteFiles \/ Quit \/ UNCHANGED vars
       PROVE  Same
  BY <1>26 DEF FinalizeLoad, PassGoes, FinalizeMark, SaveSession, FinalizeSettle,
     FinalizeRestore, FinalizeFail, FinalizeReplace, ReplaceTranscript, FinalizeClose,
     FinalizeReturns, Summary, SaveSummary, DeleteRows, DeleteSession, DeleteFiles, Quit,
     vars, audioVars, workerVars, stopVars
<1> HIDE DEF Goal, Same
<1>27. Goal
  BY <1>5, <1>6, <1>7, <1>8, <1>9, <1>10, <1>11, <1>12, <1>13, <1>14, <1>15, <1>16, <1>17,
     <1>18, <1>19, <1>20, <1>21, <1>22, <1>23, <1>24, <1>25, <1>26 DEF Next, UserStep,
     StopStep, WorkerStep, PassStep, MainStep
<1>28. QED
  BY <1>27 DEF Goal

\* A row is closed by the stop that has drained its channels, by the pass that has replaced
\* its transcript, or by one that puts it back as it was; nobody touches what it says after
\* that.
LEMMA RowIsCompleteStep ==
  ASSUME IInv, CompleteInv, [Next]_vars, NEW t \in Sessions
  PROVE  RowIsComplete(t)'
<1>1. /\ rows \in [Sessions -> Row \cup {NoRow}]
      /\ segments \in [Sessions -> SUBSET Segments]
      /\ missed \in [Sessions -> SUBSET Segments]
      /\ length \in [Sessions -> [Channels -> 0 .. MaxAudio]]
  BY DEF IInv, TypeOK, StoreTypeOK, AudioTypeOK, RestTypeOK
<1>2. RowIsComplete(t)
  BY DEF CompleteInv
<1>3. segments'[t] = segments[t] /\ missed'[t] = missed[t] /\ length'[t] = length[t] =>
         (LiveIsWhole(t)' <=> LiveIsWhole(t)) /\ (FinalIsWhole(t)' <=> FinalIsWhole(t))
  BY WholeSame
<1>4. stopAt[t] # "idle" => stopCopy[t] \in Row /\ stopCopy[t].transcript = "live"
  BY DEF IInv, OneOwner, OwnedOnce, TypeOK, StopTypeOK
<1>5. passAt \notin {"idle", "load", "summary"} => original \in Row
  BY DEF IInv, TypeOK, PassTypeOK, PassConsistent, PassReads
<1> DEFINE Goal == RowIsComplete(t)'
<1>6. ASSUME NEW s \in Sessions, NEW sources \in SUBSET Channels, Start(s, sources)
      PROVE  Goal
  <2>1. rows'[s] = NewRow(sources) /\ (t # s => rows'[t] = rows[t])
    BY <1>6, <1>1 DEF Start, SaveSession
  <2>2. UNCHANGED <<segments, missed, length, deleted>>
    BY <1>6 DEF Start, SaveSession, historyVars
  <2>3. QED
    BY <1>2, <1>3, <2>1, <2>2, NewRowIsRow
       DEF RowIsComplete, CompleteAs, Kept
<1>7. ASSUME NEW s \in Sessions, NEW sources \in SUBSET Channels, StartFails(s, sources)
      PROVE  Goal
  <2>1. rows'[t] = rows[t] \/ rows'[t] = NewRow(sources)
    BY <1>7, <1>1 DEF StartFails, SaveSession, storeVars
  <2>2. UNCHANGED <<segments, missed, length, deleted>>
    BY <1>7 DEF StartFails, SaveSession, storeVars, historyVars
  <2>3. QED
    BY <1>2, <1>3, <2>1, <2>2, NewRowIsRow
       DEF RowIsComplete, CompleteAs, Kept
<1>8. ASSUME NEW s \in Sessions, NEW c \in Channels, Append(s, c)
      PROVE  Goal
  <2>1. UNCHANGED <<rows, segments, missed, deleted>>
    BY <1>8 DEF Append, storeVars, historyVars
  <2>2. length'[t] = length[t] \/ open[t] # {}
    BY <1>8, <1>1 DEF Append
  <2>3. open[t] # {} => rows[t].status # "stopped"
    BY DEF CompleteInv, OpenIsRecording
  <2>4. QED
    BY <1>2, <1>3, <2>1, <2>2, <2>3
       DEF RowIsComplete, CompleteAs, Kept
<1>9. ASSUME NEW s \in Sessions, NEW title \in Titles, RenameLive(s, title)
      PROVE  Goal
  <2>1. rows'[t] = rows[t] \/ (t = s /\ rows'[t] = WithTitle(live[t], title))
    BY <1>9, <1>1 DEF RenameLive, SaveSession, storeVars
  <2>2. UNCHANGED <<segments, missed, length, deleted>> /\ live[s] # NoRow
    BY <1>9 DEF RenameLive, SaveSession, storeVars, audioVars
  <2>3. live[t] # NoRow => WithTitle(live[t], title).status = "recording"
    BY WithTitleIsRow DEF IInv, LiveIsRecording, TypeOK, StopTypeOK
  <2>4. QED
    BY <1>2, <1>3, <2>1, <2>2, <2>3
       DEF RowIsComplete, CompleteAs, Kept
<1>10. ASSUME NEW s \in Sessions, NEW title \in Titles, RenameStored(s, title)
       PROVE  Goal
  <2>1. rows'[t] = rows[t] \/ (rows[t] # NoRow /\ rows'[t] = WithTitle(rows[t], title))
    BY <1>10, <1>1 DEF RenameStored, RenameSession
  <2>2. UNCHANGED <<segments, missed, length, deleted>>
    BY <1>10 DEF RenameStored, RenameSession, audioVars
  <2>3. rows[t] # NoRow =>
           /\ WithTitle(rows[t], title).status = rows[t].status
           /\ WithTitle(rows[t], title).transcript = rows[t].transcript
           /\ WithTitle(rows[t], title).error = rows[t].error
           /\ WithTitle(rows[t], title).count = rows[t].count
    BY <1>1, WithTitleIsRow, CopiesKeep
  <2>4. QED
    BY <1>2, <1>3, <2>1, <2>2, <2>3
       DEF RowIsComplete, CompleteAs, Kept
<1>11. ASSUME NEW s \in Sessions, StopMark(s)
       PROVE  Goal
  <2>1. rows'[t] = rows[t] \/ (t = s /\ rows'[t] = WithStatus(stopCopy[t], "transcribing"))
    BY <1>11, <1>1 DEF StopMark, SaveSession, storeVars
  <2>2. UNCHANGED <<segments, missed, length, deleted>> /\ stopAt[s] = "mark"
    BY <1>11 DEF StopMark, SaveSession, storeVars, audioVars, historyVars
  <2>3. stopAt[t] # "idle" =>
           WithStatus(stopCopy[t], "transcribing").status = "transcribing"
    BY <1>4, WithStatusIsRow DEF Statuses
  <2>4. QED
    BY <1>2, <1>3, <2>1, <2>2, <2>3
       DEF RowIsComplete, CompleteAs, Kept
<1>12. ASSUME NEW s \in Sessions, StopClose(s)
       PROVE  Goal
  <2>1. rows'[t] = rows[t] \/ (t = s /\ rows'[t] = WithStatus(stopCopy[t], "stopped"))
    BY <1>12, <1>1 DEF StopClose, SaveSession
  <2>2. UNCHANGED <<segments, missed, length, deleted>> /\ stopAt[s] = "close"
    BY <1>12 DEF StopClose, SaveSession, audioVars, historyVars
  <2>3. t = s =>
           /\ WithStatus(stopCopy[t], "stopped").transcript = "live"
           /\ WithStatus(stopCopy[t], "stopped").count = Cardinality(segments[t])
           /\ LiveIsWhole(t)
    <3> SUFFICES ASSUME t = s
                 PROVE  /\ WithStatus(stopCopy[t], "stopped").transcript = "live"
                        /\ WithStatus(stopCopy[t], "stopped").count
                             = Cardinality(segments[t])
                        /\ LiveIsWhole(t)
      OBVIOUS
    <3>1. stopCopy[t] \in Row /\ stopCopy[t].transcript = "live"
      BY <1>4, <2>2
    <3>2. stopCopy[t].count = Cardinality(segments[t])
      BY <2>2 DEF CompleteInv, StopIsSound
    <3>3. /\ WithStatus(stopCopy[t], "stopped").transcript = "live"
          /\ WithStatus(stopCopy[t], "stopped").count = stopCopy[t].count
      BY <3>1, WithStatusIsRow, CopiesKeep DEF Statuses
    <3>4. LiveIsWhole(t)
      BY <2>2, DrainedIsComplete
    <3>5. QED
      BY <3>2, <3>3, <3>4
  <2>4. QED
    BY <1>2, <1>3, <2>1, <2>2, <2>3
       DEF RowIsComplete, CompleteAs, Kept
<1>13. ASSUME NEW s \in Sessions, NEW c \in Channels, Decode(s, c)
       PROVE  Goal
  <2>1. Owned(s)
    BY <1>13, WorkerIsOwned DEF Decode
  <2>2. UNCHANGED <<rows, length, deleted>>
    BY <1>13 DEF Decode, storeVars, audioVars
  <2>3. t # s => segments'[t] = segments[t] /\ missed'[t] = missed[t]
    BY <1>13, <1>1 DEF Decode, storeVars, audioVars
  <2>4. QED
    BY <1>2, <1>3, <2>1, <2>2, <2>3, OwnedIsMidFlight DEF RowIsComplete, CompleteAs, Kept,
       MidFlight
<1>14. ASSUME NEW s \in Sessions, NEW c \in Channels, Deliver(s, c)
       PROVE  Goal
  <2>1. Owned(s)
    BY <1>14, WorkerIsOwned DEF Deliver
  <2>2. UNCHANGED <<rows, length, deleted>>
    BY <1>14 DEF Deliver, AddSegments, storeVars, audioVars
  <2>3. t # s => segments'[t] = segments[t] /\ missed'[t] = missed[t]
    BY <1>14, <1>1 DEF Deliver, AddSegments, storeVars, audioVars
  <2>4. QED
    BY <1>2, <1>3, <2>1, <2>2, <2>3, OwnedIsMidFlight DEF RowIsComplete, CompleteAs, Kept,
       MidFlight
<1>15. ASSUME NEW s \in Sessions, NEW c \in Channels, DrainGivesUp(s, c)
       PROVE  Goal
  <2>1. Owned(s)
    BY <1>15, WorkerIsOwned DEF DrainGivesUp
  <2>2. UNCHANGED <<rows, length, deleted>>
    BY <1>15 DEF DrainGivesUp, storeVars, audioVars
  <2>3. t # s => segments'[t] = segments[t] /\ missed'[t] = missed[t]
    BY <1>15, <1>1 DEF DrainGivesUp, storeVars, audioVars
  <2>4. QED
    BY <1>2, <1>3, <2>1, <2>2, <2>3, OwnedIsMidFlight DEF RowIsComplete, CompleteAs, Kept,
       MidFlight
<1>16. ASSUME FinalizeMark
       PROVE  Goal
  <2>1. /\ passAt = "mark"
        /\ rows' = [rows EXCEPT ![passOf] =
                      WithStatus(original, "finalizing")]
        /\ UNCHANGED <<segments, missed, length, deleted>>
    BY <1>16 DEF FinalizeMark, SaveSession, audioVars, historyVars
  <2>2. WithStatus(original, "finalizing").status = "finalizing"
    BY <1>5, <2>1, WithStatusIsRow DEF Statuses
  <2>3. QED
    BY <1>1, <1>2, <1>3, <2>1, <2>2
       DEF RowIsComplete, CompleteAs, Kept
<1>17. ASSUME FinalizeRestore
       PROVE  Goal
  <2>1. /\ passAt = "restore"
        /\ rows' = [rows EXCEPT ![passOf] =
                      original]
        /\ UNCHANGED <<segments, missed, length, deleted>>
    BY <1>17 DEF FinalizeRestore, SaveSession, audioVars, historyVars
  <2>2. t = passOf /\ t \notin deleted => CompleteAs(t, original)
    BY <2>1 DEF CompleteInv, PassIsComplete, Finalizing
  <2>3. rows'[t] = IF t = passOf THEN original ELSE rows[t]
    BY <1>1, <2>1
  <2>4. QED
    BY <1>2, <1>3, <2>1, <2>2, <2>3
       DEF RowIsComplete, CompleteAs, Kept
<1>18. ASSUME FinalizeFail
       PROVE  Goal
  <2>1. /\ passAt = "fail"
        /\ rows' = [rows EXCEPT ![passOf] =
                      WithError(WithStatus(original, "stopped"), TRUE)]
        /\ UNCHANGED <<segments, missed, length, deleted>>
    BY <1>18 DEF FinalizeFail, SaveSession, audioVars, historyVars
  <2>2. WithError(WithStatus(original, "stopped"), TRUE).error
    BY <1>5, <2>1, WithStatusIsRow, CopiesKeep DEF Statuses
  <2>3. QED
    BY <1>1, <1>2, <1>3, <2>1, <2>2
       DEF RowIsComplete, CompleteAs, Kept
<1>19. ASSUME FinalizeReplace
       PROVE  Goal
  <2>1. UNCHANGED <<missed, length, deleted>> /\ passAt = "replace"
    BY <1>19 DEF FinalizeReplace, audioVars, historyVars
  <2>2. CASE UNCHANGED storeVars
    BY <1>2, <1>3, <2>1, <2>2 DEF RowIsComplete, CompleteAs, Kept, storeVars
  <2>3. CASE ReplaceTranscript(passOf, final)
    <3>1. Cardinality(final) \in Nat
      BY FS_CardinalityType DEF IInv, FiniteTranscripts
    <3>2. /\ rows[passOf] # NoRow
          /\ rows' = [rows EXCEPT ![passOf] = WithFinal(rows[passOf], Cardinality(final))]
          /\ segments' = [segments EXCEPT ![passOf] = final]
      BY <2>3 DEF ReplaceTranscript
    <3>3. CASE t = passOf
      <4>1. /\ rows'[t].transcript = "final"
            /\ rows'[t].count = Cardinality(final)
            /\ segments'[t] = final
        BY <1>1, <3>1, <3>2, <3>3, WithFinalIsRow, CopiesKeep
      <4>2. t \notin deleted => final = Spoken(t, "final")
        BY <2>1, <3>3 DEF CompleteInv, PassIsComplete, Finalizing
      <4>3. Spoken(t, "final")' = Spoken(t, "final")
        BY <2>1, SpokenSame
      <4>4. QED
        BY <2>1, <4>1, <4>2, <4>3 DEF RowIsComplete, CompleteAs, Kept, FinalIsWhole
    <3>4. CASE t # passOf
      BY <1>2, <1>3, <2>1, <3>2, <3>4 DEF RowIsComplete, CompleteAs, Kept
    <3>5. QED
      BY <3>3, <3>4
  <2>4. QED
    BY <1>19, <2>2, <2>3 DEF FinalizeReplace
<1>20. ASSUME FinalizeClose
       PROVE  Goal
  <2>1. /\ passAt = "close"
        /\ rows' = [rows EXCEPT ![passOf] =
                      WithError(WithFinal(WithStatus(original, "stopped"),
                                          Cardinality(final)), FALSE)]
        /\ UNCHANGED <<segments, missed, length, deleted>>
    BY <1>20 DEF FinalizeClose, SaveSession, audioVars, historyVars
  <2>2. CASE t = passOf
    <3>1. Cardinality(final) \in Nat /\ original \in Row
      BY <1>5, <2>1, FS_CardinalityType DEF IInv, FiniteTranscripts
    <3>2. WithStatus(original, "stopped") \in Row
      BY <3>1, WithStatusIsRow DEF Statuses
    <3>3. /\ WithFinal(WithStatus(original, "stopped"), Cardinality(final)) \in Row
          /\ WithFinal(WithStatus(original, "stopped"), Cardinality(final)).transcript
               = "final"
          /\ WithFinal(WithStatus(original, "stopped"), Cardinality(final)).count
               = Cardinality(final)
      BY <3>1, <3>2, WithFinalIsRow, CopiesKeep
    <3>4. rows'[t].transcript = "final" /\ rows'[t].count = Cardinality(final)
      BY <1>1, <2>1, <2>2, <3>3, WithErrorIsRow, CopiesKeep
    <3>5. t \notin deleted => FinalIsWhole(t) /\ segments[t] = final
      BY <2>1, <2>2 DEF CompleteInv, PassIsComplete, Finalizing, FinalIsWhole
    <3>6. QED
      BY <1>3, <2>1, <3>4, <3>5 DEF RowIsComplete, CompleteAs, Kept
  <2>3. CASE t # passOf
    BY <1>1, <1>2, <1>3, <2>1, <2>3 DEF RowIsComplete, CompleteAs, Kept
  <2>4. QED
    BY <2>2, <2>3
<1>21. ASSUME DeleteRows
       PROVE  Goal
  <2>1. UNCHANGED <<missed, length>>
    BY <1>21 DEF DeleteRows, audioVars
  <2>2. \/ UNCHANGED <<rows, segments, deleted>>
        \/ /\ deleted' = deleted \cup {mainOf}
           /\ t # mainOf => rows'[t] = rows[t] /\ segments'[t] = segments[t]
    BY <1>21, <1>1 DEF DeleteRows, DeleteSession, storeVars
  <2>3. QED
    BY <1>2, <1>3, <2>1, <2>2
       DEF RowIsComplete, CompleteAs, Kept
<1>22. ASSUME DeleteFiles
       PROVE  Goal
  <2>1. UNCHANGED <<rows, segments, missed, deleted>>
    BY <1>22 DEF DeleteFiles, storeVars, historyVars
  <2>2. length'[t] = length[t] \/ t \in deleted
    BY <1>22, <1>1 DEF DeleteFiles, CompleteInv, DeletedFirst
  <2>3. QED
    BY <1>2, <1>3, <2>1, <2>2
       DEF RowIsComplete, CompleteAs, Kept
<1>23. ASSUME Crash
       PROVE  Goal
  <2>1. \/ rows'[t] = rows[t]
        \/ rows[t] # NoRow /\ rows'[t] = WithStatus(rows[t], "interrupted")
    BY <1>23, <1>1 DEF Crash, RecoverInterrupted
  <2>2. UNCHANGED <<segments, missed, length, deleted>>
    BY <1>23 DEF Crash, RecoverInterrupted, historyVars
  <2>3. rows[t] # NoRow => WithStatus(rows[t], "interrupted").status = "interrupted"
    BY <1>1, WithStatusIsRow DEF Statuses
  <2>4. QED
    BY <1>2, <1>3, <2>1, <2>2, <2>3
       DEF RowIsComplete, CompleteAs, Kept
<1> DEFINE Same == UNCHANGED <<rows, segments, length, missed, deleted>>
<1>24. ASSUME Same
       PROVE  Goal
  BY <1>24, <1>2, <1>3 DEF RowIsComplete, CompleteAs, Kept
<1>25. ASSUME NEW s \in Sessions,
              \/ StopBegin(s) \/ FinalizeBegin(s) \/ SummaryBegin(s) \/ DeleteBegin(s)
              \/ StopCount(s) \/ StopFails(s)
       PROVE  Same
  BY <1>25 DEF StopBegin, FinalizeBegin, SummaryBegin, DeleteBegin, StopCount, StopFails,
     StopRests, storeVars, audioVars, historyVars
<1>26. ASSUME NEW s \in Sessions, NEW c \in Channels,
              \/ StopChannel(s, c) \/ JoinChannel(s, c) \/ Notify(s, c) \/ WorkerEnds(s, c)
       PROVE  Same
  BY <1>26 DEF StopChannel, JoinChannel, StopRests, Notify, WorkerEnds, storeVars,
     audioVars, historyVars
<1>27. ASSUME NEW c \in Channels, FinalizeChannel(c)
       PROVE  Same
  BY <1>27 DEF FinalizeChannel, storeVars, audioVars, historyVars
<1>28. ASSUME \/ FinalizeLoad \/ FinalizeSettle \/ FinalizeReturns \/ Summary \/ Quit
              \/ UNCHANGED vars
       PROVE  Same
  BY <1>28 DEF FinalizeLoad, PassGoes, FinalizeSettle, FinalizeReturns, Summary,
     SaveSummary, Quit, vars, storeVars, audioVars, historyVars
<1> HIDE DEF Goal, Same
<1>29. Goal
  BY <1>6, <1>7, <1>8, <1>9, <1>10, <1>11, <1>12, <1>13, <1>14, <1>15, <1>16, <1>17, <1>18,
     <1>19, <1>20, <1>21, <1>22, <1>23, <1>24, <1>25, <1>26, <1>27, <1>28 DEF Next,
     UserStep, StopStep, WorkerStep, PassStep, MainStep
<1>30. QED
  BY <1>29 DEF Goal

\* A pass works on a session nobody records or deletes any more: what it has read of it
\* stays true, and what it decodes of a channel is all of it.
LEMMA PassIsCompleteStep ==
  ASSUME IInv, CompleteInv, [Next]_vars, NEW t \in Sessions
  PROVE  PassIsComplete(t)'
<1>1. /\ rows \in [Sessions -> Row \cup {NoRow}]
      /\ segments \in [Sessions -> SUBSET Segments]
      /\ missed \in [Sessions -> SUBSET Segments]
      /\ length \in [Sessions -> [Channels -> 0 .. MaxAudio]]
  BY DEF IInv, TypeOK, StoreTypeOK, AudioTypeOK, RestTypeOK
<1>2. PassIsComplete(t)
  BY DEF CompleteInv
<1>3. segments'[t] = segments[t] /\ missed'[t] = missed[t] /\ length'[t] = length[t] =>
         (LiveIsWhole(t)' <=> LiveIsWhole(t)) /\ (FinalIsWhole(t)' <=> FinalIsWhole(t))
  BY WholeSame
<1>4. ASSUME UNCHANGED <<passAt, passOf, original, passLeft, final, failed>>,
             \/ ~Finalizing(t) \/ t \in deleted'
             \/ /\ segments'[t] = segments[t] /\ missed'[t] = missed[t]
                /\ length'[t] = length[t] /\ (t \in deleted => t \in deleted')
      PROVE  PassIsComplete(t)'
  <2>1. PassIsComplete(t)' <=>
           /\ passAt \in {"idle", "load", "mark", "summary"} => final = {} /\ ~failed
           /\ Finalizing(t) /\ t \notin deleted' =>
                /\ passAt \notin {"load", "close"} => CompleteAs(t, original)'
                /\ passAt = "channels" /\ ~failed =>
                     final = UNION {SegmentsOf("final", c, 1 .. length'[t][c]) :
                                    c \in Channels \ passLeft}
                /\ passAt \in {"replace", "close"} => final = Spoken(t, "final")'
                /\ passAt = "close" => segments'[t] = final
    BY <1>4 DEF PassIsComplete, Finalizing, SegmentsOf
  <2>2. CASE ~Finalizing(t) \/ t \in deleted'
    BY <1>2, <2>1, <2>2 DEF PassIsComplete
  <2>3. CASE /\ segments'[t] = segments[t] /\ missed'[t] = missed[t]
             /\ length'[t] = length[t] /\ (t \in deleted => t \in deleted')
    <3>1. CompleteAs(t, original)' <=> CompleteAs(t, original)
      BY <1>3, <1>4, <2>3 DEF CompleteAs
    <3>2. Spoken(t, "final")' = Spoken(t, "final")
      BY <2>3, SpokenSame
    <3>3. QED
      BY <1>2, <2>1, <2>3, <3>1, <3>2 DEF PassIsComplete
  <2>4. QED
    BY <1>4, <2>2, <2>3
<1> DEFINE Goal == PassIsComplete(t)'
<1>5. ASSUME NEW s \in Sessions, NEW c \in Channels, Append(s, c)
      PROVE  Goal
  <2>1. UNCHANGED <<passAt, passOf, original, passLeft, final, failed, segments, missed,
                    deleted>>
    BY <1>5 DEF Append, storeVars, passVars, historyVars
  <2>2. length'[t] = length[t] \/ open[t] # {}
    BY <1>5, <1>1 DEF Append
  <2>3. open[t] # {} => ~Finalizing(t)
    BY DEF CompleteInv, OpenIsRecording
  <2>4. QED
    BY <1>2, <1>3, <1>4, <2>1, <2>2, <2>3
<1>6. ASSUME NEW s \in Sessions, FinalizeBegin(s)
      PROVE  Goal
  <2>1. passAt' = "load" /\ passAt = "idle" /\ UNCHANGED <<final, failed>>
    BY <1>6 DEF FinalizeBegin
  <2>2. QED
    BY <1>2, <2>1 DEF PassIsComplete, CompleteAs, Finalizing
<1>7. ASSUME NEW s \in Sessions, SummaryBegin(s)
      PROVE  Goal
  <2>1. passAt' = "summary" /\ passAt = "idle" /\ UNCHANGED <<final, failed>>
    BY <1>7 DEF SummaryBegin
  <2>2. QED
    BY <1>2, <2>1 DEF PassIsComplete, CompleteAs, Finalizing
<1>8. ASSUME NEW s \in Sessions, NEW c \in Channels, Decode(s, c)
      PROVE  Goal
  <2>1. Owned(s)
    BY <1>8, WorkerIsOwned DEF Decode
  <2>2. UNCHANGED <<passAt, passOf, original, passLeft, final, failed, length, deleted>>
    BY <1>8 DEF Decode, storeVars, audioVars, passVars
  <2>3. t # s => segments'[t] = segments[t] /\ missed'[t] = missed[t]
    BY <1>8, <1>1 DEF Decode, storeVars, audioVars, passVars
  <2>4. QED
    BY <1>2, <1>3, <1>4, <2>1, <2>2, <2>3, OwnedIsMidFlight
<1>9. ASSUME NEW s \in Sessions, NEW c \in Channels, Deliver(s, c)
      PROVE  Goal
  <2>1. Owned(s)
    BY <1>9, WorkerIsOwned DEF Deliver
  <2>2. UNCHANGED <<passAt, passOf, original, passLeft, final, failed, length, deleted>>
    BY <1>9 DEF Deliver, AddSegments, storeVars, audioVars, passVars
  <2>3. t # s => segments'[t] = segments[t] /\ missed'[t] = missed[t]
    BY <1>9, <1>1 DEF Deliver, AddSegments, storeVars, audioVars, passVars
  <2>4. QED
    BY <1>2, <1>3, <1>4, <2>1, <2>2, <2>3, OwnedIsMidFlight
<1>10. ASSUME NEW s \in Sessions, NEW c \in Channels, DrainGivesUp(s, c)
       PROVE  Goal
  <2>1. Owned(s)
    BY <1>10, WorkerIsOwned DEF DrainGivesUp
  <2>2. UNCHANGED <<passAt, passOf, original, passLeft, final, failed, length, deleted>>
    BY <1>10 DEF DrainGivesUp, storeVars, audioVars, passVars
  <2>3. t # s => segments'[t] = segments[t] /\ missed'[t] = missed[t]
    BY <1>10, <1>1 DEF DrainGivesUp, storeVars, audioVars, passVars
  <2>4. QED
    BY <1>2, <1>3, <1>4, <2>1, <2>2, <2>3, OwnedIsMidFlight
<1>11. ASSUME FinalizeLoad
       PROVE  Goal
  <2>1. CASE rows[passOf] = NoRow
    <3>1. passAt' = "idle" /\ final' = {} /\ ~failed'
      BY <1>11, <2>1 DEF FinalizeLoad, PassGoes
    <3>2. QED
      BY <3>1 DEF PassIsComplete, CompleteAs, Finalizing
  <2>2. CASE rows[passOf] # NoRow
    <3>1. /\ passAt = "load" /\ passAt' = "mark"
          /\ original' = rows[passOf]
          /\ UNCHANGED <<passOf, passLeft, final, failed, segments, missed, length,
                         deleted>>
      BY <1>11, <2>2 DEF FinalizeLoad, storeVars, audioVars, historyVars
    <3>2. t = passOf /\ t \notin deleted => CompleteAs(t, rows[t])
      BY <2>2 DEF CompleteInv, RowIsComplete, Kept
    <3>3. QED
      BY <1>2, <1>3, <3>1, <3>2 DEF PassIsComplete, CompleteAs, Finalizing
  <2>3. QED
    BY <2>1, <2>2
<1>12. ASSUME FinalizeMark
       PROVE  Goal
  <2>1. /\ passAt = "mark" /\ passAt' = "channels"
        /\ passLeft' = original.sources
        /\ UNCHANGED <<passOf, original, final, failed, segments, missed, length, deleted>>
    BY <1>12 DEF FinalizeMark, SaveSession, audioVars, historyVars
  <2>2. Finalizing(t) /\ t \notin deleted =>
           \A c \in Channels \ original.sources : length[t][c] = 0
    BY <2>1 DEF CompleteInv, Covered, Touched
  <2>3. Finalizing(t) /\ t \notin deleted =>
           {} = UNION {SegmentsOf("final", c, 1 .. length[t][c]) :
                       c \in Channels \ original.sources}
    BY <2>2, NothingHeard
  <2>4. QED
    BY <1>2, <1>3, <2>1, <2>3 DEF PassIsComplete, CompleteAs, Finalizing
<1>13. ASSUME NEW c \in Channels, FinalizeChannel(c)
       PROVE  Goal
  <2>1. /\ passAt = "channels" /\ passAt' = passAt /\ c \in passLeft
        /\ UNCHANGED <<passOf, original, segments, missed, length, deleted>>
    BY <1>13 DEF FinalizeChannel, storeVars, audioVars, historyVars
  <2>2. CASE failed'
    BY <1>2, <1>3, <2>1, <2>2 DEF PassIsComplete, CompleteAs, Finalizing
  <2>3. CASE ~failed'
    <3> DEFINE Part(left) == UNION {SegmentsOf("final", d, 1 .. length[t][d]) :
                                    d \in Channels \ left}
    <3>1. /\ passLeft' = passLeft \ {c} /\ ~failed
          /\ \/ c \notin recorded[passOf] /\ final' = final
             \/ final' = final \cup SegmentsOf("final", c, 1 .. length[passOf][c])
      BY <1>13, <2>3 DEF FinalizeChannel
    <3>2. Part(passLeft \ {c})
             = Part(passLeft) \cup SegmentsOf("final", c, 1 .. length[t][c])
      BY <2>1
    <3>3. Finalizing(t) /\ t \notin deleted /\ c \notin recorded[t] =>
             SegmentsOf("final", c, 1 .. length[t][c]) = {}
      BY NothingHeard DEF CompleteInv, Covered, Touched
    <3>4. Finalizing(t) /\ t \notin deleted => final = Part(passLeft)
      BY <1>2, <2>1, <3>1 DEF PassIsComplete
    <3>5. Finalizing(t) /\ t \notin deleted => final' = Part(passLeft \ {c})
      BY <3>1, <3>2, <3>3, <3>4 DEF Finalizing
    <3>6. QED
      BY <1>2, <1>3, <2>1, <3>1, <3>5 DEF PassIsComplete, CompleteAs, Finalizing
  <2>4. QED
    BY <2>2, <2>3
<1>14. ASSUME FinalizeSettle
       PROVE  Goal
  <2>1. /\ passAt = "channels" /\ passAt' \in {"restore", "fail", "replace"}
        /\ passAt' = "replace" => passLeft = {} /\ ~failed
        /\ UNCHANGED <<passOf, original, passLeft, final, failed, segments, missed, length,
                       deleted>>
    BY <1>14 DEF FinalizeSettle, storeVars, audioVars, historyVars
  <2>2. Channels \ {} = Channels
    OBVIOUS
  <2>3. Finalizing(t) /\ t \notin deleted /\ passLeft = {} /\ ~failed =>
           final = Spoken(t, "final")
    BY <1>2, <2>1, <2>2 DEF PassIsComplete, Spoken
  <2>4. QED
    BY <1>2, <1>3, <2>1, <2>3, SpokenSame DEF PassIsComplete, CompleteAs, Finalizing
<1>15. ASSUME FinalizeRestore
       PROVE  Goal
  <2>1. passAt' \in {"idle", "summary"} /\ final' = {} /\ ~failed'
    BY <1>15 DEF FinalizeRestore, PassGoes
  <2>2. QED
    BY <2>1 DEF PassIsComplete, CompleteAs, Finalizing
<1>16. ASSUME FinalizeFail
       PROVE  Goal
  <2>1. passAt' \in {"idle", "summary"} /\ final' = {} /\ ~failed'
    BY <1>16 DEF FinalizeFail, PassGoes
  <2>2. QED
    BY <2>1 DEF PassIsComplete, CompleteAs, Finalizing
<1>17. ASSUME FinalizeReplace
       PROVE  Goal
  <2>1. CASE PassGoes("idle")
    BY <2>1 DEF PassIsComplete, CompleteAs, Finalizing, PassGoes
  <2>2. CASE ReplaceTranscript(passOf, final) /\ passAt' = "close"
             /\ UNCHANGED <<passOf, original, passLeft, final, failed>>
    <3>1. /\ passAt = "replace"
          /\ segments' = [segments EXCEPT ![passOf] = final]
          /\ UNCHANGED <<missed, length, deleted>>
      BY <1>17, <2>2 DEF FinalizeReplace, ReplaceTranscript, audioVars, historyVars
    <3>2. Finalizing(t) /\ t \notin deleted => final = Spoken(t, "final")
      BY <1>2, <3>1 DEF PassIsComplete
    <3>3. t = passOf => segments'[t] = final
      BY <1>1, <3>1
    <3>4. QED
      BY <2>2, <3>1, <3>2, <3>3, SpokenSame DEF PassIsComplete, CompleteAs, Finalizing
  <2>3. QED
    BY <1>17, <2>1, <2>2 DEF FinalizeReplace
<1>18. ASSUME FinalizeClose
       PROVE  Goal
  <2>1. passAt' \in {"idle", "summary"} /\ final' = {} /\ ~failed'
    BY <1>18 DEF FinalizeClose, PassGoes
  <2>2. QED
    BY <2>1 DEF PassIsComplete, CompleteAs, Finalizing
<1>19. ASSUME FinalizeReturns
       PROVE  Goal
  <2>1. passAt' \in {"idle", "summary"} /\ final' = {} /\ ~failed'
    BY <1>19 DEF FinalizeReturns, PassGoes
  <2>2. QED
    BY <2>1 DEF PassIsComplete, CompleteAs, Finalizing
<1>20. ASSUME Summary
       PROVE  Goal
  <2>1. passAt' \in {"idle", "summary"} /\ final' = {} /\ ~failed'
    BY <1>20 DEF Summary, PassGoes
  <2>2. QED
    BY <2>1 DEF PassIsComplete, CompleteAs, Finalizing
<1>21. ASSUME DeleteRows
       PROVE  Goal
  <2>1. UNCHANGED <<passAt, passOf, original, passLeft, final, failed, missed, length>>
    BY <1>21 DEF DeleteRows, audioVars, passVars
  <2>2. \/ UNCHANGED <<segments, deleted>>
        \/ /\ deleted' = deleted \cup {mainOf}
           /\ t # mainOf => segments'[t] = segments[t]
    BY <1>21, <1>1 DEF DeleteRows, DeleteSession, storeVars
  <2>3. QED
    BY <1>2, <1>3, <1>4, <2>1, <2>2 DEF Finalizing
<1>22. ASSUME DeleteFiles
       PROVE  Goal
  <2>1. UNCHANGED <<passAt, passOf, original, passLeft, final, failed, segments, missed,
                    deleted>>
    BY <1>22 DEF DeleteFiles, storeVars, passVars, historyVars
  <2>2. length'[t] = length[t] \/ t \in deleted
    BY <1>22, <1>1 DEF DeleteFiles, CompleteInv, DeletedFirst
  <2>3. QED
    BY <1>2, <1>3, <1>4, <2>1, <2>2
<1>23. ASSUME Crash
       PROVE  Goal
  <2>1. passAt' \in {"idle", "summary"} /\ final' = {} /\ ~failed'
    BY <1>23 DEF Crash, PassGoes
  <2>2. QED
    BY <2>1 DEF PassIsComplete, CompleteAs, Finalizing
<1> DEFINE Same == UNCHANGED <<segments, length, passAt, passOf, original, passLeft, final,
                              failed, missed, deleted>>
<1>24. ASSUME Same
       PROVE  Goal
  BY <1>24, <1>2, <1>3, <1>4
<1>25. ASSUME NEW s \in Sessions, NEW sources \in SUBSET Channels,
              \/ Start(s, sources) \/ StartFails(s, sources)
       PROVE  Same
  BY <1>25 DEF Start, SaveSession, StartFails, storeVars, audioVars, passVars, historyVars
<1>26. ASSUME NEW s \in Sessions,
              \/ StopBegin(s) \/ DeleteBegin(s) \/ StopMark(s) \/ StopCount(s)
              \/ StopClose(s) \/ StopFails(s)
       PROVE  Same
  BY <1>26 DEF StopBegin, DeleteBegin, StopMark, SaveSession, StopCount, StopClose,
     StopRests, StopFails, storeVars, audioVars, passVars, historyVars
<1>27. ASSUME NEW s \in Sessions, NEW title \in Titles,
              \/ RenameLive(s, title) \/ RenameStored(s, title)
       PROVE  Same
  BY <1>27 DEF RenameLive, SaveSession, RenameStored, RenameSession, storeVars, audioVars,
     passVars, historyVars
<1>28. ASSUME NEW s \in Sessions, NEW c \in Channels,
              \/ StopChannel(s, c) \/ JoinChannel(s, c) \/ Notify(s, c) \/ WorkerEnds(s, c)
       PROVE  Same
  BY <1>28 DEF StopChannel, JoinChannel, StopRests, Notify, WorkerEnds, storeVars,
     audioVars, passVars, historyVars
<1>29. ASSUME \/ Quit \/ UNCHANGED vars
       PROVE  Same
  BY <1>29 DEF Quit, vars, storeVars, audioVars, passVars, historyVars
<1> HIDE DEF Goal, Same
<1>30. Goal
  BY <1>5, <1>6, <1>7, <1>8, <1>9, <1>10, <1>11, <1>12, <1>13, <1>14, <1>15, <1>16, <1>17,
     <1>18, <1>19, <1>20, <1>21, <1>22, <1>23, <1>24, <1>25, <1>26, <1>27, <1>28, <1>29 DEF
     Next, UserStep, StopStep, WorkerStep, PassStep, MainStep
<1>31. QED
  BY <1>30 DEF Goal

\* While a session is recorded or stopped, every step of its workers moves an utterance
\* from the audio to the batch, the transcript or the losses; stop joins them when nothing
\* is left.
LEMMA StopIsSoundStep ==
  ASSUME IInv, CompleteInv, [Next]_vars, NEW t \in Sessions
  PROVE  StopIsSound(t)'
<1>1. /\ live \in [Sessions -> Row \cup {NoRow}]
      /\ open \in [Sessions -> SUBSET Channels]
      /\ stopAt \in [Sessions -> StopAt]
      /\ stopCopy \in [Sessions -> Row \cup {NoRow}]
      /\ segments \in [Sessions -> SUBSET Segments]
      /\ missed \in [Sessions -> SUBSET Segments]
      /\ cursor \in [Sessions -> [Channels -> Nat]]
      /\ length \in [Sessions -> [Channels -> Nat]]
      /\ batch \in [Sessions -> [Channels -> SUBSET Nat]]
      /\ worker \in [Sessions -> [Channels -> WorkerAt]]
  <2>1. 0 .. MaxAudio \subseteq Nat /\ SUBSET Utterances \subseteq SUBSET Nat
    BY RecorderAssumption DEF Utterances
  <2>2. TypeOK
    BY DEF IInv
  <2>3. QED
    BY <2>1, <2>2 DEF TypeOK, StoreTypeOK, AudioTypeOK, WorkerTypeOK, StopTypeOK, RestTypeOK
<1>2. StopIsSound(t) /\ StopOrder(t)
  BY DEF CompleteInv
<1>3. ASSUME /\ cursor'[t] = cursor[t] /\ length'[t] = length[t] /\ batch'[t] = batch[t]
             /\ worker'[t] = worker[t] /\ segments'[t] = segments[t]
             /\ missed'[t] = missed[t]
             /\ open'[t] \subseteq open[t],
             Owned(t)' => Owned(t) /\ t \notin deleted',
             stopAt'[t] \in {"channels", "count", "close"} =>
                \/ stopAt[t] \in {"channels", "count", "close"}
                \/ \A c \in Channels : worker[t][c] # "ended",
             stopAt'[t] = "close" => stopCopy'[t].count = Cardinality(segments[t])
      PROVE  StopIsSound(t)'
  <2>1. ASSUME NEW c \in Channels, Accounted(t, c), Drained(t, c)
        PROVE  Accounted(t, c)' /\ Drained(t, c)'
    BY <1>3, <2>1, ChannelSame
  <2>2. QED
    BY <1>2, <1>3, <2>1 DEF StopIsSound
<1> DEFINE Goal == StopIsSound(t)'
<1>4. ASSUME NEW s \in Sessions, NEW sources \in SUBSET Channels, Start(s, sources)
      PROVE  Goal
  <2>1. /\ UNCHANGED <<segments, missed, cursor, batch, length, stopAt, stopCopy, deleted>>
        /\ s \notin used
        /\ live' = [live EXCEPT ![s] = NewRow(sources)]
        /\ open' = [open EXCEPT ![s] = sources]
        /\ worker' = [worker EXCEPT ![s] =
                        [c \in Channels |-> IF c \in sources THEN "waiting" ELSE "off"]]
    BY <1>4 DEF Start, SaveSession, stopVars, historyVars
  <2>2. CASE t # s
    <3>1. live'[t] = live[t] /\ open'[t] = open[t] /\ worker'[t] = worker[t]
      BY <1>1, <2>1, <2>2
    <3>2. QED
      BY <1>2, <1>3, <2>1, <3>1 DEF StopIsSound, Owned
  <2>3. CASE t = s
    <3>1. /\ Touched(t) = {} /\ missed[t] = {} /\ t \notin deleted
          /\ segments[t] = {} /\ stopAt[t] = "idle"
          /\ \A c \in Channels : cursor[t][c] = 0
      BY <2>1, <2>3 DEF IInv, CompleteInv, FreshIds, Untouched
    <3>2. \A c \in Channels :
             /\ length[t][c] = 0
             /\ worker'[t][c] = IF c \in sources THEN "waiting" ELSE "off"
      BY <1>1, <2>1, <2>3, <3>1 DEF Touched
    <3>3. open'[t] = sources
      BY <1>1, <2>1, <2>3
    <3>4. \A c \in Channels : Accounted(t, c)'
      BY <2>1, <3>1, <3>2, <3>3 DEF Accounted
    <3>5. \A c \in Channels : Drained(t, c)'
      BY <2>1, <3>1 DEF Drained
    <3>6. QED
      BY <2>1, <3>1, <3>4, <3>5 DEF StopIsSound
  <2>4. QED
    BY <2>2, <2>3
<1>5. ASSUME NEW s \in Sessions, NEW c \in Channels, Append(s, c)
      PROVE  Goal
  <2>1. /\ UNCHANGED <<live, open, stopAt, stopCopy, segments, missed, cursor, batch,
                       worker, deleted>>
        /\ c \in open[s]
        /\ length' = [length EXCEPT ![s][c] = @ + 1]
    BY <1>5 DEF Append, storeVars, workerVars, stopVars, historyVars
  <2>2. ASSUME NEW d \in Channels, Accounted(t, d), Drained(t, d)
        PROVE  Accounted(t, d)' /\ Drained(t, d)'
    <3>1. CASE t # s \/ d # c
      <4>1. length'[t][d] = length[t][d]
        BY <1>1, <2>1, <3>1
      <4>2. QED
        BY <2>1, <2>2, <4>1, ChannelSame
    <3>2. CASE t = s /\ d = c
      <4>1. length'[t][d] = length[t][d] + 1
        BY <1>1, <2>1, <3>2
      <4>2. worker[t][d] # "off" /\ Accounted(t, d)'
        BY <1>1, <2>1, <2>2, <3>2, <4>1 DEF Accounted
      <4>3. Drained(t, d)'
        BY <1>2, <2>1, <3>2 DEF Drained, StopOrder
      <4>4. QED
        BY <4>2, <4>3
    <3>3. QED
      BY <3>1, <3>2
  <2>3. QED
    BY <1>2, <2>1, <2>2 DEF StopIsSound, Owned
<1>6. ASSUME NEW s \in Sessions, StopBegin(s)
      PROVE  Goal
  <2>1. UNCHANGED <<segments, missed, cursor, batch, length, worker, deleted>>
    BY <1>6 DEF StopBegin, storeVars, audioVars, workerVars, historyVars
  <2>2. /\ open' = open /\ (stopAt'[t] = stopAt[t] \/ stopAt'[t] = "mark")
        /\ Owned(t)' => Owned(t)
        /\ t # s => stopCopy'[t] = stopCopy[t]
        /\ t = s => stopAt'[t] = "mark"
    BY <1>6, <1>1 DEF StopBegin, audioVars, Owned
  <2>3. QED
    BY <1>2, <1>3, <2>1, <2>2 DEF StopIsSound
<1>7. ASSUME NEW s \in Sessions, NEW title \in Titles, RenameLive(s, title)
      PROVE  Goal
  <2>1. UNCHANGED <<segments, missed, cursor, batch, length, worker, deleted>>
    BY <1>7 DEF RenameLive, SaveSession, storeVars, audioVars, workerVars, historyVars
  <2>2. /\ UNCHANGED <<open, stopAt, stopCopy>>
        /\ Owned(t)' => Owned(t)
    BY <1>7, <1>1 DEF RenameLive, audioVars, stopVars, Owned
  <2>3. QED
    BY <1>2, <1>3, <2>1, <2>2 DEF StopIsSound
<1>8. ASSUME NEW s \in Sessions, StopMark(s)
      PROVE  Goal
  <2>1. UNCHANGED <<segments, missed, cursor, batch, length, worker, deleted>>
    BY <1>8 DEF StopMark, SaveSession, storeVars, audioVars, workerVars, historyVars
  <2>2. /\ UNCHANGED <<live, open>> /\ stopAt[s] = "mark"
        /\ t # s => stopAt'[t] = stopAt[t] /\ stopCopy'[t] = stopCopy[t]
        /\ t = s => stopAt'[t] \in {"channels", "drop"}
    BY <1>8, <1>1 DEF StopMark, audioVars
  <2>3. t = s => \A c \in Channels : worker[t][c] # "ended"
    BY <1>2, <2>2 DEF StopOrder
  <2>4. QED
    BY <1>2, <1>3, <2>1, <2>2, <2>3 DEF StopIsSound, Owned
<1>9. ASSUME NEW s \in Sessions, NEW c \in Channels, StopChannel(s, c)
      PROVE  Goal
  <2>1. UNCHANGED <<segments, missed, cursor, batch, length, worker, deleted>>
    BY <1>9 DEF StopChannel, storeVars, workerVars, historyVars
  <2>2. UNCHANGED <<live, stopAt, stopCopy>> /\ open'[t] \subseteq open[t]
    BY <1>9, <1>1 DEF StopChannel, stopVars
  <2>3. QED
    BY <1>2, <1>3, <2>1, <2>2 DEF StopIsSound, Owned
<1>10. ASSUME NEW s \in Sessions, NEW c \in Channels, JoinChannel(s, c)
       PROVE  Goal
  <2>1. UNCHANGED <<segments, missed, cursor, batch, length, worker, deleted>>
    BY <1>10 DEF JoinChannel, storeVars, audioVars, workerVars, historyVars
  <2>2. /\ UNCHANGED <<live, open>>
        /\ \/ stopAt'[t] = stopAt[t] /\ stopCopy'[t] = stopCopy[t]
           \/ stopAt'[t] = "count" /\ stopAt[t] = "channels"
           \/ stopAt'[t] = "idle"
    BY <1>10, <1>1 DEF JoinChannel, StopRests, audioVars
  <2>3. QED
    BY <1>2, <1>3, <2>1, <2>2 DEF StopIsSound, Owned
<1>11. ASSUME NEW s \in Sessions, StopCount(s)
       PROVE  Goal
  <2>1. UNCHANGED <<segments, missed, cursor, batch, length, worker, deleted>>
    BY <1>11 DEF StopCount, storeVars, audioVars, workerVars, historyVars
  <2>2. /\ UNCHANGED <<live, open>> /\ stopAt[s] = "count"
        /\ t # s => stopAt'[t] = stopAt[t] /\ stopCopy'[t] = stopCopy[t]
        /\ t = s => /\ stopAt'[t] = "close"
                    /\ stopCopy'[t] = WithCount(stopCopy[t], Cardinality(segments[t]))
    BY <1>11, <1>1 DEF StopCount, audioVars
  <2>3. t = s => stopCopy'[t].count = Cardinality(segments[t])
    <3>1. Cardinality(segments[t]) \in Nat
      BY FS_CardinalityType DEF IInv, FiniteTranscripts
    <3>2. stopAt[t] # "idle" => stopCopy[t] \in Row
      BY DEF IInv, OneOwner, OwnedOnce, TypeOK, StopTypeOK
    <3>3. QED
      BY <2>2, <3>1, <3>2, CopiesKeep
  <2>4. QED
    BY <1>2, <1>3, <2>1, <2>2, <2>3 DEF StopIsSound, Owned
<1>12. ASSUME NEW s \in Sessions, StopClose(s)
       PROVE  Goal
  <2>1. UNCHANGED <<segments, missed, cursor, batch, length, worker, deleted>>
    BY <1>12 DEF StopClose, SaveSession, storeVars, audioVars, workerVars, historyVars
  <2>2. /\ UNCHANGED <<live, open>>
        /\ \/ stopAt'[t] = stopAt[t] /\ stopCopy'[t] = stopCopy[t]
           \/ stopAt'[t] = "idle"
    BY <1>12, <1>1 DEF StopClose, StopRests, audioVars
  <2>3. QED
    BY <1>2, <1>3, <2>1, <2>2 DEF StopIsSound, Owned
<1>13. ASSUME NEW s \in Sessions, StopFails(s)
       PROVE  Goal
  <2>1. UNCHANGED <<segments, missed, cursor, batch, length, worker, deleted>>
    BY <1>13 DEF StopFails, SaveSession, storeVars, audioVars, workerVars, historyVars
  <2>2. /\ UNCHANGED <<live, open>>
        /\ \/ stopAt'[t] = stopAt[t] /\ stopCopy'[t] = stopCopy[t]
           \/ stopAt'[t] = "idle"
    BY <1>13, <1>1 DEF StopFails, StopRests, audioVars
  <2>3. QED
    BY <1>2, <1>3, <2>1, <2>2 DEF StopIsSound, Owned
<1>14. ASSUME NEW s \in Sessions, NEW c \in Channels, Decode(s, c)
       PROVE  Goal
  <2>1. /\ UNCHANGED <<live, open, length, stopAt, stopCopy, deleted>>
        /\ worker[s][c] \in {"waiting", "deliver", "notify"} /\ worker[s][c] = "waiting"
    BY <1>14 DEF Decode, storeVars, audioVars, stopVars, historyVars
  <2>2. CASE t # s
    <3>1. /\ cursor'[t] = cursor[t] /\ worker'[t] = worker[t] /\ batch'[t] = batch[t]
          /\ segments'[t] = segments[t] /\ missed'[t] = missed[t]
      BY <1>14, <1>1, <2>2 DEF Decode, storeVars, audioVars, stopVars, historyVars
    <3>2. QED
      BY <1>2, <1>3, <2>1, <3>1 DEF StopIsSound, Owned
  <2>3. CASE t = s
    <3>1. /\ Owned(t) /\ t \notin deleted
          /\ \A d \in Channels : Accounted(t, d) /\ Drained(t, d)
          /\ stopAt[t] # "close"
      BY <1>2, <2>1, <2>3, WorkerIsOwned, NotYetJoined DEF StopIsSound
    <3>2. PICK upto \in Heard(s, c, length[s][c]) :
             /\ cursor' = [cursor EXCEPT ![s][c] = upto]
             /\ segments' = segments
             /\ \/ /\ worker' = [worker EXCEPT ![s][c] = "deliver"]
                   /\ batch' = [batch EXCEPT ![s][c] = Heard(s, c, upto)]
                   /\ missed' = missed
                \/ /\ missed' = [missed EXCEPT ![s] =
                                 @ \cup SegmentsOf("live", c, Heard(s, c, upto))]
                   /\ UNCHANGED <<worker, batch>>
      BY <1>14 DEF Decode, storeVars
    <3>3. ASSUME NEW d \in Channels, d # c
          PROVE  Accounted(t, d)' /\ Drained(t, d)'
      <4>1. /\ cursor'[t][d] = cursor[t][d] /\ worker'[t][d] = worker[t][d]
            /\ batch'[t][d] = batch[t][d] /\ length'[t][d] = length[t][d]
            /\ open'[t] = open[t] /\ stopAt'[t] = stopAt[t]
            /\ \A k \in Nat :
                 <<"live", d, k>> \in segments'[t] <=> <<"live", d, k>> \in segments[t]
            /\ \A k \in Nat :
                 <<"live", d, k>> \in missed'[t] <=> <<"live", d, k>> \in missed[t]
        BY <1>1, <2>1, <2>3, <3>2, <3>3 DEF SegmentsOf, Batch
      <4>2. Accounted(t, d) /\ Drained(t, d)
        BY <3>1
      <4>3. QED
        BY <4>1, <4>2, ChannelSame
    <3>4. /\ upto \in Nat /\ cursor[t][c] < upto /\ upto <= length[t][c]
          /\ Heard(s, c, upto) = (cursor[t][c] + 1) .. upto
      BY <1>1, <2>3, <3>2 DEF Heard
    <3>5. \A k \in Nat : <<"live", c, k>> \in SegmentsOf("live", c, Heard(s, c, upto))
                           <=> k > cursor[t][c] /\ k <= upto
      BY <1>1, <3>4 DEF SegmentsOf
    <3>6. /\ \A k \in Nat \ {0} : <<"live", c, k>> \in segments[t] <=>
                k <= cursor[t][c] /\ <<"live", c, k>> \notin missed[t]
          /\ \A k \in Nat : k > cursor[t][c] => <<"live", c, k>> \notin missed[t]
          /\ cursor'[t][c] = upto /\ length'[t][c] = length[t][c]
          /\ segments'[t] = segments[t]
      BY <1>1, <2>1, <2>3, <3>1, <3>2 DEF Accounted
    <3>7. ASSUME /\ worker' = [worker EXCEPT ![s][c] = "deliver"]
                 /\ batch' = [batch EXCEPT ![s][c] = Heard(s, c, upto)]
                 /\ missed' = missed
          PROVE  Accounted(t, c)' /\ Drained(t, c)'
      <4>1. worker'[t][c] = "deliver" /\ batch'[t][c] = (cursor[t][c] + 1) .. upto
        BY <1>1, <2>3, <3>4, <3>7
      <4>2. missed'[t] = missed[t]
        BY <3>7
      <4>3. \A k \in Nat \ {0} : <<"live", c, k>> \in segments'[t] <=>
               /\ k <= upto
               /\ <<"live", c, k>> \notin missed'[t]
               /\ k \notin batch'[t][c]
        BY <1>1, <3>4, <3>6, <4>1, <4>2
      <4>4. \A k \in batch'[t][c] : k <= upto /\ <<"live", c, k>> \notin missed'[t]
        BY <1>1, <3>4, <3>6, <4>1, <4>2
      <4>5. \A k \in Nat : k > upto => <<"live", c, k>> \notin missed'[t]
        BY <1>1, <3>4, <3>6, <4>2
      <4>6. Accounted(t, c)'
        BY <3>4, <3>6, <4>1, <4>3, <4>4, <4>5 DEF Accounted
      <4>7. Drained(t, c)'
        BY <4>1 DEF Drained
      <4>8. QED
        BY <4>6, <4>7
    <3>8. ASSUME /\ missed' = [missed EXCEPT ![s] =
                                @ \cup SegmentsOf("live", c, Heard(s, c, upto))]
                 /\ UNCHANGED <<worker, batch>>
          PROVE  Accounted(t, c)' /\ Drained(t, c)'
      <4>1. /\ worker'[t][c] = "waiting"
            /\ missed'[t] = missed[t] \cup SegmentsOf("live", c, Heard(s, c, upto))
        BY <1>1, <2>1, <2>3, <3>8
      <4>2. Accounted(t, c)'
        BY <1>1, <3>4, <3>5, <3>6, <4>1 DEF Accounted
      <4>3. Drained(t, c)'
        BY <4>1 DEF Drained
      <4>4. QED
        BY <4>2, <4>3
    <3>9. \A d \in Channels : Accounted(t, d)' /\ Drained(t, d)'
      BY <3>2, <3>3, <3>7, <3>8
    <3>10. QED
      BY <2>1, <3>1, <3>9 DEF StopIsSound, Owned
  <2>4. QED
    BY <2>2, <2>3
<1>15. ASSUME NEW s \in Sessions, NEW c \in Channels, Deliver(s, c)
       PROVE  Goal
  <2>1. /\ UNCHANGED <<live, open, length, stopAt, stopCopy, deleted>>
        /\ worker[s][c] \in {"waiting", "deliver", "notify"} /\ worker[s][c] = "deliver"
    BY <1>15 DEF Deliver, AddSegments, storeVars, audioVars, stopVars, historyVars
  <2>2. CASE t # s
    <3>1. /\ cursor'[t] = cursor[t] /\ worker'[t] = worker[t] /\ batch'[t] = batch[t]
          /\ segments'[t] = segments[t] /\ missed'[t] = missed[t]
      BY <1>15, <1>1, <2>2 DEF Deliver, AddSegments, storeVars, audioVars, stopVars, historyVars
    <3>2. QED
      BY <1>2, <1>3, <2>1, <3>1 DEF StopIsSound, Owned
  <2>3. CASE t = s
    <3>1. /\ Owned(t) /\ t \notin deleted
          /\ \A d \in Channels : Accounted(t, d) /\ Drained(t, d)
          /\ stopAt[t] # "close"
      BY <1>2, <2>1, <2>3, WorkerIsOwned, NotYetJoined DEF StopIsSound
    <3>2. /\ cursor' = cursor
          /\ \/ /\ segments' = [segments EXCEPT ![s] = @ \cup Batch(s, c)]
                /\ worker' = [worker EXCEPT ![s][c] = "notify"]
                /\ UNCHANGED <<batch, missed>>
             \/ /\ worker' = [worker EXCEPT ![s][c] = "waiting"]
                /\ batch' = [batch EXCEPT ![s][c] = {}]
                /\ missed' = [missed EXCEPT ![s] = @ \cup Batch(s, c)]
                /\ segments' = segments
      BY <1>15 DEF Deliver, AddSegments, storeVars
    <3>3. ASSUME NEW d \in Channels, d # c
          PROVE  Accounted(t, d)' /\ Drained(t, d)'
      <4>1. /\ cursor'[t][d] = cursor[t][d] /\ worker'[t][d] = worker[t][d]
            /\ batch'[t][d] = batch[t][d] /\ length'[t][d] = length[t][d]
            /\ open'[t] = open[t] /\ stopAt'[t] = stopAt[t]
            /\ \A k \in Nat :
                 <<"live", d, k>> \in segments'[t] <=> <<"live", d, k>> \in segments[t]
            /\ \A k \in Nat :
                 <<"live", d, k>> \in missed'[t] <=> <<"live", d, k>> \in missed[t]
        BY <1>1, <2>1, <2>3, <3>2, <3>3 DEF SegmentsOf, Batch
      <4>2. Accounted(t, d) /\ Drained(t, d)
        BY <3>1
      <4>3. QED
        BY <4>1, <4>2, ChannelSame
    <3>4. \A k \in Nat : <<"live", c, k>> \in Batch(s, c) <=> k \in batch[t][c]
      BY <1>1, <2>3 DEF SegmentsOf, Batch
    <3>5. /\ \A k \in Nat \ {0} : <<"live", c, k>> \in segments[t] <=>
                /\ k <= cursor[t][c]
                /\ <<"live", c, k>> \notin missed[t]
                /\ k \notin batch[t][c]
          /\ \A k \in Nat : k > cursor[t][c] => <<"live", c, k>> \notin missed[t]
          /\ \A k \in batch[t][c] : k <= cursor[t][c] /\ <<"live", c, k>> \notin missed[t]
          /\ cursor[t][c] <= length[t][c]
      BY <2>1, <2>3, <3>1 DEF Accounted
    <3>6. cursor'[t][c] = cursor[t][c] /\ length'[t][c] = length[t][c]
      BY <2>1, <3>2
    <3>7. ASSUME /\ segments' = [segments EXCEPT ![s] = @ \cup Batch(s, c)]
                 /\ worker' = [worker EXCEPT ![s][c] = "notify"]
                 /\ UNCHANGED <<batch, missed>>
          PROVE  Accounted(t, c)' /\ Drained(t, c)'
      <4>1. /\ worker'[t][c] = "notify" /\ missed'[t] = missed[t]
            /\ segments'[t] = segments[t] \cup Batch(s, c)
        BY <1>1, <2>3, <3>7
      <4>2. Accounted(t, c)'
        BY <1>1, <3>4, <3>5, <3>6, <4>1 DEF Accounted
      <4>3. Drained(t, c)'
        BY <4>1 DEF Drained
      <4>4. QED
        BY <4>2, <4>3
    <3>8. ASSUME /\ worker' = [worker EXCEPT ![s][c] = "waiting"]
                 /\ missed' = [missed EXCEPT ![s] = @ \cup Batch(s, c)]
                 /\ segments' = segments
          PROVE  Accounted(t, c)' /\ Drained(t, c)'
      <4>1. /\ worker'[t][c] = "waiting" /\ segments'[t] = segments[t]
            /\ missed'[t] = missed[t] \cup Batch(s, c)
        BY <1>1, <2>3, <3>8
      <4>2. Accounted(t, c)'
        BY <1>1, <3>4, <3>5, <3>6, <4>1 DEF Accounted
      <4>3. Drained(t, c)'
        BY <4>1 DEF Drained
      <4>4. QED
        BY <4>2, <4>3
    <3>9. \A d \in Channels : Accounted(t, d)' /\ Drained(t, d)'
      BY <3>2, <3>3, <3>7, <3>8
    <3>10. QED
      BY <2>1, <3>1, <3>9 DEF StopIsSound, Owned
  <2>4. QED
    BY <2>2, <2>3
<1>16. ASSUME NEW s \in Sessions, NEW c \in Channels, Notify(s, c)
       PROVE  Goal
  <2>1. /\ UNCHANGED <<live, open, length, stopAt, stopCopy, deleted>>
        /\ worker[s][c] \in {"waiting", "deliver", "notify"} /\ worker[s][c] = "notify"
    BY <1>16 DEF Notify, storeVars, audioVars, stopVars, historyVars
  <2>2. CASE t # s
    <3>1. /\ cursor'[t] = cursor[t] /\ worker'[t] = worker[t] /\ batch'[t] = batch[t]
          /\ segments'[t] = segments[t] /\ missed'[t] = missed[t]
      BY <1>16, <1>1, <2>2 DEF Notify, storeVars, audioVars, stopVars, historyVars
    <3>2. QED
      BY <1>2, <1>3, <2>1, <3>1 DEF StopIsSound, Owned
  <2>3. CASE t = s
    <3>1. /\ Owned(t) /\ t \notin deleted
          /\ \A d \in Channels : Accounted(t, d) /\ Drained(t, d)
          /\ stopAt[t] # "close"
      BY <1>2, <2>1, <2>3, WorkerIsOwned, NotYetJoined DEF StopIsSound
    <3>2. /\ UNCHANGED <<cursor, segments, missed>>
          /\ worker' = [worker EXCEPT ![s][c] = "waiting"]
          /\ batch' = [batch EXCEPT ![s][c] = {}]
      BY <1>16 DEF Notify, storeVars
    <3>3. ASSUME NEW d \in Channels, d # c
          PROVE  Accounted(t, d)' /\ Drained(t, d)'
      <4>1. /\ cursor'[t][d] = cursor[t][d] /\ worker'[t][d] = worker[t][d]
            /\ batch'[t][d] = batch[t][d] /\ length'[t][d] = length[t][d]
            /\ open'[t] = open[t] /\ stopAt'[t] = stopAt[t]
            /\ \A k \in Nat :
                 <<"live", d, k>> \in segments'[t] <=> <<"live", d, k>> \in segments[t]
            /\ \A k \in Nat :
                 <<"live", d, k>> \in missed'[t] <=> <<"live", d, k>> \in missed[t]
        BY <1>1, <2>1, <2>3, <3>2, <3>3 DEF SegmentsOf, Batch
      <4>2. Accounted(t, d) /\ Drained(t, d)
        BY <3>1
      <4>3. QED
        BY <4>1, <4>2, ChannelSame
    <3>4. worker'[t][c] = "waiting" /\ worker[t][c] = "notify"
      BY <1>1, <2>1, <2>3, <3>2
    <3>5. Accounted(t, c)' /\ Drained(t, c)'
      BY <2>1, <3>1, <3>2, <3>4 DEF Accounted, Drained
    <3>6. \A d \in Channels : Accounted(t, d)' /\ Drained(t, d)'
      BY <3>3, <3>5
    <3>7. QED
      BY <2>1, <3>1, <3>6 DEF StopIsSound, Owned
  <2>4. QED
    BY <2>2, <2>3
<1>17. ASSUME NEW s \in Sessions, NEW c \in Channels, WorkerEnds(s, c)
       PROVE  Goal
  <2>1. /\ UNCHANGED <<live, open, length, stopAt, stopCopy, deleted>>
        /\ worker[s][c] \in {"waiting", "deliver", "notify"} /\ worker[s][c] = "waiting"
    BY <1>17 DEF WorkerEnds, storeVars, audioVars, stopVars, historyVars
  <2>2. CASE t # s
    <3>1. /\ cursor'[t] = cursor[t] /\ worker'[t] = worker[t] /\ batch'[t] = batch[t]
          /\ segments'[t] = segments[t] /\ missed'[t] = missed[t]
      BY <1>17, <1>1, <2>2 DEF WorkerEnds, storeVars, audioVars, stopVars, historyVars
    <3>2. QED
      BY <1>2, <1>3, <2>1, <3>1 DEF StopIsSound, Owned
  <2>3. CASE t = s
    <3>1. /\ Owned(t) /\ t \notin deleted
          /\ \A d \in Channels : Accounted(t, d) /\ Drained(t, d)
          /\ stopAt[t] # "close"
      BY <1>2, <2>1, <2>3, WorkerIsOwned, NotYetJoined DEF StopIsSound
    <3>2. /\ UNCHANGED <<cursor, segments, missed, batch>>
          /\ worker' = [worker EXCEPT ![s][c] = "ended"]
          /\ ~(cursor[s][c] < length[s][c])
      BY <1>17 DEF WorkerEnds, Pending, storeVars, historyVars
    <3>3. ASSUME NEW d \in Channels, d # c
          PROVE  Accounted(t, d)' /\ Drained(t, d)'
      <4>1. /\ cursor'[t][d] = cursor[t][d] /\ worker'[t][d] = worker[t][d]
            /\ batch'[t][d] = batch[t][d] /\ length'[t][d] = length[t][d]
            /\ open'[t] = open[t] /\ stopAt'[t] = stopAt[t]
            /\ \A k \in Nat :
                 <<"live", d, k>> \in segments'[t] <=> <<"live", d, k>> \in segments[t]
            /\ \A k \in Nat :
                 <<"live", d, k>> \in missed'[t] <=> <<"live", d, k>> \in missed[t]
        BY <1>1, <2>1, <2>3, <3>2, <3>3 DEF SegmentsOf, Batch
      <4>2. Accounted(t, d) /\ Drained(t, d)
        BY <3>1
      <4>3. QED
        BY <4>1, <4>2, ChannelSame
    <3>4. worker'[t][c] = "ended" /\ worker[t][c] = "waiting"
      BY <1>1, <2>1, <2>3, <3>2
    <3>5. Accounted(t, c)'
      BY <2>1, <3>1, <3>2, <3>4 DEF Accounted
    <3>6. Drained(t, c)'
      BY <1>1, <2>1, <2>3, <3>2 DEF Drained
    <3>7. \A d \in Channels : Accounted(t, d)' /\ Drained(t, d)'
      BY <3>3, <3>5, <3>6
    <3>8. QED
      BY <2>1, <3>1, <3>7 DEF StopIsSound, Owned
  <2>4. QED
    BY <2>2, <2>3
<1>18. ASSUME NEW s \in Sessions, NEW c \in Channels, DrainGivesUp(s, c)
       PROVE  Goal
  <2>1. /\ UNCHANGED <<live, open, length, stopAt, stopCopy, deleted>>
        /\ worker[s][c] \in {"waiting", "deliver", "notify"} /\ worker[s][c] = "waiting"
    BY <1>18 DEF DrainGivesUp, storeVars, audioVars, stopVars, historyVars
  <2>2. CASE t # s
    <3>1. /\ cursor'[t] = cursor[t] /\ worker'[t] = worker[t] /\ batch'[t] = batch[t]
          /\ segments'[t] = segments[t] /\ missed'[t] = missed[t]
      BY <1>18, <1>1, <2>2 DEF DrainGivesUp, storeVars, audioVars, stopVars, historyVars
    <3>2. QED
      BY <1>2, <1>3, <2>1, <3>1 DEF StopIsSound, Owned
  <2>3. CASE t = s
    <3>1. /\ Owned(t) /\ t \notin deleted
          /\ \A d \in Channels : Accounted(t, d) /\ Drained(t, d)
          /\ stopAt[t] # "close"
      BY <1>2, <2>1, <2>3, WorkerIsOwned, NotYetJoined DEF StopIsSound
    <3>2. /\ UNCHANGED <<cursor, segments, batch>>
          /\ worker' = [worker EXCEPT ![s][c] = "ended"]
          /\ missed' = [missed EXCEPT ![s] =
                        @ \cup SegmentsOf("live", c, Heard(s, c, length[s][c]))]
      BY <1>18 DEF DrainGivesUp, storeVars
    <3>3. ASSUME NEW d \in Channels, d # c
          PROVE  Accounted(t, d)' /\ Drained(t, d)'
      <4>1. /\ cursor'[t][d] = cursor[t][d] /\ worker'[t][d] = worker[t][d]
            /\ batch'[t][d] = batch[t][d] /\ length'[t][d] = length[t][d]
            /\ open'[t] = open[t] /\ stopAt'[t] = stopAt[t]
            /\ \A k \in Nat :
                 <<"live", d, k>> \in segments'[t] <=> <<"live", d, k>> \in segments[t]
            /\ \A k \in Nat :
                 <<"live", d, k>> \in missed'[t] <=> <<"live", d, k>> \in missed[t]
        BY <1>1, <2>1, <2>3, <3>2, <3>3 DEF SegmentsOf, Batch
      <4>2. Accounted(t, d) /\ Drained(t, d)
        BY <3>1
      <4>3. QED
        BY <4>1, <4>2, ChannelSame
    <3>4. \A k \in Nat :
             <<"live", c, k>> \in SegmentsOf("live", c, Heard(s, c, length[s][c]))
                <=> k > cursor[t][c] /\ k <= length[t][c]
      BY <1>1, <2>3 DEF SegmentsOf, Heard
    <3>5. /\ worker'[t][c] = "ended" /\ worker[t][c] = "waiting"
          /\ cursor'[t][c] = cursor[t][c] /\ length'[t][c] = length[t][c]
          /\ segments'[t] = segments[t]
          /\ missed'[t] = missed[t] \cup SegmentsOf("live", c, Heard(s, c, length[s][c]))
      BY <1>1, <2>1, <2>3, <3>2
    <3>6. Accounted(t, c)'
      <4>1. /\ cursor[t][c] <= length[t][c]
            /\ \A k \in Nat \ {0} : <<"live", c, k>> \in segments[t] <=>
                  k <= cursor[t][c] /\ <<"live", c, k>> \notin missed[t]
        BY <3>1, <3>5 DEF Accounted
      <4>2. \A k \in Nat \ {0} : <<"live", c, k>> \in segments'[t] <=>
                  k <= cursor[t][c] /\ <<"live", c, k>> \notin missed'[t]
        BY <1>1, <3>4, <3>5, <4>1
      <4>3. QED
        BY <3>5, <4>1, <4>2 DEF Accounted
    <3>7. Drained(t, c)'
      BY <1>1, <3>4, <3>5 DEF Drained
    <3>8. \A d \in Channels : Accounted(t, d)' /\ Drained(t, d)'
      BY <3>3, <3>6, <3>7
    <3>9. QED
      BY <2>1, <3>1, <3>8 DEF StopIsSound, Owned
  <2>4. QED
    BY <2>2, <2>3
<1>19. ASSUME FinalizeReplace
       PROVE  Goal
  <2>1. /\ UNCHANGED <<live, open, stopAt, stopCopy, missed, cursor, batch, length, worker,
                       deleted>>
        /\ passAt = "replace"
        /\ t # passOf => segments'[t] = segments[t]
    BY <1>19, <1>1 DEF FinalizeReplace, ReplaceTranscript, storeVars, audioVars, workerVars,
       stopVars, historyVars
  <2>2. Owned(t) => t # passOf
    BY <2>1, OwnedIsMidFlight DEF Finalizing
  <2>3. QED
    BY <1>2, <1>3, <2>1, <2>2 DEF StopIsSound, Owned
<1>20. ASSUME DeleteRows
       PROVE  Goal
  <2>1. /\ UNCHANGED <<live, open, stopAt, stopCopy, missed, cursor, batch, length, worker>>
        /\ mainAt = "delete rows"
        /\ t # mainOf => segments'[t] = segments[t] /\ (t \in deleted' => t \in deleted)
    BY <1>20, <1>1 DEF DeleteRows, DeleteSession, storeVars, audioVars, workerVars,
       stopVars, historyVars
  <2>2. Owned(t) => t # mainOf
    BY <2>1, OwnedIsMidFlight DEF Deleting
  <2>3. QED
    BY <1>2, <1>3, <2>1, <2>2 DEF StopIsSound, Owned
<1>21. ASSUME DeleteFiles
       PROVE  Goal
  <2>1. /\ UNCHANGED <<live, open, stopAt, stopCopy, segments, missed, cursor, batch,
                       worker, deleted>>
        /\ mainAt = "delete files"
        /\ t # mainOf => length'[t] = length[t]
    BY <1>21, <1>1 DEF DeleteFiles, storeVars, audioVars, workerVars, stopVars, historyVars
  <2>2. Owned(t) => t # mainOf
    BY <1>2, <2>1 DEF CompleteInv, DeletedFirst, StopIsSound
  <2>3. QED
    BY <1>2, <1>3, <2>1, <2>2 DEF StopIsSound, Owned
<1>22. ASSUME Crash
       PROVE  Goal
  <2>1. live'[t] = NoRow /\ stopAt'[t] = "idle"
    BY <1>22 DEF Crash
  <2>2. QED
    BY <2>1 DEF StopIsSound, Owned
<1> DEFINE Same == UNCHANGED <<segments, live, open, length, worker, cursor, batch, stopAt,
                              stopCopy, missed, deleted>>
<1>23. ASSUME Same
       PROVE  Goal
  BY <1>23, <1>2, <1>3 DEF StopIsSound, Owned
<1>24. ASSUME NEW s \in Sessions, NEW sources \in SUBSET Channels, StartFails(s, sources)
       PROVE  Same
  BY <1>24 DEF StartFails, SaveSession, storeVars, audioVars, workerVars, stopVars,
     historyVars
<1>25. ASSUME NEW s \in Sessions,
              \/ FinalizeBegin(s) \/ SummaryBegin(s) \/ DeleteBegin(s)
       PROVE  Same
  BY <1>25 DEF FinalizeBegin, SummaryBegin, DeleteBegin, storeVars, audioVars, workerVars,
     stopVars, historyVars
<1>26. ASSUME NEW s \in Sessions, NEW title \in Titles, RenameStored(s, title)
       PROVE  Same
  BY <1>26 DEF RenameStored, RenameSession, storeVars, audioVars, workerVars, stopVars,
     historyVars
<1>27. ASSUME NEW c \in Channels, FinalizeChannel(c)
       PROVE  Same
  BY <1>27 DEF FinalizeChannel, storeVars, audioVars, workerVars, stopVars, historyVars
<1>28. ASSUME \/ FinalizeLoad \/ FinalizeMark \/ FinalizeSettle \/ FinalizeRestore
              \/ FinalizeFail \/ FinalizeClose \/ FinalizeReturns \/ Summary \/ Quit
              \/ UNCHANGED vars
       PROVE  Same
  BY <1>28 DEF FinalizeLoad, PassGoes, FinalizeMark, SaveSession, FinalizeSettle,
     FinalizeRestore, FinalizeFail, FinalizeClose, FinalizeReturns, Summary, SaveSummary,
     Quit, vars, storeVars, audioVars, workerVars, stopVars, historyVars
<1> HIDE DEF Goal, Same
<1>29. Goal
  BY <1>4, <1>5, <1>6, <1>7, <1>8, <1>9, <1>10, <1>11, <1>12, <1>13, <1>14, <1>15, <1>16,
     <1>17, <1>18, <1>19, <1>20, <1>21, <1>22, <1>23, <1>24, <1>25, <1>26, <1>27, <1>28 DEF
     Next, UserStep, StopStep, WorkerStep, PassStep, MainStep
<1>30. QED
  BY <1>29 DEF Goal

LEMMA CompleteStep ==
  ASSUME IInv, CompleteInv, [Next]_vars
  PROVE  CompleteInv'
<1>1. Untouched'
  BY UntouchedStep DEF Untouched
<1>2. DeletedFirst'
  BY DeletedFirstStep
<1>3. MissedIsLive'
  BY MissedIsLiveStep DEF MissedIsLive
<1>4. ASSUME NEW t \in Sessions
      PROVE  /\ Covered(t)' /\ OpenIsRecording(t)' /\ StopOrder(t)'
             /\ StopIsSound(t)' /\ RowIsComplete(t)' /\ PassIsComplete(t)'
  BY CoveredStep, OpenIsRecordingStep, StopOrderStep, StopIsSoundStep, RowIsCompleteStep,
     PassIsCompleteStep
<1>5. QED
  BY <1>1, <1>2, <1>3, <1>4 DEF CompleteInv

LEMMA CompleteInit == Init => CompleteInv
<1> SUFFICES ASSUME Init
             PROVE  CompleteInv
  OBVIOUS
<1> USE DEF Init, StoreInit
<1>1. \A s \in Sessions : Touched(s) = {}
  BY DEF Touched
<1>2. Untouched /\ DeletedFirst /\ MissedIsLive
  BY <1>1 DEF Untouched, DeletedFirst, MissedIsLive
<1>3. ASSUME NEW s \in Sessions
      PROVE  /\ Covered(s) /\ OpenIsRecording(s) /\ StopOrder(s)
             /\ StopIsSound(s) /\ RowIsComplete(s) /\ PassIsComplete(s)
  BY <1>1 DEF Covered, OpenIsRecording, StopOrder, StopIsSound, Owned, RowIsComplete, Kept,
     PassIsComplete, Finalizing
<1>4. QED
  BY <1>2, <1>3 DEF CompleteInv

\* The live transcript of a session that stop has closed is every captured utterance but
\* those a failure lost, the final transcript is the whole recording, and the row counts it
\* right, for any sessions, channels, amount of audio, failures and crashes.
THEOREM NothingIsLost == Spec => []StoppedIsComplete
<1>1. IInv /\ CompleteInv => StoppedIsComplete
  <2> SUFFICES ASSUME IInv, CompleteInv, NEW s \in Sessions, Closed(s)
               PROVE  /\ segments[s] = Spoken(s, rows[s].transcript) \ missed[s]
                      /\ rows[s].count = Cardinality(segments[s])
    BY DEF StoppedIsComplete
  <2>1. /\ rows[s].transcript = "live" => LiveIsWhole(s)
        /\ rows[s].transcript = "final" => FinalIsWhole(s)
        /\ rows[s].count = Cardinality(segments[s])
    BY DEF CompleteInv, RowIsComplete, CompleteAs, Closed
  <2>2. rows[s].transcript \in {"live", "final"}
    BY RowFields DEF IInv, TypeOK, StoreTypeOK, Closed, Kept, Passes
  <2>3. CASE rows[s].transcript = "live"
    BY <2>1, <2>3 DEF LiveIsWhole
  <2>4. CASE rows[s].transcript = "final"
    BY <2>1, <2>4, FinalIsNotMissed DEF FinalIsWhole, CompleteInv
  <2>5. QED
    BY <2>2, <2>3, <2>4
<1>2. IInv /\ CompleteInv /\ [Next]_vars => CompleteInv'
  BY CompleteStep
<1>3. QED
  BY <1>1, <1>2, CompleteInit, Invariance, PTL DEF Spec

=============================================================================
