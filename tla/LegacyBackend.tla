--------------------------- MODULE LegacyBackend ---------------------------
(***************************************************************************)
(* The capture sessions of legacy/backend: the handler of /ws/audio in     *)
(* app.py, the SessionPipeline of pipeline.py with its worker task and its *)
(* executor of one thread, and the decoder thread of decoder.py, over the  *)
(* tables of store.py.                                                     *)
(*                                                                         *)
(* The handlers and the worker tasks share one event loop: what they do    *)
(* between two awaits is one step.  The executor and the decoder are       *)
(* threads beside it.  Captures under different session ids share nothing  *)
(* but the process, so that the module is about the captures of one id.    *)
(*                                                                         *)
(* A chunk of audio is one utterance, which a pass makes one segment.      *)
(***************************************************************************)
EXTENDS FiniteSets, FiniteSetsExt, Integers, SequencesExt

CONSTANTS
    Captures,       \* connections to /ws/audio
    NoCapture,
    MaxChunks,      \* bound: chunks one capture sends
    MaxDrain,       \* _MAX_DRAIN_PASSES
    MaxFaults       \* bound: calls that fail, and restarts of the backend

ASSUME LegacyAssumption ==
    /\ NoCapture \notin Captures
    /\ MaxChunks \in Nat
    /\ MaxDrain \in Nat
    /\ MaxFaults \in Nat

VARIABLES
    at,         \* where the handler is, see At
    status,     \* Session.status, in memory
    \* one decoder and one PcmStore per capture
    fed,        \* chunks given to the decoder
    length,     \* chunks decoded into the PcmStore
    decoder,    \* "fine", or "broken": decoder.error
    \* one SessionPipeline per capture
    stage,      \* how far the pass is that the worker or the drain awaits
    executor,   \* its thread is in transcriber.step
    heard,      \* segments of the pass
    upto,       \* where the pass ends
    cursor,
    transcript, \* IncrementalTranscriber.transcript
    drains,     \* passes of the drain
    \* shared by the captures of the id
    session,    \* sessions[id]: whose it is
    pipeline,   \* pipelines[id]: whose it is
    file,       \* the capture whose audio is at pcm_path
    row,        \* the row of table sessions: status, and number of segments
    stored,     \* rows of table segments
    faults,
    \* history
    shown,      \* segments sent to the side panels
    orphaned,   \* segments of a pass nobody awaited
    unsaved,    \* segments the store did not take
    missed,     \* chunks a failed pass or a slow decoder lost
    overlapped  \* captures whose id was used again before they were over

handlerVars == <<at, status>>
audioVars   == <<fed, length, decoder>>
passVars    == <<stage, executor, heard, upto, cursor, transcript>>
sharedVars  == <<session, pipeline, file>>
tableVars   == <<row, stored>>
historyVars == <<shown, orphaned, unsaved, missed, overlapped>>
vars == <<handlerVars, audioVars, passVars, drains, sharedVars, tableVars, faults,
          historyVars>>

\* "unheard": the handler failed before it received; "broken": while it did; "ended": while
\* it saved; "complete": it told the client; "dead": the backend was restarted.
At == {"off", "rejected", "greet", "receive", "close", "drain", "complete", "ended",
       "unheard", "broken", "dead"}

Over == {"complete", "ended", "dead"}

Statuses == {"none", "streaming", "transcribing", "stopped", "error"}

Chunks == 1 .. MaxChunks

Segments == Captures \X Chunks

NoRow == [status |-> "none", count |-> 0]

Init ==
    /\ at = [c \in Captures |-> "off"]
    /\ status = [c \in Captures |-> "none"]
    /\ fed = [c \in Captures |-> 0]
    /\ length = [c \in Captures |-> 0]
    /\ decoder = [c \in Captures |-> "fine"]
    /\ stage = [c \in Captures |-> "rest"]
    /\ executor = [c \in Captures |-> "idle"]
    /\ heard = [c \in Captures |-> {}]
    /\ upto = [c \in Captures |-> 0]
    /\ cursor = [c \in Captures |-> 0]
    /\ transcript = [c \in Captures |-> {}]
    /\ drains = [c \in Captures |-> 0]
    /\ session = NoCapture /\ pipeline = NoCapture /\ file = NoCapture
    /\ row = NoRow /\ stored = <<>>
    /\ faults = 0
    /\ shown = {}
    /\ orphaned = [c \in Captures |-> {}]
    /\ unsaved = [c \in Captures |-> {}]
    /\ missed = [c \in Captures |-> {}]
    /\ overlapped = {}

\* A call that may fail does.
Fails == faults < MaxFaults /\ faults' = faults + 1

Goes(c, to) == at' = [at EXCEPT ![c] = to]

SaveSession(c, s, n) == row' = [status |-> s, count |-> n]

-----------------------------------------------------------------------------
(* ws_audio up to its first await.                                           *)

\* A capture is turned down while one of the same id streams.
Streaming == pipeline # NoCapture /\ session # NoCapture /\ status[session] = "streaming"

Rejects(c) ==
    /\ at[c] = "off"
    /\ Streaming
    /\ Goes(c, "rejected")
    /\ UNCHANGED <<status, audioVars, passVars, drains, sharedVars, tableVars, faults,
                   historyVars>>

\* An empty file, a session and its row, whatever was there under the id.
Registers(c) ==
    /\ file' = c
    /\ session' = c
    /\ status' = [status EXCEPT ![c] = "streaming"]
    /\ SaveSession(c, "streaming", 0)

\* Whoever is not over shares the id, its file and its row with the new one from now on.
Busy(c) == at[c] \notin Over \cup {"off", "rejected"}

Overlaps(c) ==
    LET others == {d \in Captures \ {c} : Busy(d)}
    IN  overlapped' = overlapped \cup IF others = {} THEN {} ELSE others \cup {c}

Accepts(c) ==
    /\ at[c] = "off"
    /\ ~Streaming
    /\ Registers(c)
    /\ pipeline' = c
    /\ Goes(c, "greet")
    /\ Overlaps(c)
    /\ UNCHANGED <<audioVars, passVars, drains, stored, faults, shown, orphaned, unsaved,
                   missed>>

\* The model does not load: the session is there and streams, without a pipeline.
AcceptFails(c) ==
    /\ at[c] = "off"
    /\ ~Streaming
    /\ Fails
    /\ Registers(c)
    /\ Goes(c, "ended")
    /\ Overlaps(c)
    /\ UNCHANGED <<pipeline, audioVars, passVars, drains, stored, shown, orphaned, unsaved,
                   missed>>

\* The client is told its session id, or is gone by then.
Greets(c) ==
    /\ at[c] = "greet"
    /\ \/ Goes(c, "receive") /\ UNCHANGED faults
       \/ Goes(c, "unheard") /\ Fails
    /\ UNCHANGED <<status, audioVars, passVars, drains, sharedVars, tableVars, historyVars>>

-----------------------------------------------------------------------------
(* The receive loop and the decoder thread.                                  *)

Receives(c) ==
    /\ at[c] = "receive"
    /\ fed[c] < MaxChunks
    /\ fed' = [fed EXCEPT ![c] = @ + 1]
    /\ UNCHANGED <<handlerVars, length, decoder, passVars, drains, sharedVars, tableVars,
                   faults, historyVars>>

\* The archive cannot be written: the file goes, the session streams on, so does the worker.
ReceiveFails(c) ==
    /\ at[c] = "receive"
    /\ fed[c] < MaxChunks
    /\ Fails
    /\ Goes(c, "broken")
    /\ file' = NoCapture
    /\ UNCHANGED <<status, audioVars, passVars, drains, session, pipeline, tableVars,
                   historyVars>>

\* The PcmStore of a broken or finished capture is closed and takes no audio.
Decodes(c) ==
    /\ at[c] \in {"receive", "close", "drain"}
    /\ decoder[c] = "fine"
    /\ length[c] < fed[c]
    /\ \/ length' = [length EXCEPT ![c] = @ + 1] /\ UNCHANGED <<decoder, faults>>
       \/ decoder' = [decoder EXCEPT ![c] = "broken"] /\ Fails /\ UNCHANGED length
    /\ UNCHANGED <<handlerVars, fed, passVars, drains, sharedVars, tableVars, historyVars>>

-----------------------------------------------------------------------------
(* A pass, awaited by the worker task or by the drain.                       *)

\* The worker runs until stop cancels it; a handler that failed leaves it running.
Awaits(c) == at[c] \in {"greet", "receive", "unheard", "broken", "drain"}

Least(m, n) == IF m < n THEN m ELSE n

\* What is in the file where the capture expects its own audio.
Reads(c, to) ==
    IF file = NoCapture THEN {}
    ELSE {<<file, k>> : k \in cursor[c] + 1 .. Least(to, length[file])}

Rests(c) == stage' = [stage EXCEPT ![c] = "rest"] /\ heard' = [heard EXCEPT ![c] = {}]

\* A window of what was not consumed, oldest first.  A pass of the worker that holds all of
\* it back changes nothing and is left out.
PassBegins(c) ==
    /\ Awaits(c)
    /\ stage[c] = "rest" /\ executor[c] = "idle"
    /\ cursor[c] < length[c] /\ Reads(c, length[c]) # {}
    /\ at[c] = "drain" => drains[c] < MaxDrain
    /\ \E to \in cursor[c] + 1 .. length[c] :
           /\ upto' = [upto EXCEPT ![c] = to]
           /\ heard' = [heard EXCEPT ![c] = Reads(c, to)]
    /\ stage' = [stage EXCEPT ![c] = "pass"]
    /\ executor' = [executor EXCEPT ![c] = "step"]
    /\ drains' = [drains EXCEPT ![c] = IF at[c] = "drain" THEN @ + 1 ELSE @]
    /\ UNCHANGED <<handlerVars, audioVars, cursor, transcript, sharedVars, tableVars,
                   faults, historyVars>>

\* The file is gone, or is shorter: the pass ends as it began.
PassReadsNothing(c) ==
    /\ at[c] = "drain"
    /\ stage[c] = "rest" /\ executor[c] = "idle"
    /\ cursor[c] < length[c] /\ drains[c] < MaxDrain
    /\ Reads(c, length[c]) = {}
    /\ drains' = [drains EXCEPT ![c] = @ + 1]
    /\ UNCHANGED <<handlerVars, audioVars, passVars, sharedVars, tableVars, faults,
                   historyVars>>

\* Slip: what the drain hears is in the transcript only.
PassEndsUnsent(c) ==
    /\ executor[c] = "step"
    /\ executor' = [executor EXCEPT ![c] = "idle"]
    /\ upto' = [upto EXCEPT ![c] = 0]
    /\ cursor' = [cursor EXCEPT ![c] = upto[c]]
    /\ transcript' = [transcript EXCEPT ![c] = @ \cup heard[c]]
    /\ IF at[c] # "drain" /\ stage[c] = "pass" /\ heard[c] # {}
       THEN /\ stage' = [stage EXCEPT ![c] = "done"]
            /\ UNCHANGED <<heard, orphaned>>
       ELSE /\ Rests(c)
            /\ UNCHANGED orphaned
    /\ UNCHANGED <<handlerVars, audioVars, drains, sharedVars, tableVars, faults, shown,
                   unsaved, missed, overlapped>>

\* The executor is done.  A pass whose worker was cancelled meanwhile has nobody to give
\* its segments to.
PassEnds(c) ==
    /\ executor[c] = "step"
    /\ upto' = [upto EXCEPT ![c] = 0]
    /\ executor' = [executor EXCEPT ![c] = "idle"]
    /\ cursor' = [cursor EXCEPT ![c] = upto[c]]
    /\ transcript' = [transcript EXCEPT ![c] = @ \cup heard[c]]
    /\ IF stage[c] = "pass" /\ heard[c] # {}
       THEN /\ stage' = [stage EXCEPT ![c] = "done"]
            /\ UNCHANGED <<heard, orphaned>>
       ELSE /\ Rests(c)
            /\ orphaned' = [orphaned EXCEPT ![c] = @ \cup heard[c]]
    /\ UNCHANGED <<handlerVars, audioVars, drains, sharedVars, tableVars, faults,
                   shown, unsaved, missed, overlapped>>

\* A forced pass holds nothing back at the end of the audio only.  Before it, a full window
\* that was rewound may begin with an echo, which is refused, and end in speech that is held
\* back: nothing is committed, nothing consumed, and the next pass reads the same again.
PassHoldsBack(c) ==
    /\ at[c] = "drain"
    /\ executor[c] = "step"
    /\ cursor[c] > 0
    /\ upto' = [upto EXCEPT ![c] = 0]
    /\ executor' = [executor EXCEPT ![c] = "idle"]
    /\ Rests(c)
    /\ UNCHANGED <<handlerVars, audioVars, cursor, transcript, drains, sharedVars, tableVars,
                   faults, historyVars>>

\* The model fails on a window: it is passed over.
PassFails(c) ==
    /\ executor[c] = "step"
    /\ upto[c] > cursor[c]
    /\ Fails
    /\ upto' = [upto EXCEPT ![c] = 0]
    /\ executor' = [executor EXCEPT ![c] = "idle"]
    /\ cursor' = [cursor EXCEPT ![c] = upto[c]]
    /\ Rests(c)
    /\ missed' = [missed EXCEPT ![c] = @ \cup cursor[c] + 1 .. upto[c]]
    /\ UNCHANGED <<handlerVars, audioVars, transcript, drains, sharedVars, tableVars,
                   shown, orphaned, unsaved, overlapped>>

-----------------------------------------------------------------------------
(* _broadcast_segments, which the worker or the drain awaits.                *)

\* The segments of the pass, in the order they were spoken.
Batch(c) ==
    CHOOSE batch \in [1 .. Cardinality(heard[c]) -> heard[c]] :
        \A i, j \in DOMAIN batch : i < j => batch[i][2] < batch[j][2]

\* The count is that of the capture now under the id.
Counts ==
    LET n == Cardinality(transcript[pipeline])
    IN  SaveSession(session, status[session], n)

\* Slip: a batch is shown, then stored.
DeliversLast(c) ==
    /\ stage[c] = "done"
    /\ shown' = shown \cup heard[c]
    /\ stage' = [stage EXCEPT ![c] = "show"]
    /\ UNCHANGED <<handlerVars, audioVars, executor, heard, upto, cursor, transcript, drains,
                   sharedVars, tableVars, faults, orphaned, unsaved, missed, overlapped>>

\* Slip: a batch whose count could not be saved is given again.
DeliversAgain(c) ==
    /\ stage[c] = "done"
    /\ stored' = stored \o Batch(c)
    /\ \/ Counts /\ stage' = [stage EXCEPT ![c] = "show"] /\ UNCHANGED <<heard, faults>>
       \/ Fails /\ UNCHANGED <<row, stage, heard>>
    /\ UNCHANGED <<handlerVars, audioVars, executor, upto, cursor, transcript, drains,
                   sharedVars, historyVars>>

\* "persist first"; the row may fail after the segments.
Delivers(c) ==
    /\ stage[c] = "done"
    /\ stored' = stored \o Batch(c)
    /\ \/ Counts /\ stage' = [stage EXCEPT ![c] = "show"] /\ UNCHANGED <<heard, faults>>
       \/ Fails /\ Rests(c) /\ UNCHANGED row
    /\ UNCHANGED <<handlerVars, audioVars, executor, upto, cursor, transcript, drains,
                   sharedVars, historyVars>>

\* The segments cannot be stored, which is logged.
DeliverFails(c) ==
    /\ stage[c] = "done"
    /\ Fails
    /\ Rests(c)
    /\ unsaved' = [unsaved EXCEPT ![c] = @ \cup heard[c]]
    /\ UNCHANGED <<handlerVars, audioVars, executor, upto, cursor, transcript, drains,
                   sharedVars, tableVars, shown, orphaned, missed, overlapped>>

Shows(c) ==
    /\ stage[c] = "show"
    /\ shown' = shown \cup heard[c]
    /\ Rests(c)
    /\ UNCHANGED <<handlerVars, audioVars, executor, upto, cursor, transcript, drains,
                   sharedVars, tableVars, faults, orphaned, unsaved, missed, overlapped>>

-----------------------------------------------------------------------------
(* SessionPipeline.stop and the end of the handler.                          *)

\* The client says stop or is gone.  The worker is cancelled where it is: what it has not
\* stored by then, it does not store.
StopReceived(c) ==
    /\ at[c] = "receive"
    /\ Goes(c, "close")
    /\ status' = [status EXCEPT ![c] = "transcribing"]
    /\ orphaned' = [orphaned EXCEPT ![c] = IF stage[c] = "done" THEN @ \cup heard[c] ELSE @]
    /\ stage' = [stage EXCEPT ![c] = "rest"]
    /\ heard' = [heard EXCEPT ![c] = IF executor[c] = "step" THEN @ ELSE {}]
    /\ UNCHANGED <<audioVars, executor, upto, cursor, transcript, drains, sharedVars,
                   tableVars, faults, shown, unsaved, missed, overlapped>>

\* Slip: the drain does not wait for the decoder.
ClosesAtOnce(c) ==
    /\ at[c] = "close"
    /\ executor[c] = "idle"
    /\ Goes(c, "drain")
    /\ UNCHANGED <<status, audioVars, passVars, drains, sharedVars, tableVars, faults,
                   historyVars>>

\* Slip: the end of the stream is waited for, not the end of the decoder.
ClosesWhenDecoded(c) ==
    /\ at[c] = "close"
    /\ executor[c] = "idle"
    /\ length[c] = fed[c]
    /\ Goes(c, "drain")
    /\ UNCHANGED <<status, audioVars, passVars, drains, sharedVars, tableVars, faults,
                   historyVars>>

\* decoder.close has its turn on the executor, and waits for the decoder with a timeout.
Closes(c) ==
    /\ at[c] = "close"
    /\ executor[c] = "idle"
    /\ Goes(c, "drain")
    /\ \/ /\ length[c] = fed[c] \/ decoder[c] = "broken"
          /\ UNCHANGED <<faults, missed>>
       \/ /\ length[c] < fed[c] /\ decoder[c] = "fine"
          /\ Fails
          /\ missed' = [missed EXCEPT ![c] = @ \cup length[c] + 1 .. fed[c]]
    /\ UNCHANGED <<status, audioVars, passVars, drains, sharedVars, tableVars, shown,
                   orphaned, unsaved, overlapped>>

\* Nothing is left, or the drain gives up; the file is removed in any case.
Drained(c) ==
    /\ at[c] = "drain"
    /\ stage[c] = "rest" /\ executor[c] = "idle"
    /\ cursor[c] >= length[c] \/ drains[c] >= MaxDrain

Finishes(c) ==
    /\ Drained(c)
    /\ LET s == IF decoder[c] = "broken" THEN "error" ELSE "stopped"
       IN  /\ status' = [status EXCEPT ![c] = s]
           /\ \/ SaveSession(c, s, Cardinality(transcript[c])) /\ Goes(c, "complete")
                 /\ UNCHANGED faults
              \/ Fails /\ Goes(c, "ended") /\ UNCHANGED row
    /\ file' = NoCapture
    /\ UNCHANGED <<audioVars, passVars, drains, session, pipeline, stored, historyVars>>

-----------------------------------------------------------------------------
\* The backend goes down, anywhere, and comes up with what the tables and the disk hold.
Restart ==
    /\ Fails
    /\ at' = [c \in Captures |-> IF at[c] = "off" THEN "off" ELSE "dead"]
    /\ status' = [c \in Captures |-> "none"]
    /\ fed' = [c \in Captures |-> 0] /\ length' = [c \in Captures |-> 0]
    /\ decoder' = [c \in Captures |-> "fine"]
    /\ stage' = [c \in Captures |-> "rest"] /\ executor' = [c \in Captures |-> "idle"]
    /\ heard' = [c \in Captures |-> {}] /\ upto' = [c \in Captures |-> 0]
    /\ cursor' = [c \in Captures |-> 0] /\ transcript' = [c \in Captures |-> {}]
    /\ drains' = [c \in Captures |-> 0]
    /\ session' = NoCapture /\ pipeline' = NoCapture
    /\ UNCHANGED <<file, tableVars, historyVars>>

-----------------------------------------------------------------------------
HandlerStep(c) ==
    \/ Rejects(c) \/ Accepts(c) \/ AcceptFails(c) \/ Greets(c)
    \/ Closes(c) \/ Finishes(c)

PassStep(c) ==
    \/ PassBegins(c) \/ PassReadsNothing(c) \/ PassEnds(c) \/ PassHoldsBack(c)
    \/ PassFails(c)
    \/ Delivers(c) \/ DeliverFails(c) \/ Shows(c)

ClientStep(c) == Receives(c) \/ ReceiveFails(c) \/ StopReceived(c)

Next ==
    \/ \E c \in Captures : HandlerStep(c) \/ PassStep(c) \/ Decodes(c) \/ ClientStep(c)
    \/ Restart

Spec == Init /\ [][Next]_vars

\* The event loop, the executors and the decoders run; nothing is assumed of the clients.
Fairness ==
    \A c \in Captures :
        WF_vars(Closes(c) \/ Finishes(c) \/ PassStep(c) \/ Decodes(c))

FairSpec == Spec /\ Fairness

-----------------------------------------------------------------------------
(* Properties.                                                               *)

\* A capture whose id was its own from its start to its end.
Alone(c) == c \notin overlapped

\* What the client was told is complete.
Complete(c) == at[c] = "complete" /\ Alone(c)

\* What a drain that had all its passes left behind.
GivenUp(c) == IF drains[c] = MaxDrain THEN cursor[c] + 1 .. fed[c] ELSE {}

\* A session that stopped without an error has in its transcript all that was said and
\* nothing else, except for what a failed pass passed over, a decoder was too slow for, or
\* the drain gave up: of that the client and the row say nothing.
CompleteMeansAll ==
    \A c \in Captures :
        Complete(c) /\ status[c] = "stopped" =>
            /\ {c} \X ((1 .. fed[c]) \ (missed[c] \cup GivenUp(c))) \subseteq transcript[c]
            /\ transcript[c] \subseteq {c} \X (1 .. fed[c])

\* Of a complete session only the pass that a stop ran into can be missing in the store.
LossIsAtStop ==
    \A c \in Captures :
        Complete(c) => transcript[c] \ ToSet(stored) \subseteq orphaned[c] \cup unsaved[c]

\* A transcript is stored in the order of speech, and no segment of it twice.
StoredInOrder ==
    \A i, j \in 1 .. Len(stored) :
        /\ i < j
        /\ stored[i][1] = stored[j][1]
        /\ Alone(stored[i][1])
        => stored[i][2] < stored[j][2]

\* "persist first: captions are nice to have, a lost transcript is not recoverable."
CaptionsAreStored == shown \subseteq ToSet(stored)

\* A stop is done with at some time, whatever happened to the file, the decoder or a pass.
StopEnds ==
    \A c \in Captures : at[c] = "close" ~> at[c] \in Over
=============================================================================
