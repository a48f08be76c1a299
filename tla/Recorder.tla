------------------------------ MODULE Recorder ------------------------------
(***************************************************************************)
(* A meeting from start to delete, as crates/meetbutler-engine/src/        *)
(* recorder.rs runs it on top of SessionStore:                             *)
(*                                                                         *)
(*   capture threads   append audio to one PcmStore per channel;           *)
(*   one worker thread per channel decodes what was captured and hands it  *)
(*                     to the recorder's sink (pipeline.rs);               *)
(*   a stopping thread drains the channels of a session and closes its row;*)
(*   the after-meeting thread re-transcribes the recording and summarises; *)
(*   the main thread   renames and deletes.                                *)
(*                                                                         *)
(* The unit of audio is one utterance: pcm[s][c].length counts the         *)
(* utterances captured on a channel, a pass turns some of them into        *)
(* segments.  Every call into the store or the file system may fail, and   *)
(* the process may die between any two steps (MaxMishaps times in all).    *)
(***************************************************************************)
EXTENDS SessionStore

CONSTANTS
    MaxAudio,     \* bound: utterances captured on one channel
    MaxMishaps    \* bound: calls that fail and restarts, together, over the whole behaviour

ASSUME RecorderAssumption ==
    /\ MaxAudio \in Nat
    /\ MaxMishaps \in Nat

VARIABLES
    used,       \* ids that were ever started: an id is the clock, never reused
    live,       \* Recorder.live: the in-memory Session of a running recording
    \* one PcmStore per session and channel
    recorded,   \* channels with a .pcm file
    open,       \* channels whose store still takes audio
    length,     \* utterances captured
    \* one SessionPipeline worker per session and channel
    worker,     \* where the thread is, see WorkerAt
    stopping,   \* channels whose worker was told to stop
    cursor,     \* utterances decoded
    batch,      \* utterances decoded and not yet shown
    memory,     \* Shared.transcript of the session's pipelines: what their passes returned
    \* one thread per session inside Recorder::stop
    stopAt, stopCopy, stopLeft,
    \* the after-meeting thread: Recorder::finalize, then the summary
    passAt, passOf, original, passLeft, final, failed,
    \* the main thread: Recorder::delete
    mainAt, mainOf,
    quitting,   \* AppState.quitting, the cancel flag of a final pass
    faults,     \* calls that failed so far
    crashes,    \* restarts so far
    missed,     \* history: utterances a failed decode, a failed sink or a drain given up lost
    captions,   \* history: segments shown while recording (on_segments)
    named,      \* history: the title the last successful rename gave
    deleted     \* history: sessions whose rows a delete removed

audioVars   == <<recorded, open, length>>
workerVars  == <<worker, stopping, cursor, batch, memory>>
stopVars    == <<stopAt, stopCopy, stopLeft>>
passVars    == <<passAt, passOf, original, passLeft, final, failed>>
mainVars    == <<mainAt, mainOf>>
historyVars == <<missed, captions, named, deleted>>
vars == <<storeVars, used, live, audioVars, workerVars, stopVars, passVars, mainVars,
          quitting, faults, crashes, historyVars>>

Utterances == 1 .. MaxAudio

\* "off": no thread; "waiting": between passes; "deliver": segments decoded, not yet
\* stored; "notify": stored, not yet shown; "ended": joined.
WorkerAt == {"off", "waiting", "deliver", "notify", "ended"}

StopAt == {"idle", "mark", "channels", "drop", "count", "close"}

PassAt == {"idle", "load", "mark", "channels", "restore", "fail", "replace", "close",
           "summary"}

MainAt == {"idle", "delete rows", "delete files"}

Pending(s, c) == cursor[s][c] < length[s][c]

SegmentsOf(kind, c, ks) == {<<kind, c, k>> : k \in ks}

\* The outcome of a call that returns an error: nothing was written.
Fault   == faults + crashes < MaxMishaps /\ faults' = faults + 1
NoFault == faults' = faults

Init ==
    /\ StoreInit
    /\ used = {}
    /\ live = [s \in Sessions |-> NoRow]
    /\ recorded = [s \in Sessions |-> {}]
    /\ open = [s \in Sessions |-> {}]
    /\ length = [s \in Sessions |-> [c \in Channels |-> 0]]
    /\ worker = [s \in Sessions |-> [c \in Channels |-> "off"]]
    /\ stopping = [s \in Sessions |-> {}]
    /\ cursor = [s \in Sessions |-> [c \in Channels |-> 0]]
    /\ batch = [s \in Sessions |-> [c \in Channels |-> {}]]
    /\ memory = [s \in Sessions |-> {}]
    /\ stopAt = [s \in Sessions |-> "idle"]
    /\ stopCopy = [s \in Sessions |-> NoRow]
    /\ stopLeft = [s \in Sessions |-> {}]
    /\ passAt = "idle" /\ passOf \in Sessions /\ original = NoRow
    /\ passLeft = {} /\ final = {} /\ failed = FALSE
    /\ mainAt = "idle" /\ mainOf = passOf
    /\ quitting = FALSE
    /\ faults = 0
    /\ crashes = 0
    /\ missed = [s \in Sessions |-> {}]
    /\ captions = [s \in Sessions |-> {}]
    /\ named = [s \in Sessions |-> Untitled]
    /\ deleted = {}

-----------------------------------------------------------------------------
(* Recorder::start.  The live lock is held throughout, so the whole call is one step.  *)

Start(s, sources) ==
    /\ s \notin used
    /\ sources # {}
    /\ used' = used \cup {s}
    /\ SaveSession(s, NewRow(sources))
    /\ live' = [live EXCEPT ![s] = NewRow(sources)]
    /\ recorded' = [recorded EXCEPT ![s] = sources]
    /\ open' = [open EXCEPT ![s] = sources]
    /\ worker' = [worker EXCEPT ![s] =
                     [c \in Channels |-> IF c \in sources THEN "waiting" ELSE "off"]]
    /\ memory' = [memory EXCEPT ![s] = {}]
    /\ UNCHANGED <<length, stopping, cursor, batch, stopVars, passVars, mainVars, quitting,
                   faults, crashes, historyVars>>

\* save_session, or after it the PcmStore of some channel, fails: the row stays, the
\* channels opened so far are dropped, and the session is not live.
StartFails(s, sources) ==
    /\ s \notin used
    /\ sources # {}
    /\ Fault
    /\ used' = used \cup {s}
    /\ \/ UNCHANGED <<storeVars, recorded>>
       \/ \E opened \in SUBSET sources :
            /\ opened # sources
            /\ SaveSession(s, NewRow(sources))
            /\ recorded' = [recorded EXCEPT ![s] = opened]
    /\ UNCHANGED <<live, open, length, workerVars, stopVars, passVars, mainVars, quitting,
                   crashes, historyVars>>

\* A capture thread appends; after close the bytes are dropped (no step).
Append(s, c) ==
    /\ c \in open[s]
    /\ length[s][c] < MaxAudio
    /\ length' = [length EXCEPT ![s][c] = @ + 1]
    /\ UNCHANGED <<storeVars, used, live, recorded, open, workerVars, stopVars, passVars,
                   mainVars, quitting, faults, crashes, historyVars>>

-----------------------------------------------------------------------------
(* The worker of one channel: pipeline.rs run and pass, recorder.rs sink.              *)

\* A pass reads up to some utterance and decodes it all, or fails and skips it.  What it
\* returns is in the pipeline's own transcript at once, before the sink is called.  A pass
\* that commits nothing and waits for more audio changes nothing.
Heard(s, c, upto) == (cursor[s][c] + 1) .. upto

\* Slip: a forced pass that commits nothing may leave the cursor where it is.
DecodeMayStay(s, c) ==
    /\ worker[s][c] = "waiting"
    /\ Pending(s, c)
    /\ UNCHANGED vars

Decode(s, c) ==
    /\ worker[s][c] = "waiting"
    /\ \E upto \in Heard(s, c, length[s][c]) :
         /\ cursor' = [cursor EXCEPT ![s][c] = upto]
         /\ \/ /\ worker' = [worker EXCEPT ![s][c] = "deliver"]
               /\ batch' = [batch EXCEPT ![s][c] = Heard(s, c, upto)]
               /\ memory' = [memory EXCEPT ![s] =
                                @ \cup SegmentsOf("live", c, Heard(s, c, upto))]
               /\ NoFault
               /\ UNCHANGED missed
            \/ /\ missed' = [missed EXCEPT ![s] =
                              @ \cup SegmentsOf("live", c, Heard(s, c, upto))]
               /\ Fault
               /\ UNCHANGED <<worker, batch, memory>>
    /\ UNCHANGED <<storeVars, used, live, audioVars, stopping, stopVars, passVars, mainVars,
                   quitting, crashes, captions, named, deleted>>

Batch(s, c) == SegmentsOf("live", c, batch[s][c])

\* Slip: a failed write is only logged, the batch is shown all the same.
DeliverShowsAnyway(s, c) ==
    /\ worker[s][c] = "deliver"
    /\ worker' = [worker EXCEPT ![s][c] = "notify"]
    /\ \/ AddSegments(s, Batch(s, c)) /\ NoFault /\ UNCHANGED missed
       \/ /\ missed' = [missed EXCEPT ![s] = @ \cup Batch(s, c)]
          /\ Fault
          /\ UNCHANGED storeVars
    /\ UNCHANGED <<batch, memory, used, live, audioVars, stopping, cursor, stopVars, passVars,
                   mainVars, quitting, crashes, captions, named, deleted>>

\* The sink stores first; if that fails the batch is dropped and the worker goes on.
Deliver(s, c) ==
    /\ worker[s][c] = "deliver"
    /\ \/ /\ AddSegments(s, Batch(s, c))
          /\ worker' = [worker EXCEPT ![s][c] = "notify"]
          /\ NoFault
          /\ UNCHANGED <<batch, missed>>
       \/ /\ worker' = [worker EXCEPT ![s][c] = "waiting"]
          /\ batch' = [batch EXCEPT ![s][c] = {}]
          /\ missed' = [missed EXCEPT ![s] = @ \cup Batch(s, c)]
          /\ Fault
          /\ UNCHANGED storeVars
    /\ UNCHANGED <<used, live, audioVars, stopping, cursor, memory, stopVars, passVars,
                   mainVars, quitting, crashes, captions, named, deleted>>

Notify(s, c) ==
    /\ worker[s][c] = "notify"
    /\ captions' = [captions EXCEPT ![s] = @ \cup Batch(s, c)]
    /\ worker' = [worker EXCEPT ![s][c] = "waiting"]
    /\ batch' = [batch EXCEPT ![s][c] = {}]
    /\ UNCHANGED <<storeVars, used, live, audioVars, stopping, cursor, memory, stopVars,
                   passVars, mainVars, quitting, faults, crashes, missed, named, deleted>>

\* Slip: told to stop, the thread returns without draining.
WorkerEndsAtOnce(s, c) ==
    /\ worker[s][c] = "waiting"
    /\ c \in stopping[s]
    /\ worker' = [worker EXCEPT ![s][c] = "ended"]
    /\ UNCHANGED <<storeVars, used, live, audioVars, stopping, cursor, batch, memory,
                   stopVars, passVars, mainVars, quitting, faults, crashes, historyVars>>

\* The drain ends once nothing is pending; the thread returns and can be joined.
WorkerEnds(s, c) ==
    /\ worker[s][c] = "waiting"
    /\ c \in stopping[s]
    /\ ~Pending(s, c)
    /\ worker' = [worker EXCEPT ![s][c] = "ended"]
    /\ UNCHANGED <<storeVars, used, live, audioVars, stopping, cursor, batch, memory,
                   stopVars, passVars, mainVars, quitting, faults, crashes, historyVars>>

\* Or it is given up after MAX_DRAIN_PASSES, when the passes stop moving (see Transcriber,
\* FullWindowMoves): what is left is never decoded.
DrainGivesUp(s, c) ==
    /\ worker[s][c] = "waiting"
    /\ c \in stopping[s]
    /\ Pending(s, c)
    /\ Fault
    /\ worker' = [worker EXCEPT ![s][c] = "ended"]
    /\ missed' = [missed EXCEPT ![s] =
                    @ \cup SegmentsOf("live", c, Heard(s, c, length[s][c]))]
    /\ UNCHANGED <<storeVars, used, live, audioVars, stopping, cursor, batch, memory,
                   stopVars, passVars, mainVars, quitting, crashes, captions, named, deleted>>

-----------------------------------------------------------------------------
(* Recorder::stop.                                                                     *)

StopRests(s) ==
    /\ stopAt' = [stopAt EXCEPT ![s] = "idle"]
    /\ stopCopy' = [stopCopy EXCEPT ![s] = NoRow]
    /\ stopLeft' = [stopLeft EXCEPT ![s] = {}]

\* Out of the map first; the thread owns the session and its channels from here on.
StopBegin(s) ==
    /\ live[s] # NoRow
    /\ live' = [live EXCEPT ![s] = NoRow]
    /\ stopAt' = [stopAt EXCEPT ![s] = "mark"]
    /\ stopCopy' = [stopCopy EXCEPT ![s] = live[s]]
    /\ stopLeft' = [stopLeft EXCEPT ![s] = live[s].sources]
    /\ UNCHANGED <<storeVars, used, audioVars, workerVars, passVars, mainVars, quitting,
                   faults, crashes, historyVars>>

\* If this save fails stop returns, and dropping the channels still drains them.
StopMark(s) ==
    /\ stopAt[s] = "mark"
    /\ \/ /\ SaveSession(s, WithStatus(stopCopy[s], "transcribing"))
          /\ stopAt' = [stopAt EXCEPT ![s] = "channels"]
          /\ stopCopy' = [stopCopy EXCEPT ![s] = WithStatus(@, "transcribing")]
          /\ NoFault
       \/ /\ stopAt' = [stopAt EXCEPT ![s] = "drop"]
          /\ Fault
          /\ UNCHANGED <<storeVars, stopCopy>>
    /\ UNCHANGED <<used, live, audioVars, workerVars, stopLeft, passVars, mainVars,
                   quitting, crashes, historyVars>>

\* Late audio is dropped from here on; then the worker is told to stop, one channel after
\* the other.  Dropping a SessionPipeline tells it without closing the audio.
StopChannel(s, c) ==
    /\ stopAt[s] \in {"channels", "drop"}
    /\ c \in stopLeft[s] \ stopping[s]
    /\ \A d \in stopping[s] : worker[s][d] = "ended"
    /\ open' = IF stopAt[s] = "channels" THEN [open EXCEPT ![s] = @ \ {c}] ELSE open
    /\ stopping' = [stopping EXCEPT ![s] = @ \cup {c}]
    /\ UNCHANGED <<storeVars, used, live, recorded, length, worker, cursor, batch, memory,
                   stopVars, passVars, mainVars, quitting, faults, crashes, historyVars>>

\* JoinHandle::join of the worker that was told to stop.
JoinChannel(s, c) ==
    /\ stopAt[s] \in {"channels", "drop"}
    /\ c \in stopLeft[s]
    /\ worker[s][c] = "ended"
    /\ \/ /\ stopLeft[s] # {c}
          /\ stopLeft' = [stopLeft EXCEPT ![s] = @ \ {c}]
          /\ UNCHANGED <<stopAt, stopCopy>>
       \/ /\ stopLeft[s] = {c} /\ stopAt[s] = "channels"
          /\ stopLeft' = [stopLeft EXCEPT ![s] = {}]
          /\ stopAt' = [stopAt EXCEPT ![s] = "count"]
          /\ UNCHANGED stopCopy
       \/ /\ stopLeft[s] = {c} /\ stopAt[s] = "drop"
          /\ StopRests(s)
    /\ UNCHANGED <<storeVars, used, live, audioVars, workerVars, passVars, mainVars,
                   quitting, faults, crashes, historyVars>>

StopCount(s) ==
    /\ stopAt[s] = "count"
    /\ stopAt' = [stopAt EXCEPT ![s] = "close"]
    /\ stopCopy' = [stopCopy EXCEPT ![s] = WithCount(@, Cardinality(segments[s]))]
    /\ UNCHANGED <<storeVars, used, live, audioVars, workerVars, stopLeft, passVars,
                   mainVars, quitting, faults, crashes, historyVars>>

StopClose(s) ==
    /\ stopAt[s] = "close"
    /\ SaveSession(s, WithStatus(stopCopy[s], "stopped"))
    /\ StopRests(s)
    /\ UNCHANGED <<used, live, audioVars, workerVars, passVars, mainVars, quitting, faults,
                   crashes, historyVars>>

\* load_segments or the last save fails: stop returns the error as it stands.
StopFails(s) ==
    /\ stopAt[s] \in {"count", "close"}
    /\ Fault
    /\ StopRests(s)
    /\ UNCHANGED <<storeVars, used, live, audioVars, workerVars, passVars, mainVars,
                   quitting, crashes, historyVars>>

-----------------------------------------------------------------------------
(* Recorder::finalize and the summary after it, on the after-meeting thread.           *)

\* Back from the call, or on to the summary; what the call held is dropped.
PassGoes(at) ==
    /\ passAt' = at
    /\ original' = NoRow
    /\ passLeft' = {}
    /\ final' = {}
    /\ failed' = FALSE
    /\ UNCHANGED passOf

\* The app finalizes a session whose stop has returned; an interrupted one is allowed too.
FinalizeBegin(s) ==
    /\ passAt = "idle"
    /\ live[s] = NoRow
    /\ stopAt[s] = "idle"
    /\ rows[s] # NoRow
    /\ rows[s].status \in {"stopped", "interrupted"}
    /\ passAt' = "load"
    /\ passOf' = s
    /\ UNCHANGED <<storeVars, used, live, audioVars, workerVars, stopVars, original,
                   passLeft, final, failed, mainVars, quitting, faults, crashes,
                   historyVars>>

FinalizeLoad ==
    /\ passAt = "load"
    /\ IF rows[passOf] = NoRow
       THEN PassGoes("idle")
       ELSE /\ passAt' = "mark"
            /\ original' = rows[passOf]
            /\ UNCHANGED <<passOf, passLeft, final, failed>>
    /\ UNCHANGED <<storeVars, used, live, audioVars, workerVars, stopVars, mainVars,
                   quitting, faults, crashes, historyVars>>

\* Slip: the live segments make room before the recording is transcribed.
FinalizeMarkClears ==
    /\ passAt = "mark"
    /\ rows' = [rows EXCEPT ![passOf] = WithStatus(original, "finalizing")]
    /\ segments' = [segments EXCEPT ![passOf] = {}]
    /\ passAt' = "channels"
    /\ passLeft' = original.sources
    /\ UNCHANGED <<summaries, used, live, audioVars, workerVars, stopVars, passOf, original,
                   final, failed, mainVars, quitting, faults, crashes, historyVars>>

FinalizeMark ==
    /\ passAt = "mark"
    /\ SaveSession(passOf, WithStatus(original, "finalizing"))
    /\ passAt' = "channels"
    /\ passLeft' = original.sources
    /\ UNCHANGED <<used, live, audioVars, workerVars, stopVars, passOf, original, final,
                   failed, mainVars, quitting, faults, crashes, historyVars>>

\* One channel: never recorded, transcribed from its whole recording, or failed.  A
\* decode asked for after the quit fails too, and a failure ends the loop.
FinalizeChannel(c) ==
    /\ passAt = "channels"
    /\ c \in passLeft
    /\ \/ /\ c \notin recorded[passOf]
          /\ passLeft' = passLeft \ {c}
          /\ NoFault
          /\ UNCHANGED <<final, failed>>
       \/ /\ c \in recorded[passOf]
          /\ ~quitting
          /\ passLeft' = passLeft \ {c}
          /\ final' = final \cup SegmentsOf("final", c, 1 .. length[passOf][c])
          /\ NoFault
          /\ UNCHANGED failed
       \/ /\ c \in recorded[passOf]
          /\ IF quitting THEN NoFault ELSE Fault
          /\ passLeft' = {}
          /\ failed' = TRUE
          /\ UNCHANGED final
    /\ UNCHANGED <<storeVars, used, live, audioVars, workerVars, stopVars, passAt, passOf,
                   original, mainVars, quitting, crashes, historyVars>>

\* Slip: a cancelled pass returns as it stands, the row says finalizing.
FinalizeSettleReturns ==
    /\ passAt = "channels"
    /\ passLeft = {} \/ quitting
    /\ IF quitting
       THEN PassGoes("idle")
       ELSE /\ passAt' = IF failed THEN "fail" ELSE "replace"
            /\ UNCHANGED <<passOf, original, passLeft, final, failed>>
    /\ UNCHANGED <<storeVars, used, live, audioVars, workerVars, stopVars, mainVars, quitting,
                   faults, crashes, historyVars>>

\* After the loop the cancel flag is looked at once more and decides.
FinalizeSettle ==
    /\ passAt = "channels"
    /\ passLeft = {} \/ quitting
    /\ passAt' = IF quitting THEN "restore" ELSE IF failed THEN "fail" ELSE "replace"
    /\ UNCHANGED <<storeVars, used, live, audioVars, workerVars, stopVars, passOf, original,
                   passLeft, final, failed, mainVars, quitting, faults, crashes,
                   historyVars>>

FinalizeRestore ==
    /\ passAt = "restore"
    /\ SaveSession(passOf, original)
    /\ PassGoes("idle")
    /\ UNCHANGED <<used, live, audioVars, workerVars, stopVars, mainVars, quitting, faults,
                   crashes, historyVars>>

FinalizeFail ==
    /\ passAt = "fail"
    /\ SaveSession(passOf, WithError(WithStatus(original, "stopped"), TRUE))
    /\ PassGoes("idle")
    /\ UNCHANGED <<used, live, audioVars, workerVars, stopVars, mainVars, quitting, faults,
                   crashes, historyVars>>

FinalizeReplace ==
    /\ passAt = "replace"
    /\ \/ /\ rows[passOf] = NoRow
          /\ PassGoes("idle")
          /\ UNCHANGED storeVars
       \/ /\ ReplaceTranscript(passOf, final)
          /\ passAt' = "close"
          /\ UNCHANGED <<passOf, original, passLeft, final, failed>>
    /\ UNCHANGED <<used, live, audioVars, workerVars, stopVars, mainVars, quitting, faults,
                   crashes, historyVars>>

FinalizeClose ==
    /\ passAt = "close"
    /\ SaveSession(passOf, WithError(WithFinal(WithStatus(original, "stopped"),
                                              Cardinality(final)), FALSE))
    /\ PassGoes("summary")
    /\ UNCHANGED <<used, live, audioVars, workerVars, stopVars, mainVars, quitting, faults,
                   crashes, historyVars>>

\* Any `?` of finalize: the error is returned and nothing else is done.
FinalizeReturns ==
    /\ passAt \in {"load", "mark", "channels", "restore", "fail", "replace", "close"}
    /\ passAt = "channels" => passLeft # {} /\ ~quitting
    /\ Fault
    /\ PassGoes("idle")
    /\ UNCHANGED <<storeVars, used, live, audioVars, workerVars, stopVars, mainVars,
                   quitting, crashes, historyVars>>

\* The `summarize` command: any listed session, any time the thread is free.
SummaryBegin(s) ==
    /\ passAt = "idle"
    /\ rows[s] # NoRow
    /\ passAt' = "summary"
    /\ passOf' = s
    /\ UNCHANGED <<storeVars, used, live, audioVars, workerVars, stopVars, original,
                   passLeft, final, failed, mainVars, quitting, faults, crashes,
                   historyVars>>

\* run_summary: given up on a quit, else a result (done, cancelled or error) is kept; a
\* failed save is only logged.
Summary ==
    /\ passAt = "summary"
    /\ PassGoes("idle")
    /\ \/ quitting /\ UNCHANGED storeVars /\ NoFault
       \/ SaveSummary(passOf) /\ NoFault
       \/ Fault /\ UNCHANGED storeVars
    /\ UNCHANGED <<used, live, audioVars, workerVars, stopVars, mainVars, quitting, crashes,
                   historyVars>>

-----------------------------------------------------------------------------
(* The main thread: Recorder::rename and Recorder::delete of a listed session.         *)

\* A live session is renamed in memory and saved whole under the live lock.  A failed
\* save keeps the title in memory and is reported.
RenameLive(s, title) ==
    /\ mainAt = "idle"
    /\ live[s] # NoRow
    /\ live' = [live EXCEPT ![s] = WithTitle(live[s], title)]
    /\ \/ /\ SaveSession(s, WithTitle(live[s], title))
          /\ named' = [named EXCEPT ![s] = title]
          /\ NoFault
       \/ Fault /\ UNCHANGED <<storeVars, named>>
    /\ UNCHANGED <<used, audioVars, workerVars, stopVars, passVars, mainVars, quitting,
                   crashes, missed, captions, deleted>>

\* Any other session: one column of its row.
RenameStored(s, title) ==
    /\ mainAt = "idle"
    /\ live[s] = NoRow
    /\ rows[s] # NoRow
    /\ RenameSession(s, title)
    /\ named' = [named EXCEPT ![s] = title]
    /\ UNCHANGED <<used, live, audioVars, workerVars, stopVars, passVars, mainVars, quitting,
                   faults, crashes, missed, captions, deleted>>

\* Slip: a session being recorded can be deleted.
DeleteBeginBusy(s) ==
    /\ mainAt = "idle"
    /\ rows[s] # NoRow
    /\ mainAt' = "delete rows"
    /\ mainOf' = s
    /\ UNCHANGED <<storeVars, used, live, audioVars, workerVars, stopVars, passVars,
                   quitting, faults, crashes, historyVars>>

\* Refused (Busy) while live or mid-flight.
DeleteBegin(s) ==
    /\ mainAt = "idle"
    /\ live[s] = NoRow
    /\ rows[s] # NoRow
    /\ rows[s].status \notin MidFlight
    /\ mainAt' = "delete rows"
    /\ mainOf' = s
    /\ UNCHANGED <<storeVars, used, live, audioVars, workerVars, stopVars, passVars,
                   quitting, faults, crashes, historyVars>>

DeleteRows ==
    /\ mainAt = "delete rows"
    /\ \/ /\ DeleteSession(mainOf)
          /\ mainAt' = "delete files"
          /\ deleted' = deleted \cup {mainOf}
          /\ NoFault
       \/ /\ mainAt' = "idle"
          /\ Fault
          /\ UNCHANGED <<storeVars, deleted>>
    /\ UNCHANGED <<used, live, audioVars, workerVars, stopVars, passVars, mainOf, quitting,
                   crashes, missed, captions, named>>

\* remove_dir_all; if it fails the error is returned and the files stay.
DeleteFiles ==
    /\ mainAt = "delete files"
    /\ mainAt' = "idle"
    /\ \/ /\ recorded' = [recorded EXCEPT ![mainOf] = {}]
          /\ length' = [length EXCEPT ![mainOf] = [c \in Channels |-> 0]]
          /\ NoFault
       \/ Fault /\ UNCHANGED <<recorded, length>>
    /\ UNCHANGED <<storeVars, used, live, open, workerVars, stopVars, passVars, mainOf,
                   quitting, crashes, historyVars>>

-----------------------------------------------------------------------------
\* AppState::shutdown sets the flag; the process goes away with the next Crash.
Quit ==
    /\ ~quitting
    /\ quitting' = TRUE
    /\ UNCHANGED <<storeVars, used, live, audioVars, workerVars, stopVars, passVars,
                   mainVars, faults, crashes, historyVars>>

\* The process dies at any point and is started again: memory is lost, Recorder::open
\* marks what was mid-flight.
Crash ==
    /\ faults + crashes < MaxMishaps
    /\ crashes' = crashes + 1
    /\ RecoverInterrupted
    /\ live' = [s \in Sessions |-> NoRow]
    /\ open' = [s \in Sessions |-> {}]
    /\ worker' = [s \in Sessions |-> [c \in Channels |-> "off"]]
    /\ stopping' = [s \in Sessions |-> {}]
    /\ batch' = [s \in Sessions |-> [c \in Channels |-> {}]]
    /\ memory' = [s \in Sessions |-> {}]
    /\ stopAt' = [s \in Sessions |-> "idle"]
    /\ stopCopy' = [s \in Sessions |-> NoRow]
    /\ stopLeft' = [s \in Sessions |-> {}]
    /\ PassGoes("idle")
    /\ mainAt' = "idle"
    /\ quitting' = FALSE
    /\ UNCHANGED <<used, recorded, length, cursor, mainOf, faults, historyVars>>

-----------------------------------------------------------------------------
WorkerStep(s, c) ==
    \/ Decode(s, c) \/ Deliver(s, c) \/ Notify(s, c)
    \/ WorkerEnds(s, c) \/ DrainGivesUp(s, c)

StopStep(s) ==
    \/ StopMark(s)
    \/ \E c \in Channels : StopChannel(s, c) \/ JoinChannel(s, c)
    \/ StopCount(s) \/ StopClose(s) \/ StopFails(s)

PassStep ==
    \/ FinalizeLoad \/ FinalizeMark
    \/ \E c \in Channels : FinalizeChannel(c)
    \/ FinalizeSettle \/ FinalizeRestore \/ FinalizeFail \/ FinalizeReplace
    \/ FinalizeClose \/ FinalizeReturns \/ Summary

MainStep == DeleteRows \/ DeleteFiles

UserStep(s) ==
    \/ \E sources \in SUBSET Channels : Start(s, sources) \/ StartFails(s, sources)
    \/ \E c \in Channels : Append(s, c)
    \/ StopBegin(s) \/ FinalizeBegin(s) \/ SummaryBegin(s) \/ DeleteBegin(s)
    \/ \E title \in Titles : RenameLive(s, title) \/ RenameStored(s, title)

Next ==
    \/ \E s \in Sessions :
         \/ UserStep(s)
         \/ StopStep(s)
         \/ \E c \in Channels : WorkerStep(s, c)
    \/ PassStep
    \/ MainStep
    \/ Quit
    \/ Crash

Spec == Init /\ [][Next]_vars

\* Threads the scheduler runs: workers, a stop, the after-meeting pass, a delete.  Nothing
\* is assumed of the user, of capture, of a quit or of a crash.
Fairness ==
    /\ \A s \in Sessions : WF_vars(StopStep(s))
    /\ \A s \in Sessions, c \in Channels : WF_vars(WorkerStep(s, c))
    /\ WF_vars(PassStep)
    /\ WF_vars(MainStep)

FairSpec == Spec /\ Fairness

-----------------------------------------------------------------------------
(* Properties.                                                                         *)

AudioTypeOK ==
    /\ recorded \in [Sessions -> SUBSET Channels]
    /\ open \in [Sessions -> SUBSET Channels]
    /\ length \in [Sessions -> [Channels -> 0 .. MaxAudio]]

WorkerTypeOK ==
    /\ worker \in [Sessions -> [Channels -> WorkerAt]]
    /\ stopping \in [Sessions -> SUBSET Channels]
    /\ cursor \in [Sessions -> [Channels -> 0 .. MaxAudio]]
    /\ batch \in [Sessions -> [Channels -> SUBSET Utterances]]
    /\ memory \in [Sessions -> SUBSET Segments]

StopTypeOK ==
    /\ live \in [Sessions -> Row \cup {NoRow}]
    /\ stopAt \in [Sessions -> StopAt]
    /\ stopCopy \in [Sessions -> Row \cup {NoRow}]
    /\ stopLeft \in [Sessions -> SUBSET Channels]

PassTypeOK ==
    /\ passAt \in PassAt
    /\ passOf \in Sessions
    /\ original \in Row \cup {NoRow}
    /\ passLeft \in SUBSET Channels
    /\ final \in SUBSET Segments
    /\ failed \in BOOLEAN

RestTypeOK ==
    /\ used \in SUBSET Sessions
    /\ mainAt \in MainAt
    /\ mainOf \in Sessions
    /\ quitting \in BOOLEAN
    /\ faults \in 0 .. MaxMishaps
    /\ crashes \in 0 .. MaxMishaps
    /\ missed \in [Sessions -> SUBSET Segments]
    /\ captions \in [Sessions -> SUBSET Segments]
    /\ named \in [Sessions -> Titles \cup {Untitled}]
    /\ deleted \in SUBSET Sessions

\* Every variable has its type: the sessions in memory are rows of the table, the threads
\* are where their code can be.
TypeOK ==
    StoreTypeOK /\ AudioTypeOK /\ WorkerTypeOK /\ StopTypeOK /\ PassTypeOK /\ RestTypeOK

\* Recorder::transcript, what get_transcript shows: the pipelines' own transcripts while the
\* session is live, the table once it has been taken out of the live map.
View(s) == IF live[s] # NoRow THEN memory[s] ELSE segments[s]

\* Decoded, and on the way through the sink to the table.
Delivering(s) == UNION {Batch(s, c) : c \in {d \in Channels : worker[s][d] = "deliver"}}

Spoken(s, kind) == UNION {SegmentsOf(kind, c, 1 .. length[s][c]) : c \in Channels}

\* A live session and its row agree on everything but a title whose save failed: no thread
\* writes the row of a recording behind the back of Recorder.live.
LiveIsRecording ==
    \A s \in Sessions : live[s] # NoRow =>
        /\ rows[s] # NoRow
        /\ live[s].status = "recording"
        /\ rows[s] = WithTitle(live[s], rows[s].title)

\* The transcript of a session is of one pass, the one its row names: the final pass
\* replaces the live segments all or nothing, whatever fails or dies around it, and no
\* worker adds a live segment to a final transcript.
OneTranscript ==
    \A s \in Sessions : \A g \in segments[s] : rows[s] # NoRow /\ g[1] = rows[s].transcript

\* A row nobody deleted; a delete that overtakes the start of a final pass is the subject
\* of DeletedIsForGood.
Kept(s) == rows[s] # NoRow /\ s \notin deleted

\* Closed by stop or by a final pass that did not fail.
Closed(s) == Kept(s) /\ rows[s].status = "stopped" /\ ~rows[s].error

\* stop closes the audio, drains it and only then closes the row: the live transcript of a
\* stopped session is every captured utterance but those a failed decode, a failed write or
\* a drain given up lost; the final transcript is the whole recording.  The row counts it
\* right: no segment is stored after stop counted them.  (A failed pass over an interrupted
\* session closes it with the count of the moment it was interrupted.)
StoppedIsComplete ==
    \A s \in Sessions : Closed(s) =>
        /\ segments[s] = Spoken(s, rows[s].transcript) \ missed[s]
        /\ rows[s].count = Cardinality(segments[s])

\* "Persist first", on both ways to the screen.  A caption that was pushed is in the table
\* until the final pass replaces the transcript or the session is deleted.  What the panel
\* pulls of a live session is all the table has, and beyond it only segments on their way
\* through the sink or whose write failed: those are shown and will never be stored.
CaptionsArePersisted ==
    \A s \in Sessions :
        /\ Kept(s) /\ rows[s].transcript = "live" => captions[s] \subseteq segments[s]
        /\ live[s] # NoRow =>
              /\ segments[s] \subseteq View(s)
              /\ View(s) \subseteq segments[s] \cup Delivering(s) \cup missed[s]

\* A row says recording, transcribing or finalizing only while a thread of this process is
\* doing that: otherwise nobody will ever move it on, and delete answers Busy for ever.  A
\* save that failed in stop or finalize leaves such a row until the next start.
MidFlightHasOwner ==
    faults = 0 => \A s \in Sessions :
        rows[s] # NoRow /\ rows[s].status \in MidFlight =>
            \/ live[s] # NoRow
            \/ stopAt[s] # "idle"
            \/ passOf = s /\ passAt # "idle"

\* The transcript of a session only grows, unless the session is deleted or the final pass
\* replaces it whole: a failed, cancelled or cut-off pass leaves it as it was.
TranscriptNeverShrinks ==
    [][\A s \in Sessions :
         \/ segments[s] \subseteq segments'[s]
         \/ rows'[s] = NoRow
         \/ rows'[s].transcript = "final" /\ segments'[s] = final]_vars

\* stop returns: the drain comes to an end and every lock and thread it waits for is let go.
StopReturns ==
    \A s \in Sessions : stopAt[s] # "idle" ~> stopAt[s] = "idle"

\* A session being finalized is closed again: as final, failed, cancelled, or interrupted
\* by a restart; only a save that fails can leave it as it is.
PassEnds ==
    \A s \in Sessions :
        (rows[s] # NoRow /\ rows[s].status = "finalizing")
            ~> (rows[s] = NoRow \/ rows[s].status # "finalizing" \/ faults > 0)

\* A title the user gave and was told was kept is the title of the session until the next
\* rename.
RenameSticks ==
    \A s \in Sessions : rows[s] # NoRow => rows[s].title = named[s]

\* Delete is for good: the session is gone with its transcript and summary, and no thread
\* brings any of it back.
DeletedIsForGood ==
    \A s \in deleted : rows[s] = NoRow /\ segments[s] = {} /\ s \notin summaries
=============================================================================
