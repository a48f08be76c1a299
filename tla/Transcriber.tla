---------------------------- MODULE Transcriber ----------------------------
(***************************************************************************)
(* The live transcription of one channel: IncrementalTranscriber of        *)
(* crates/meetbutler-engine/src/incremental.rs, and the worker thread of   *)
(* pipeline.rs that runs its passes while the meeting lasts and drains     *)
(* what is left when it is stopped.  Recorder takes this for one step that *)
(* turns captured utterances into segments; here is how.                   *)
(*                                                                         *)
(* Audio is counted in units of one length, the unit in which the window,  *)
(* the overlap, the hold-back and the least new audio are given; unit u    *)
(* lies between u and u + 1.  A unit is speech or silence.  The decoder    *)
(* hears every unit of speech in the window it is given, in segments that  *)
(* do not overlap: a run of speech, or a run cut wherever it likes to.     *)
(***************************************************************************)
EXTENDS Integers

CONSTANTS
    Window,     \* the most audio one pass reads
    Overlap,    \* how far a pass rewinds after a blind cut
    MinNew,     \* a pass of the schedule waits for this much new audio
    Holdback,   \* segments ending this close to the window's end wait
    MaxDrain,   \* MAX_DRAIN_PASSES
    MaxAudio    \* bound: units captured

ASSUME TranscriberAssumption ==
    /\ Window \in Nat \ {0}
    /\ Overlap \in Nat
    /\ MinNew \in Nat
    /\ Holdback \in Nat
    /\ MaxDrain \in Nat
    /\ MaxAudio \in Nat
    /\ Overlap < Window

VARIABLES
    captured,       \* units in the PcmStore
    voiced,         \* those that are speech
    closed,         \* the PcmStore takes no more audio
    stopped,        \* Shared.stopped
    \* the worker thread
    at,             \* between passes, in a pass, or returned
    pass,           \* what the running pass reads, and whether it is the final one
    passes,         \* drain passes run
    \* the IncrementalTranscriber
    cursor,         \* units consumed
    blindCut,       \* cursor sits at a window edge, not at the end of speech
    emittedUntil,   \* covered by emitted segments up to here
    transcript,     \* segments emitted
    \* history
    lost,           \* units in the window of a pass that failed
    cuts            \* where a pass cut speech blindly, or failed

audioVars   == <<captured, voiced, closed>>
threadVars  == <<stopped, at, passes>>
cursorVars  == <<cursor, blindCut, emittedUntil, transcript>>
historyVars == <<lost, cuts>>
vars == <<audioVars, threadVars, pass, cursorVars, historyVars>>

At == {"waiting", "reading", "ended"}

Units == 0 .. MaxAudio

Smaller(a, b) == IF a < b THEN a ELSE b
Larger(a, b)  == IF a < b THEN b ELSE a

\* One transcribed span.  after is history: how far the transcript reached before the pass
\* that emitted it.
Segment == [start : Units, end : Units, after : Units]

Span == [start : Units, end : Units]

Pass == [start : Units, end : Units, final : BOOLEAN]

NoPass == [start |-> 0, end |-> 0, final |-> FALSE]

Init ==
    /\ captured = 0 /\ voiced = {} /\ closed = FALSE
    /\ stopped = FALSE /\ at = "waiting" /\ pass = NoPass /\ passes = 0
    /\ cursor = 0 /\ blindCut = FALSE /\ emittedUntil = 0 /\ transcript = {}
    /\ lost = {} /\ cuts = {}

-----------------------------------------------------------------------------
(* The capture thread, and the thread that stops the session.                *)

\* PcmStore::append: one more unit, of speech or of silence.
Append(speech) ==
    /\ ~closed
    /\ captured < MaxAudio
    /\ captured' = captured + 1
    /\ voiced' = IF speech THEN voiced \cup {captured} ELSE voiced
    /\ UNCHANGED <<closed, threadVars, pass, cursorVars, historyVars>>

\* Recorder::stop closes the audio before it stops the worker.
Close ==
    /\ ~closed
    /\ ~stopped
    /\ closed' = TRUE
    /\ UNCHANGED <<captured, voiced, threadVars, pass, cursorVars, historyVars>>

\* SessionPipeline::stop; by way of Drop the audio may still be open.
Stop ==
    /\ ~stopped
    /\ stopped' = TRUE
    /\ UNCHANGED <<audioVars, at, passes, pass, cursorVars, historyVars>>

-----------------------------------------------------------------------------
(* The worker: IncrementalTranscriber::step, once a tick and then to drain.  *)

Pending == captured - cursor

\* How far the next pass goes back.
Rewind == IF blindCut THEN Overlap ELSE 0

\* Slip: the window is anchored to the newest audio, a backlog is skipped.
WindowStartNewest == Larger(0, Larger(cursor - Rewind, captured - Window))

WindowStart == Larger(0, cursor - Rewind)

WindowEnd == Smaller(captured, WindowStart + Window)

\* Slip: a backlog that does not shrink is retried for ever.
DrainOverWhenEmpty == Pending = 0

DrainOver == Pending = 0 \/ passes = MaxDrain

\* A pass begins: the audio that has arrived is looked at once, more may come while the
\* decoder works.  Once stopped every pass is forced, and final if it reaches the end.
PassBegins ==
    /\ at = "waiting"
    /\ Pending > 0
    /\ IF stopped THEN ~DrainOver ELSE Pending >= MinNew
    /\ at' = "reading"
    /\ pass' = [start |-> WindowStart, end |-> WindowEnd,
                final |-> stopped /\ WindowEnd = captured]
    /\ passes' = IF stopped THEN Smaller(passes + 1, MaxDrain) ELSE passes
    /\ UNCHANGED <<audioVars, stopped, cursorVars, historyVars>>

\* The drain is over; the thread returns the transcriber.
WorkerEnds ==
    /\ at = "waiting"
    /\ stopped
    /\ DrainOver
    /\ at' = "ended"
    /\ UNCHANGED <<audioVars, stopped, passes, pass, cursorVars, historyVars>>

\* The read or the decoder fails or panics: the window is skipped.
PassFails ==
    /\ at = "reading"
    /\ at' = "waiting"
    /\ pass' = NoPass
    /\ cursor' = pass.end
    /\ blindCut' = TRUE
    /\ lost' = lost \cup (pass.start .. pass.end - 1)
    /\ cuts' = cuts \cup {pass.end}
    /\ UNCHANGED <<audioVars, stopped, passes, emittedUntil, transcript>>

\* The segments heard in [a, b) if runs of speech are also cut before the units of breaks.
Heard(a, b, breaks) ==
    {span \in [start : a .. b, end : a .. b] :
       /\ span.start < span.end
       /\ span.start .. span.end - 1 \subseteq voiced
       /\ span.start + 1 .. span.end - 1 \cap breaks = {}
       /\ span.start = a \/ span.start - 1 \notin voiced \/ span.start \in breaks
       /\ span.end = b \/ span.end \notin voiced \/ span.end \in breaks}

Hearings(a, b) == {Heard(a, b, breaks) : breaks \in SUBSET (a + 1 .. b - 1)}

\* All on the final pass, otherwise those ending before the hold-back margin.
Committable(spoken) == {i \in spoken : pass.final \/ i.end <= pass.end - Holdback}

\* Speech fills the whole window: there is no pause to wait for.
Full(spoken) ==
    /\ spoken # {} /\ Committable(spoken) = {}
    /\ pass.end - pass.start >= Window

\* Slip: whatever was decoded is emitted.
AcceptAll(ready) == ready

\* The midpoint falls after everything already emitted.
Accepted(ready) == {i \in ready : i.start + i.end > 2 * emittedUntil}

Emit(new) ==
    /\ transcript' = transcript \cup
         {[start |-> i.start, end |-> i.end, after |-> emittedUntil] : i \in new}
    /\ IF new = {} THEN emittedUntil' = emittedUntil
       ELSE \E last \in new : /\ \A i \in new : i.end <= last.end
                              /\ emittedUntil' = last.end

\* Slip: the cursor goes to the end of the last segment, be it behind.
ResumeAtSpeech == Smaller(pass.end, emittedUntil')

\* Where a pass that emitted something lets the next one begin.
Resume == Smaller(pass.end, Larger(cursor, emittedUntil'))

PassDecodes ==
    /\ at = "reading"
    /\ at' = "waiting"
    /\ pass' = NoPass
    /\ \E spoken \in Hearings(pass.start, pass.end) :
         LET blind == pass.final \/ Full(spoken)
             ready == IF blind THEN spoken ELSE Committable(spoken)
             new   == Accepted(ready)
         IN  /\ Emit(new)
             /\ \/ blind /\ cursor' = pass.end /\ blindCut' = TRUE
                \/ ~blind /\ new # {} /\ cursor' = Resume /\ blindCut' = FALSE
                \* nothing recognised: consume the window
                \/ ~blind /\ new = {} /\ ready = spoken /\ cursor' = pass.end
                   /\ blindCut' = TRUE
                \* only speech still running into the edge: wait for more audio
                \/ ~blind /\ new = {} /\ ready # spoken /\ UNCHANGED <<cursor, blindCut>>
             /\ cuts' = IF blind /\ spoken # {} THEN cuts \cup {pass.end} ELSE cuts
    /\ UNCHANGED <<audioVars, stopped, passes, lost>>

-----------------------------------------------------------------------------
WorkerStep == PassBegins \/ PassFails \/ PassDecodes \/ WorkerEnds

Next ==
    \/ \E speech \in BOOLEAN : Append(speech)
    \/ Close
    \/ Stop
    \/ WorkerStep

Spec == Init /\ [][Next]_vars

\* The worker thread runs; nothing is assumed of capture or of the user.
FairSpec == Spec /\ WF_vars(WorkerStep)

-----------------------------------------------------------------------------
(* Properties.                                                               *)

\* Every variable has its type; the worker never consumes more than was captured.
TypeOK ==
    /\ captured \in Units
    /\ voiced \in SUBSET Units
    /\ closed \in BOOLEAN
    /\ stopped \in BOOLEAN
    /\ at \in At
    /\ pass \in Pass
    /\ passes \in 0 .. MaxDrain
    /\ cursor \in 0 .. captured
    /\ blindCut \in BOOLEAN
    /\ emittedUntil \in Units
    /\ transcript \in SUBSET Segment
    /\ lost \in SUBSET Units
    /\ cuts \in SUBSET Units

\* How much of two segments is the same audio.
Shared(i, j) == Smaller(i.end, j.end) - Larger(i.start, j.start)

\* "nothing can be emitted twice": no two segments have more audio in common than a rewind
\* reads again, nor half of both.
RepeatsAreShort ==
    \A i, j \in transcript : i # j =>
        /\ Shared(i, j) <= Overlap
        /\ 2 * Shared(i, j) < Larger(i.end - i.start, j.end - j.start)

\* Consumed audio was heard: a unit of speech behind the cursor is in the transcript, in
\* the window of a failed pass, or within a rewind of a place where speech was cut blindly
\* or a failed window ended.
LossIsAtCuts ==
    \A u \in voiced : u < cursor =>
        \/ \E i \in transcript : i.start <= u /\ u < i.end
        \/ u \in lost
        \/ \E c \in cuts : c <= u /\ u < c + Overlap

\* No pass goes back: what is consumed stays consumed, and the transcript is covered to
\* where it was, or further.
NeverBack == [][cursor' >= cursor /\ emittedUntil' >= emittedUntil]_vars

\* The worker returns once it is stopped, whatever the decoder makes of the audio.
DrainEnds == stopped ~> at = "ended"

\* "holding back must not stall a cursor when no pause ever comes": a pass over a full
\* window leaves something changed.  No more audio makes the window any longer, so that a
\* pass that changes nothing is repeated for ever.
FullWindowMoves ==
    [][at = "reading" /\ at' = "waiting" /\ pass.end - pass.start >= Window
         => cursorVars' # cursorVars]_vars
=============================================================================
