---------------------------- MODULE AppLifecycle ----------------------------
(***************************************************************************)
(* The threads of the desktop app, app/src-tauri/src/lib.rs, around the    *)
(* recorder: AppState with its two locks, two flags and the model cache.   *)
(*                                                                         *)
(*   start_recording and stop_recording run on threads of their own, any   *)
(*                     window may call them;                               *)
(*   the main thread   dispatches calls, runs summarize and cancel_summary *)
(*                     itself, and shuts the app down;                     *)
(*   after-meeting threads run a final pass and a summary, or a summary    *)
(*                     asked for again, one at a time.                     *)
(*                                                                         *)
(* What a recording, its drain and a final pass do to the store is the     *)
(* subject of Recorder; here each is one or two steps, in which a model is *)
(* alive.                                                                  *)
(***************************************************************************)
EXTENDS FiniteSets

CONSTANTS
    Meetings,   \* meetings that are started, one call of start_recording each
    Stops,      \* calls of stop_recording
    Requests,   \* calls of summarize
    NoOne       \* no meeting, no thread

\* The work of after-meeting threads: the final pass of a meeting, or a summary.
Works == Meetings \cup Requests

ASSUME AppAssumption ==
    /\ Meetings \cap Requests = {}
    /\ NoOne \notin Works

VARIABLES
    meeting,    \* what a meeting is doing
    current,    \* AppState.current: the meeting being recorded
    startAt,    \* where a call of start_recording is, see StartAt
    stopAt,     \* where a call of stop_recording is; "join" holds the lock of finalizing
    stopOf,     \* the meeting it took
    mainAt,     \* where the main thread is, see MainAt
    mainOf,     \* the request it is about to run, or the meeting it took
    slot,       \* AppState.finalizing: the latest after-meeting thread
    joining,    \* the handle taken out of the slot, held with the lock until it is joined
    workAt,     \* where an after-meeting thread is
    cached,     \* models the cache holds
    quitting,   \* AppState.quitting
    cancel      \* AppState.cancel_summary

callVars == <<startAt, stopAt, stopOf, mainAt, mainOf>>
slotVars == <<slot, joining>>
flagVars == <<quitting, cancel>>
vars == <<meeting, current, callVars, slotVars, workAt, cached, flagVars>>

MeetingIs == {"none", "recording", "stopping", "stopped"}

\* "tray": in set_tray, waiting for the main thread.
StartAt == {"idle", "waiting", "opening", "tray", "ended"}

StopAt == {"idle", "take", "drain", "tray", "evict", "slot", "join", "ended"}

MainAt == {"idle", "recording", "summarize slot", "summarize join",
           "quit", "cancel", "take", "drain", "slot", "join", "clear", "exited"}

WorkAt == {"none", "load", "finalize", "clear", "check", "summarise", "ended"}

Models == {"live", "final"}

Init ==
    /\ meeting = [m \in Meetings |-> "none"]
    /\ current = NoOne
    /\ startAt = [m \in Meetings |-> "idle"]
    /\ stopAt = [x \in Stops |-> "idle"]
    /\ stopOf = [x \in Stops |-> NoOne]
    /\ mainAt = "idle" /\ mainOf = NoOne
    /\ slot = NoOne /\ joining = NoOne
    /\ workAt = [w \in Works |-> "none"]
    /\ cached = {}
    /\ quitting = FALSE /\ cancel = FALSE

-----------------------------------------------------------------------------
(* The two locks.  Both are held over several steps by some thread.          *)

\* start_recording keeps the lock of current from its check to its end.
Opening(m)  == startAt[m] \in {"opening", "tray"}
CurrentFree == \A m \in Meetings : ~Opening(m)

\* Menu bar calls (external) of another thread are run by the main thread between two
\* events; the caller waits.  Once shutdown has begun there is no next event.
TrayServed == mainAt = "idle"

\* Who takes a handle out of finalizing keeps the lock until the thread has ended.
SlotFree ==
    /\ \A x \in Stops : stopAt[x] # "join"
    /\ mainAt \notin {"summarize join", "join"}

\* A thread was spawned and has not returned.
Working(w) == workAt[w] \notin {"none", "ended"}

TakeSlot ==
    /\ SlotFree
    /\ joining' = slot
    /\ slot' = NoOne

\* Slip: the thread before is not waited for.
JoinedAtOnce == TRUE

Joined == \A w \in Works : Working(w) => w # joining

\* The tail of after_meeting: a new thread in the slot, the lock released.
Spawn(w, at) ==
    /\ Joined
    /\ joining' = NoOne
    /\ slot' = w
    /\ workAt' = [workAt EXCEPT ![w] = at]

-----------------------------------------------------------------------------
(* start_recording.                                                          *)

\* A window's call reaches the app through the main thread, while that is idle.
StartInvoked(m) ==
    /\ mainAt = "idle"
    /\ startAt[m] = "idle"
    /\ startAt' = [startAt EXCEPT ![m] = "waiting"]
    /\ UNCHANGED <<meeting, current, stopAt, stopOf, mainAt, mainOf, slotVars, workAt,
                   cached, flagVars>>

\* Slip: nobody looks whether a meeting is being recorded.
StartAlways(m) ==
    /\ startAt[m] = "waiting"
    /\ CurrentFree
    /\ startAt' = [startAt EXCEPT ![m] = "opening"]
    /\ cached' = cached \cup {"live"}
    /\ UNCHANGED <<meeting, current, stopAt, stopOf, mainAt, mainOf, slotVars, workAt,
                   flagVars>>

\* With the lock: refused when there is a recording, else the live model is loaded, which
\* may fail.
StartLoads(m) ==
    /\ startAt[m] = "waiting"
    /\ CurrentFree
    /\ \/ /\ current = NoOne
          /\ startAt' = [startAt EXCEPT ![m] = "opening"]
          /\ cached' = cached \cup {"live"}
       \/ /\ startAt' = [startAt EXCEPT ![m] = "ended"]
          /\ UNCHANGED cached
    /\ UNCHANGED <<meeting, current, stopAt, stopOf, mainAt, mainOf, slotVars, workAt,
                   flagVars>>

\* Capture, decoders and the recorder start, or one of them fails and nothing is recorded.
StartOpens(m) ==
    /\ startAt[m] = "opening"
    /\ \/ /\ meeting' = [meeting EXCEPT ![m] = "recording"]
          /\ current' = m
          /\ startAt' = [startAt EXCEPT ![m] = "tray"]
       \/ /\ startAt' = [startAt EXCEPT ![m] = "ended"]
          /\ UNCHANGED <<meeting, current>>
    /\ UNCHANGED <<stopAt, stopOf, mainAt, mainOf, slotVars, workAt, cached, flagVars>>

\* The menu bar is told with the lock of current still held.
StartTray(m) ==
    /\ startAt[m] = "tray"
    /\ TrayServed
    /\ startAt' = [startAt EXCEPT ![m] = "ended"]
    /\ UNCHANGED <<meeting, current, stopAt, stopOf, mainAt, mainOf, slotVars, workAt,
                   cached, flagVars>>

-----------------------------------------------------------------------------
(* stop_recording.                                                           *)

StopInvoked(x) ==
    /\ mainAt = "idle"
    /\ stopAt[x] = "idle"
    /\ stopAt' = [stopAt EXCEPT ![x] = "take"]
    /\ UNCHANGED <<meeting, current, startAt, stopOf, mainAt, mainOf, slotVars, workAt,
                   cached, flagVars>>

\* The first step of stop_current, shared with shutdown.
Take ==
    /\ CurrentFree
    /\ current' = NoOne
    /\ meeting' = IF current = NoOne THEN meeting
                  ELSE [meeting EXCEPT ![current] = "stopping"]

StopTakes(x) ==
    /\ stopAt[x] = "take"
    /\ Take
    /\ stopAt' = [stopAt EXCEPT ![x] = IF current = NoOne THEN "tray" ELSE "drain"]
    /\ stopOf' = [stopOf EXCEPT ![x] = current]
    /\ UNCHANGED <<startAt, mainAt, mainOf, slotVars, workAt, cached, flagVars>>

\* Capture stops, the writers end, Recorder::stop drains the workers; only if it succeeds
\* the call goes on.
StopDrains(x) ==
    /\ stopAt[x] = "drain"
    /\ meeting' = [meeting EXCEPT ![stopOf[x]] = "stopped"]
    /\ \E at \in {"tray", "ended"} : stopAt' = [stopAt EXCEPT ![x] = at]
    /\ UNCHANGED <<current, startAt, stopOf, mainAt, mainOf, slotVars, workAt, cached,
                   flagVars>>

\* No lock is held here; without a recording there is nothing more to do.
StopTray(x) ==
    /\ stopAt[x] = "tray"
    /\ TrayServed
    /\ stopAt' = [stopAt EXCEPT ![x] = IF stopOf[x] = NoOne THEN "ended" ELSE "evict"]
    /\ UNCHANGED <<meeting, current, startAt, stopOf, mainAt, mainOf, slotVars, workAt,
                   cached, flagVars>>

StopEvicts(x) ==
    /\ stopAt[x] = "evict"
    /\ stopAt' = [stopAt EXCEPT ![x] = "slot"]
    /\ cached' = cached \ {"live"}
    /\ UNCHANGED <<meeting, current, startAt, stopOf, mainAt, mainOf, slotVars, workAt,
                   flagVars>>

\* Slip: the final pass is skipped while another runs.
StopTriesSlot(x) ==
    /\ stopAt[x] = "slot"
    /\ IF SlotFree /\ \A w \in Works : Working(w) => w # slot
       THEN TakeSlot /\ stopAt' = [stopAt EXCEPT ![x] = "join"]
       ELSE stopAt' = [stopAt EXCEPT ![x] = "ended"] /\ UNCHANGED slotVars
    /\ UNCHANGED <<meeting, current, startAt, stopOf, mainAt, mainOf, workAt, cached,
                   flagVars>>

StopTakesSlot(x) ==
    /\ stopAt[x] = "slot"
    /\ TakeSlot
    /\ stopAt' = [stopAt EXCEPT ![x] = "join"]
    /\ UNCHANGED <<meeting, current, startAt, stopOf, mainAt, mainOf, workAt, cached,
                   flagVars>>

StopSpawns(x) ==
    /\ stopAt[x] = "join"
    /\ Spawn(stopOf[x], "load")
    /\ stopAt' = [stopAt EXCEPT ![x] = "ended"]
    /\ UNCHANGED <<meeting, current, startAt, stopOf, mainAt, mainOf, cached, flagVars>>

-----------------------------------------------------------------------------
(* The after-meeting thread: start_final_pass and run_summary.               *)

WorkGoes(w, at) == workAt' = [workAt EXCEPT ![w] = at]

\* The final model is loaded, or is not there.
PassLoads(w) ==
    /\ workAt[w] = "load"
    /\ \/ WorkGoes(w, "finalize") /\ cached' = cached \cup {"final"}
       \/ WorkGoes(w, "ended") /\ cached' = cached \ {"final"}
    /\ UNCHANGED <<meeting, current, callVars, slotVars, flagVars>>

\* Slip: a pass that does not succeed returns early, the model stays.
PassEndsEarly(w) ==
    /\ workAt[w] = "finalize"
    /\ \/ ~quitting /\ WorkGoes(w, "clear") /\ cached' = cached \ {"final"}
       \/ WorkGoes(w, "ended") /\ UNCHANGED cached
    /\ UNCHANGED <<meeting, current, callVars, slotVars, flagVars>>

\* Recorder::finalize, then the model is let go; a pass that failed or was cancelled is
\* not summarised, and after the quit it is cancelled.
PassEnds(w) ==
    /\ workAt[w] = "finalize"
    /\ \/ ~quitting /\ WorkGoes(w, "clear")
       \/ WorkGoes(w, "ended")
    /\ cached' = cached \ {"final"}
    /\ UNCHANGED <<meeting, current, callVars, slotVars, flagVars>>

\* "a fresh summary is not cancelled"
SummaryClears(w) ==
    /\ workAt[w] = "clear"
    /\ WorkGoes(w, "check")
    /\ cancel' = FALSE
    /\ UNCHANGED <<meeting, current, callVars, slotVars, cached, quitting>>

SummaryChecks(w) ==
    /\ workAt[w] = "check"
    /\ WorkGoes(w, IF quitting THEN "ended" ELSE "summarise")
    /\ UNCHANGED <<meeting, current, callVars, slotVars, cached, flagVars>>

\* Slip: the thread takes itself out of the slot, for which it needs the lock.
SummaryEndsInSlot(w) ==
    /\ workAt[w] = "summarise"
    /\ SlotFree
    /\ WorkGoes(w, "ended")
    /\ UNCHANGED <<meeting, current, callVars, slotVars, cached, flagVars>>

\* Done, cancelled or failed: the sidecar is gone and the result stored.
SummaryEnds(w) ==
    /\ workAt[w] = "summarise"
    /\ WorkGoes(w, "ended")
    /\ UNCHANGED <<meeting, current, callVars, slotVars, cached, flagVars>>

-----------------------------------------------------------------------------
(* The main thread.                                                          *)

MainGoes(at) == mainAt' = at /\ UNCHANGED mainOf

\* summarize, which is not async: after_meeting runs on the main thread.
Summarize(r) ==
    /\ mainAt = "idle"
    /\ workAt[r] = "none"
    /\ mainAt' = "summarize slot"
    /\ mainOf' = r
    /\ UNCHANGED <<meeting, current, startAt, stopAt, stopOf, slotVars, workAt, cached,
                   flagVars>>

SummarizeTakesSlot ==
    /\ mainAt = "summarize slot"
    /\ TakeSlot
    /\ MainGoes("summarize join")
    /\ UNCHANGED <<meeting, current, startAt, stopAt, stopOf, workAt, cached, flagVars>>

SummarizeSpawns ==
    /\ mainAt = "summarize join"
    /\ Spawn(mainOf, "clear")
    /\ mainAt' = "idle" /\ mainOf' = NoOne
    /\ UNCHANGED <<meeting, current, startAt, stopAt, stopOf, cached, flagVars>>

\* recording, which is not async: a window that opens asks what is being recorded.
Recording ==
    /\ mainAt = "idle"
    /\ MainGoes("recording")
    /\ UNCHANGED <<meeting, current, startAt, stopAt, stopOf, slotVars, workAt, cached,
                   flagVars>>

RecordingAnswers ==
    /\ mainAt = "recording"
    /\ CurrentFree
    /\ MainGoes("idle")
    /\ UNCHANGED <<meeting, current, startAt, stopAt, stopOf, slotVars, workAt, cached,
                   flagVars>>

CancelSummary ==
    /\ mainAt = "idle"
    /\ cancel' = TRUE
    /\ UNCHANGED <<meeting, current, callVars, slotVars, workAt, cached, quitting>>

\* RunEvent::Exit: shutdown begins.
Exit ==
    /\ mainAt = "idle"
    /\ MainGoes("quit")
    /\ UNCHANGED <<meeting, current, startAt, stopAt, stopOf, slotVars, workAt, cached,
                   flagVars>>

\* Slip: only the cancel flag is raised.
ShutdownOnlyCancels ==
    /\ mainAt = "quit"
    /\ MainGoes("cancel")
    /\ cancel' = TRUE
    /\ UNCHANGED <<meeting, current, startAt, stopAt, stopOf, slotVars, workAt, cached,
                   quitting>>

ShutdownQuits ==
    /\ mainAt = "quit"
    /\ MainGoes("cancel")
    /\ quitting' = TRUE
    /\ UNCHANGED <<meeting, current, startAt, stopAt, stopOf, slotVars, workAt, cached,
                   cancel>>

ShutdownCancels ==
    /\ mainAt = "cancel"
    /\ MainGoes("take")
    /\ cancel' = TRUE
    /\ UNCHANGED <<meeting, current, startAt, stopAt, stopOf, slotVars, workAt, cached,
                   quitting>>

ShutdownTakes ==
    /\ mainAt = "take"
    /\ Take
    /\ mainAt' = IF current = NoOne THEN "slot" ELSE "drain"
    /\ mainOf' = current
    /\ UNCHANGED <<startAt, stopAt, stopOf, slotVars, workAt, cached, flagVars>>

ShutdownDrains ==
    /\ mainAt = "drain"
    /\ meeting' = [meeting EXCEPT ![mainOf] = "stopped"]
    /\ MainGoes("slot")
    /\ UNCHANGED <<current, startAt, stopAt, stopOf, slotVars, workAt, cached, flagVars>>

ShutdownTakesSlot ==
    /\ mainAt = "slot"
    /\ TakeSlot
    /\ MainGoes("join")
    /\ UNCHANGED <<meeting, current, startAt, stopAt, stopOf, workAt, cached, flagVars>>

ShutdownJoins ==
    /\ mainAt = "join"
    /\ Joined
    /\ joining' = NoOne
    /\ MainGoes("clear")
    /\ UNCHANGED <<meeting, current, startAt, stopAt, stopOf, slot, workAt, cached, flagVars>>

\* The models are let go, and the process exits with whatever its other threads are doing.
ShutdownClears ==
    /\ mainAt = "clear"
    /\ cached' = {}
    /\ MainGoes("exited")
    /\ UNCHANGED <<meeting, current, startAt, stopAt, stopOf, slotVars, workAt, flagVars>>

-----------------------------------------------------------------------------
Running == mainAt # "exited"

StartStep(m) == Running /\ (StartLoads(m) \/ StartOpens(m) \/ StartTray(m))

StopStep(x) ==
    /\ Running
    /\ \/ StopTakes(x) \/ StopDrains(x) \/ StopTray(x) \/ StopEvicts(x)
       \/ StopTakesSlot(x) \/ StopSpawns(x)

TrayStep == \/ \E m \in Meetings : StartTray(m)
            \/ \E x \in Stops : StopTray(x)

WorkStep(w) ==
    /\ Running
    /\ \/ PassLoads(w) \/ PassEnds(w)
       \/ SummaryClears(w) \/ SummaryChecks(w) \/ SummaryEnds(w)

MainStep ==
    \/ RecordingAnswers
    \/ SummarizeTakesSlot \/ SummarizeSpawns
    \/ ShutdownQuits \/ ShutdownCancels \/ ShutdownTakes \/ ShutdownDrains
    \/ ShutdownTakesSlot \/ ShutdownJoins \/ ShutdownClears

UserStep ==
    \/ \E m \in Meetings : StartInvoked(m)
    \/ \E x \in Stops : StopInvoked(x)
    \/ \E r \in Requests : Summarize(r)
    \/ Recording
    \/ CancelSummary
    \/ Exit

Next ==
    \/ UserStep
    \/ \E m \in Meetings : StartStep(m)
    \/ \E x \in Stops : StopStep(x)
    \/ \E w \in Works : WorkStep(w)
    \/ MainStep

Spec == Init /\ [][Next]_vars

\* Every thread that was started runs, and events are handled in the order they came, so
\* that a menu bar call is run if the main thread comes back to its loop again and again;
\* nothing is assumed of the user.
Fairness ==
    /\ \A m \in Meetings : WF_vars(StartStep(m))
    /\ \A x \in Stops : WF_vars(StopStep(x))
    /\ \A w \in Works : WF_vars(WorkStep(w))
    /\ WF_vars(MainStep)
    /\ SF_vars(TrayStep)

FairSpec == Spec /\ Fairness

-----------------------------------------------------------------------------
(* Properties.                                                               *)

RecordingTypeOK ==
    /\ meeting \in [Meetings -> MeetingIs]
    /\ current \in Meetings \cup {NoOne}
    /\ startAt \in [Meetings -> StartAt]

StopTypeOK ==
    /\ stopAt \in [Stops -> StopAt]
    /\ stopOf \in [Stops -> Meetings \cup {NoOne}]
    /\ \A x \in Stops :
          stopAt[x] \in {"drain", "evict", "slot", "join"} => stopOf[x] \in Meetings

MainTypeOK ==
    /\ mainAt \in MainAt
    /\ mainOf \in Works \cup {NoOne}
    /\ mainAt \in {"summarize slot", "summarize join"} => mainOf \in Requests
    /\ mainAt = "drain" => mainOf \in Meetings

WorkTypeOK ==
    /\ slot \in Works \cup {NoOne}
    /\ joining \in Works \cup {NoOne}
    /\ workAt \in [Works -> WorkAt]

FlagTypeOK ==
    /\ cached \in SUBSET Models
    /\ quitting \in BOOLEAN
    /\ cancel \in BOOLEAN

\* Every variable has its type, and a thread that works on something has it.
TypeOK == RecordingTypeOK /\ StopTypeOK /\ MainTypeOK /\ WorkTypeOK /\ FlagTypeOK

\* What is being recorded is what current says, so that there is one recording at most and
\* a stop or a shutdown finds it.
RecordingIsCurrent ==
    \A m \in Meetings : meeting[m] = "recording" <=> current = m

\* "one at a time: the models are big": two after-meeting threads never run together,
\* whoever asked for them.
OneAtATime ==
    \A v, w \in Works : Working(v) /\ Working(w) => v = w

\* "a quit that lands around this line is still seen": when shutdown has set its two flags,
\* a summary that runs has its cancel flag up, however clearing the flag and setting it met.
QuitIsSeen ==
    mainAt \in {"take", "drain", "slot", "join", "clear", "exited"} =>
        \A w \in Works : workAt[w] = "summarise" => cancel

\* "Before the process exits: stop recording, cancel the final pass, and let go of every
\* model": shutdown comes to an end.
ShutdownEnds == mainAt = "quit" ~> mainAt = "exited"

\* A start that waits for the main thread with the lock of current, and the main thread,
\* which waits for that lock.
TrayDeadlock == mainAt \in {"recording", "take"} /\ \E m \in Meetings : startAt[m] = "tray"

\* Whatever the main thread does comes to an end, a shutdown too: every other lock it waits
\* for is let go, every thread it joins ends, and nothing but that start keeps it.
MainGoesOn == mainAt # "idle" ~> (mainAt \in {"idle", "exited"} \/ TrayDeadlock)

\* "Stop recording, then run the final pass in the background": a meeting that was stopped
\* is finalized, however many passes are before it, unless the app exits.
StoppedIsFinalized ==
    \A x \in Stops, m \in Meetings :
        stopAt[x] = "evict" /\ stopOf[x] = m ~> (mainAt = "exited" \/ workAt[m] # "none")

\* "keep the large model only for the pass: the next meeting needs the memory": the final
\* model is not cached but while a pass uses it, whatever becomes of the pass.
FinalModelOnlyInPass ==
    "final" \in cached => \E w \in Works : workAt[w] = "finalize"
=============================================================================
