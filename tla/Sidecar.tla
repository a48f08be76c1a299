------------------------------ MODULE Sidecar ------------------------------
(***************************************************************************)
(* The summarizer process of crates/meetbutler-summarizer/src/server.rs:   *)
(* a reader thread takes lines off stdin, so that a cancel lands while a   *)
(* generation runs; the loop takes requests out of a queue, runs them one  *)
(* after the other and writes events to stdout.  The two share Cancels,    *)
(* under one lock: each use of it is one step.                             *)
(*                                                                         *)
(* Who writes the lines is the subject of Summary.  A request is its id,   *)
(* the number of the request.  Lines that are no request are left out, as  *)
(* no client sends any, and so is a shutdown line, which does what the end *)
(* of stdin does.                                                          *)
(***************************************************************************)
EXTENDS Integers, Sequences

CONSTANTS
    MaxRequests,    \* bound: requests
    MaxProgress     \* bound: progress events of one request

ASSUME SidecarAssumption ==
    /\ MaxRequests \in Nat
    /\ MaxProgress \in Nat

VARIABLES
    \* the pipes, stdout with the channel behind it
    stdin,
    stdinOpen,  \* the app holds the other end
    stdout,
    \* the process
    alive,
    reader,     \* the reader thread: "reading" or "ended"
    queue,      \* channel from the reader to the loop: requests, and Stop
    loopAt,     \* where the loop is
    taken,      \* the request it took
    \* Cancels
    running,    \* the request that runs
    flag,       \* raised to stop it
    waiting,    \* cancelled before they ran
    \* the model
    loaded,
    reported,   \* progress events of the running request
    \* history
    heard,      \* requests whose cancel the reader took in
    inTime,     \* it had that of the request at hand when the loop last looked
    answers     \* done and error events, with whether their cancel came in time

pipeVars   == <<stdin, stdinOpen, stdout>>
cancelVars == <<running, flag, waiting>>
modelVars  == <<loaded, reported>>
loopVars   == <<loopAt, taken, inTime>>
processVars == <<alive, reader, queue, loopVars, cancelVars, modelVars, heard, answers>>

NoRequest == 0

Stop == 0

Requests == 1 .. MaxRequests

Line == [type : {"generate", "cancel"}, id : Requests]

\* "too long" is the error of a prompt that does not fit its context, "failed" any other.
Answers == {"done", "too long", "failed", "cancelled"}

Event == [type : {"loaded", "progress"} \cup Answers, id : Requests]

LoopAt == {"idle", "taken", "load", "generate", "stop", "answer", "clear", "ended"}

SidecarInit ==
    /\ stdin = <<>> /\ stdinOpen = TRUE /\ stdout = <<>>
    /\ alive = TRUE /\ reader = "reading" /\ queue = <<>>
    /\ loopAt = "idle" /\ taken = NoRequest
    /\ running = NoRequest /\ flag = FALSE /\ waiting = {}
    /\ loaded = FALSE /\ reported = 0
    /\ heard = {} /\ inTime = FALSE /\ answers = <<>>

Tells(type, id) == stdout' = Append(stdout, [type |-> type, id |-> id])

\* The one event that ends a request.
Answer(type) ==
    /\ Tells(type, taken)
    /\ answers' = Append(answers, [type |-> type, id |-> taken, heard |-> inTime'])

-----------------------------------------------------------------------------
(* The reader thread, read_requests.                                         *)

ReadsGenerate ==
    /\ alive
    /\ stdin # <<>> /\ Head(stdin).type = "generate"
    /\ stdin' = Tail(stdin)
    /\ queue' = Append(queue, Head(stdin).id)
    /\ UNCHANGED <<stdinOpen, stdout, alive, reader, loopVars, cancelVars, modelVars, heard,
                   answers>>

\* Slip: a cancel of a request that does not run is dropped.
ReadsCancelOfRunning ==
    /\ alive
    /\ stdin # <<>> /\ Head(stdin).type = "cancel"
    /\ stdin' = Tail(stdin)
    /\ heard' = heard \cup {Head(stdin).id}
    /\ flag' = (flag \/ running = Head(stdin).id)
    /\ UNCHANGED <<stdinOpen, stdout, alive, reader, queue, loopVars, running, waiting,
                   modelVars, answers>>

\* A cancel stops the request if it runs, else it is kept for when its turn comes; one
\* that comes late is kept for ever.
ReadsCancel ==
    /\ alive
    /\ stdin # <<>> /\ Head(stdin).type = "cancel"
    /\ stdin' = Tail(stdin)
    /\ heard' = heard \cup {Head(stdin).id}
    /\ IF running = Head(stdin).id
       THEN flag' = TRUE /\ UNCHANGED waiting
       ELSE waiting' = waiting \cup {Head(stdin).id} /\ UNCHANGED flag
    /\ UNCHANGED <<stdinOpen, stdout, alive, reader, queue, loopVars, running, modelVars,
                   answers>>

\* Slip: the loop is not told.
ReadsEndAlone ==
    /\ alive
    /\ reader = "reading"
    /\ stdin = <<>> /\ ~stdinOpen
    /\ reader' = "ended"
    /\ flag' = TRUE
    /\ UNCHANGED <<pipeVars, alive, queue, loopVars, running, waiting, modelVars, heard,
                   answers>>

\* stdin closed: what runs is stopped, and the loop after what is in the queue.
ReadsEnd ==
    /\ alive
    /\ reader = "reading"
    /\ stdin = <<>> /\ ~stdinOpen
    /\ reader' = "ended"
    /\ flag' = TRUE
    /\ queue' = Append(queue, Stop)
    /\ UNCHANGED <<pipeVars, alive, loopVars, running, waiting, modelVars, heard, answers>>

-----------------------------------------------------------------------------
(* The loop, serve and run.                                                  *)

LoopTakes ==
    /\ alive
    /\ loopAt = "idle"
    /\ queue # <<>> /\ Head(queue) # Stop
    /\ queue' = Tail(queue)
    /\ taken' = Head(queue)
    /\ loopAt' = "taken"
    /\ UNCHANGED <<pipeVars, alive, reader, inTime, cancelVars, modelVars, heard, answers>>

\* serve returns, the process with it.
LoopStops ==
    /\ alive
    /\ loopAt = "idle"
    /\ queue # <<>> /\ Head(queue) = Stop
    /\ alive' = FALSE
    /\ loopAt' = "ended"
    /\ UNCHANGED <<pipeVars, reader, queue, taken, inTime, cancelVars, modelVars, heard,
                   answers>>

\* Slip: a cancelled request is passed over without a word.
LoopSkips ==
    /\ alive
    /\ loopAt = "taken"
    /\ taken \in waiting
    /\ waiting' = waiting \ {taken}
    /\ loopAt' = "idle"
    /\ UNCHANGED <<pipeVars, alive, reader, queue, taken, inTime, running, flag, modelVars,
                   heard, answers>>

\* Cancelled before its turn: answered and never run.
LoopRefuses ==
    /\ alive
    /\ loopAt = "taken"
    /\ taken \in waiting
    /\ waiting' = waiting \ {taken}
    /\ inTime' = (taken \in heard)
    /\ Answer("cancelled")
    /\ loopAt' = "idle"
    /\ UNCHANGED <<stdin, stdinOpen, alive, reader, queue, taken, running, flag, modelVars,
                   heard>>

\* Slip: the flag of the request before is used on.
LoopBeginsOldFlag ==
    /\ alive
    /\ loopAt = "taken"
    /\ taken \notin waiting
    /\ running' = taken
    /\ reported' = 0
    /\ loopAt' = "load"
    /\ UNCHANGED <<pipeVars, alive, reader, queue, taken, inTime, flag, waiting, loaded,
                   heard, answers>>

\* A flag of its own for every request.
LoopBegins ==
    /\ alive
    /\ loopAt = "taken"
    /\ taken \notin waiting
    /\ running' = taken
    /\ flag' = FALSE
    /\ reported' = 0
    /\ loopAt' = "load"
    /\ UNCHANGED <<pipeVars, alive, reader, queue, taken, inTime, waiting, loaded, heard,
                   answers>>

\* Slip: a model that does not load is only logged.
LoopLoadsOrLogs ==
    /\ alive
    /\ loopAt = "load"
    /\ \/ loaded /\ loopAt' = "generate" /\ UNCHANGED <<stdout, loaded>>
       \/ ~loaded /\ loopAt' = "generate" /\ loaded' = TRUE /\ Tells("loaded", taken)
       \/ ~loaded /\ loopAt' = "clear" /\ UNCHANGED <<stdout, loaded>>
    /\ UNCHANGED <<stdin, stdinOpen, alive, reader, queue, taken, inTime, cancelVars,
                   reported, heard, answers>>

\* The model is there from the request before, or is loaded, or does not load.
LoopLoads ==
    /\ alive
    /\ loopAt = "load"
    /\ \/ /\ loaded
          /\ loopAt' = "generate"
          /\ UNCHANGED <<inTime, stdout, loaded, answers>>
       \/ /\ ~loaded
          /\ loopAt' = "generate"
          /\ loaded' = TRUE
          /\ Tells("loaded", taken)
          /\ UNCHANGED <<inTime, answers>>
       \/ /\ ~loaded
          /\ loopAt' = "clear"
          /\ inTime' = (taken \in heard)
          /\ Answer("failed")
          /\ UNCHANGED loaded
    /\ UNCHANGED <<stdin, stdinOpen, alive, reader, queue, taken, cancelVars, reported,
                   heard>>

\* The model reports progress until the flag is raised.
LoopReports ==
    /\ alive
    /\ loopAt = "generate"
    /\ ~flag
    /\ reported < MaxProgress
    /\ reported' = reported + 1
    /\ Tells("progress", taken)
    /\ UNCHANGED <<stdin, stdinOpen, alive, reader, queue, loopVars, cancelVars, loaded,
                   heard, answers>>

\* The generation is over.  The flag decides what it was; whoever raises it from here on
\* comes too late.
LoopLooks ==
    /\ alive
    /\ loopAt = "generate"
    /\ loopAt' = IF flag THEN "stop" ELSE "answer"
    /\ inTime' = (taken \in heard)
    /\ UNCHANGED <<pipeVars, alive, reader, queue, taken, cancelVars, modelVars, heard,
                   answers>>

\* A prompt is found too long before anything is generated.
LoopAnswers ==
    /\ alive
    /\ UNCHANGED inTime
    /\ \/ loopAt = "stop" /\ Answer("cancelled")
       \/ loopAt = "answer" /\ Answer("done")
       \/ loopAt = "answer" /\ Answer("failed")
       \/ loopAt = "answer" /\ reported = 0 /\ Answer("too long")
    /\ loopAt' = "clear"
    /\ UNCHANGED <<stdin, stdinOpen, alive, reader, queue, taken, cancelVars, modelVars,
                   heard>>

LoopClears ==
    /\ alive
    /\ loopAt = "clear"
    /\ running' = NoRequest
    /\ loopAt' = "idle"
    /\ UNCHANGED <<pipeVars, alive, reader, queue, taken, inTime, flag, waiting, modelVars,
                   heard, answers>>

-----------------------------------------------------------------------------
ReaderStep == ReadsGenerate \/ ReadsCancel \/ ReadsEnd

LoopStep ==
    \/ LoopTakes \/ LoopStops \/ LoopRefuses \/ LoopBegins \/ LoopLoads
    \/ LoopReports \/ LoopLooks \/ LoopAnswers \/ LoopClears

\* The process is killed or aborts, anywhere.
Dies ==
    /\ alive
    /\ alive' = FALSE
    /\ UNCHANGED <<pipeVars, reader, queue, loopVars, cancelVars, modelVars, heard, answers>>
=============================================================================
