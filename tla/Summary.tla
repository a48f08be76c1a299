------------------------------ MODULE Summary ------------------------------
(***************************************************************************)
(* A summary from its first request to the end of its sidecar: summarise   *)
(* of crates/meetbutler-summarizer/src/summary.rs, one generation per      *)
(* chunk and one for the overall summary, through the client of client.rs, *)
(* on top of Sidecar.  The chunks' texts are left out: an answer in the    *)
(* wrong format loses its items and changes nothing else.                  *)
(*                                                                         *)
(* The user may cancel, a thread that holds a Canceller may cancel the     *)
(* request that runs, the sidecar may die and the app may be killed.       *)
(***************************************************************************)
EXTENDS Sidecar

CONSTANT Chunks     \* chunks of the transcript

ASSUME SummaryAssumption ==
    /\ Chunks \in Nat \ {0}
    /\ MaxRequests = 2 * (Chunks + 1)   \* each may be retried once

VARIABLES
    at,         \* where summarise is, see At
    generation, \* the chunk it is at; after the last, the overall summary
    retried,    \* in the second attempt of run
    next,       \* Sidecar.next, the id of the latest request
    asked,      \* a cancel was sent for it
    result,     \* what summarise returned
    cancel,     \* AppState.cancel_summary
    \* history
    cancels,    \* requests a cancel was sent for
    sentSince   \* requests sent since the user cancelled

clientVars == <<at, generation, retried, next, asked, result>>
userVars   == <<cancel, cancels, sentSince>>
vars == <<pipeVars, processVars, clientVars, userVars>>

\* "ended": it returned, and the sidecar was dropped; "killed": the app is gone.
At == {"check", "send", "wait", "returned", "ended", "killed"}

Results == {"none", "done", "failed", "cancelled", "exited"}

Overall == Chunks + 1

Init ==
    /\ SidecarInit
    /\ at = "check" /\ generation = 1 /\ retried = FALSE /\ next = 0 /\ asked = FALSE
    /\ result = "none"
    /\ cancel = FALSE /\ cancels = {} /\ sentSince = 0

Returns(what) == at' = "returned" /\ result' = what

-----------------------------------------------------------------------------
(* summarise, run and Sidecar::generate, all on the after-meeting thread.    *)

\* Slip: only the first generation looks at the flag.
ChecksOnce ==
    /\ at = "check"
    /\ IF cancel /\ generation = 1 THEN Returns("cancelled")
       ELSE at' = "send" /\ UNCHANGED result
    /\ UNCHANGED <<pipeVars, processVars, generation, retried, next, asked, userVars>>

Checks ==
    /\ at = "check"
    /\ IF cancel THEN Returns("cancelled") ELSE at' = "send" /\ UNCHANGED result
    /\ UNCHANGED <<pipeVars, processVars, generation, retried, next, asked, userVars>>

\* A line into the pipe; there is an error when nobody is at the other end.
Sends(type, id) == stdin' = Append(stdin, [type |-> type, id |-> id])

SendsRequest ==
    /\ at = "send"
    /\ next' = next + 1
    /\ asked' = FALSE
    /\ IF alive THEN Sends("generate", next + 1) /\ at' = "wait" /\ UNCHANGED result
                ELSE Returns("exited") /\ UNCHANGED stdin
    /\ sentSince' = IF cancel THEN sentSince + 1 ELSE sentSince
    /\ UNCHANGED <<stdinOpen, stdout, processVars, generation, retried, cancel, cancels>>

\* The next event, which is about the request waited for.
Receives(types) ==
    /\ at = "wait"
    /\ stdout # <<>> /\ Head(stdout) \in [type : types, id : {next}]
    /\ stdout' = Tail(stdout)

\* on_event: asks for the request to stop, once, if the summary was cancelled.
ReceivesEvent ==
    /\ Receives({"loaded", "progress"})
    /\ IF cancel /\ ~asked
       THEN /\ asked' = TRUE
            /\ cancels' = cancels \cup {next}
            /\ IF alive THEN Sends("cancel", next) ELSE UNCHANGED stdin
       ELSE UNCHANGED <<asked, cancels, stdin>>
    /\ UNCHANGED <<stdinOpen, processVars, at, generation, retried, next, result, cancel,
                   sentSince>>

ReceivesDone ==
    /\ Receives({"done"})
    /\ \/ /\ generation < Overall
          /\ generation' = generation + 1
          /\ at' = "check"
          /\ retried' = FALSE
          /\ UNCHANGED result
       \/ /\ generation = Overall
          /\ Returns("done")
          /\ UNCHANGED <<generation, retried>>
    /\ UNCHANGED <<stdin, stdinOpen, processVars, next, asked, userVars>>

\* One more attempt, with a context of the size the sidecar reported.
Retries ==
    /\ Receives({"too long"})
    /\ ~retried
    /\ retried' = TRUE
    /\ at' = "send"
    /\ UNCHANGED <<stdin, stdinOpen, processVars, generation, next, asked, result, userVars>>

ReceivesError ==
    /\ \/ Receives({"cancelled"}) /\ Returns("cancelled")
       \/ Receives({"failed"}) /\ Returns("failed")
       \/ retried /\ Receives({"too long"}) /\ Returns("failed")
    /\ UNCHANGED <<stdin, stdinOpen, processVars, generation, retried, next, asked, userVars>>

\* The events end with the process.
SeesExit ==
    /\ at = "wait"
    /\ stdout = <<>> /\ ~alive
    /\ Returns("exited")
    /\ UNCHANGED <<pipeVars, processVars, generation, retried, next, asked, userVars>>

\* Drop for Sidecar: stdin is closed and the process killed, if it is not gone by then.
Drops ==
    /\ at = "returned"
    /\ at' = "ended"
    /\ stdinOpen' = FALSE
    /\ alive' = FALSE
    /\ UNCHANGED <<stdin, stdout, reader, queue, loopVars, cancelVars, modelVars, heard,
                   answers, generation, retried, next, asked, result, userVars>>

-----------------------------------------------------------------------------
(* Everybody else.                                                           *)

CancelSummary ==
    /\ ~cancel
    /\ at # "killed"
    /\ cancel' = TRUE
    /\ UNCHANGED <<pipeVars, processVars, clientVars, cancels, sentSince>>

\* "Cancels requests from another thread."
CancelsElsewhere ==
    /\ at = "wait" /\ alive
    /\ next \notin cancels
    /\ Sends("cancel", next)
    /\ cancels' = cancels \cup {next}
    /\ UNCHANGED <<stdinOpen, stdout, processVars, clientVars, cancel, sentSince>>

\* The app is killed outright; the kernel closes its end of the pipe.
AppDies ==
    /\ at \notin {"ended", "killed"}
    /\ at' = "killed"
    /\ stdinOpen' = FALSE
    /\ UNCHANGED <<stdin, stdout, processVars, generation, retried, next, asked, result,
                   userVars>>

SidecarStep(step) == step /\ UNCHANGED <<clientVars, userVars>>

ClientStep ==
    \/ Checks \/ SendsRequest \/ ReceivesEvent \/ ReceivesDone \/ Retries \/ ReceivesError
    \/ SeesExit \/ Drops

Next ==
    \/ ClientStep
    \/ SidecarStep(ReaderStep)
    \/ SidecarStep(LoopStep)
    \/ SidecarStep(Dies)
    \/ CancelSummary
    \/ CancelsElsewhere
    \/ AppDies

Spec == Init /\ [][Next]_vars

\* The threads of both processes run, and a generation ends: it is max_tokens long at most.
Fairness ==
    /\ WF_vars(ClientStep)
    /\ WF_vars(SidecarStep(ReaderStep))
    /\ WF_vars(SidecarStep(LoopStep))

FairSpec == Spec /\ Fairness

-----------------------------------------------------------------------------
(* Properties.                                                               *)

PipeTypeOK ==
    /\ stdin \in Seq(Line)
    /\ stdinOpen \in BOOLEAN
    /\ stdout \in Seq(Event)

ProcessTypeOK ==
    /\ alive \in BOOLEAN
    /\ reader \in {"reading", "ended"}
    /\ queue \in Seq(Requests \cup {Stop})
    /\ loopAt \in LoopAt
    /\ taken \in Requests \cup {NoRequest}
    /\ running \in Requests \cup {NoRequest}
    /\ flag \in BOOLEAN
    /\ waiting \in SUBSET Requests
    /\ loaded \in BOOLEAN
    /\ reported \in 0 .. MaxProgress
    /\ heard \in SUBSET Requests
    /\ inTime \in BOOLEAN
    /\ answers \in Seq([type : Answers, id : Requests, heard : BOOLEAN])

ClientTypeOK ==
    /\ at \in At
    /\ generation \in 1 .. Overall
    /\ retried \in BOOLEAN
    /\ next \in 0 .. MaxRequests
    /\ asked \in BOOLEAN
    /\ result \in Results
    /\ cancel \in BOOLEAN
    /\ cancels \in SUBSET Requests
    /\ sentSince \in 0 .. MaxRequests

\* Every variable has its type; no more requests are sent than each generation and its retry.
TypeOK == PipeTypeOK /\ ProcessTypeOK /\ ClientTypeOK

\* The process has nothing to do and nothing to read.
Quiet == alive /\ loopAt = "idle" /\ stdin = <<>> /\ queue = <<>>

\* "done or error for every generate, in the order asked": one answer to each, none twice,
\* and a sidecar that waits for requests owes none.
AnsweredInOrder ==
    /\ \A i \in 1 .. Len(answers) : answers[i].id = i
    /\ Quiet => Len(answers) = next

\* A request is answered as cancelled only if a cancel was sent for it or the app is gone:
\* a late cancel of one request does not hit the next.
CancelHitsItsRequest ==
    \A i \in 1 .. Len(answers) :
        answers[i].type = "cancelled" => answers[i].id \in cancels \/ ~stdinOpen

\* A cancel that was taken in before the loop looked at the flag for the last time is
\* obeyed, be the request waiting, taken out of the queue or running.  One that comes
\* between that look and the answer is not.
CancelIsObeyed ==
    \A i \in 1 .. Len(answers) : answers[i].heard => answers[i].type # "done"

\* After the user's cancel the client asks for the generation it was about to ask for, and
\* for the retry of that, and for nothing more.
CancelEndsRequests == sentSince <= 2

\* summarise returns and lets go of the sidecar, whatever the sidecar does or dies of.
SummaryEnds == at = "wait" ~> at \in {"ended", "killed"}

\* "even an app killed outright leaves no process behind".
SidecarEnds == ~stdinOpen ~> ~alive

=============================================================================
