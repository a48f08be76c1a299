--------------------------- MODULE SummaryProofs ---------------------------
(***************************************************************************)
(* What holds of Summary and its Sidecar for any number of chunks and of   *)
(* progress events: the answers come one to a request and in order, and a  *)
(* cancel stops the request it was sent for, that one and no other.        *)
(***************************************************************************)
EXTENDS Summary, SequenceTheorems, TLAPS

\* Each generation sends a request and one more at most.
RequestsCounted ==
    /\ at = "check" => ~retried /\ next <= 2 * (generation - 1)
    /\ at = "send" => next <= 2 * (generation - 1) + IF retried THEN 1 ELSE 0
    /\ at = "wait" => 0 < next /\ next <= 2 * (generation - 1) + IF retried THEN 2 ELSE 1

\* Those of them that were sent since the user cancelled are of one generation.
SentCounted ==
    /\ ~cancel => sentSince = 0
    /\ at = "send" => sentSince <= IF retried THEN 1 ELSE 0
    /\ at = "wait" => sentSince <= IF retried THEN 2 ELSE 1
    /\ sentSince <= 2

\* The loop is at a request it has not answered.
Working == loopAt \in {"taken", "load", "generate", "stop", "answer"}

\* It has begun it.
Begun == loopAt \in {"load", "generate", "stop", "answer"}

\* Cancels knows of a request from its beginning to its end, and of no other.
RunningIsTaken ==
    /\ loopAt \in {"idle", "taken"} => running = NoRequest
    /\ Begun \/ loopAt = "clear" => running = taken
    /\ Begun => taken \notin waiting
    /\ loopAt = "stop" => flag
    /\ loopAt = "ended" => ~alive

\* Every cancel, wherever it has got to, was sent for the request it names, and the flag is
\* up for the one that runs, or because nobody is at the other end.
CancelsAreSent ==
    /\ \A i \in 1 .. Len(stdin) : stdin[i].type = "cancel" => stdin[i].id \in cancels
    /\ waiting \subseteq cancels
    /\ Begun /\ flag => taken \in cancels \/ ~stdinOpen

\* The request the sidecar has not answered, which is the latest, is in one place: it is a
\* line of stdin, or in the queue, or the loop is at it.
Unanswered == Len(answers) < next

OneInStdin ==
    \A i \in 1 .. Len(stdin) : stdin[i].type = "generate" =>
        /\ stdin[i].id = next
        /\ Unanswered /\ ~Working
        /\ \A j \in 1 .. Len(stdin) : stdin[j].type = "generate" => i = j
        /\ \A j \in 1 .. Len(queue) : queue[j] = Stop

OneInQueue ==
    \A i \in 1 .. Len(queue) : queue[i] # Stop =>
        /\ queue[i] = next
        /\ Unanswered /\ ~Working
        /\ \A j \in 1 .. Len(queue) : queue[j] # Stop => i = j

OneInLoop == Working => taken = next /\ Unanswered

NotLost ==
    alive /\ Unanswered =>
        \/ Working
        \/ \E i \in 1 .. Len(queue) : queue[i] # Stop
        \/ \E i \in 1 .. Len(stdin) : stdin[i].type = "generate"

\* The client asks again when it has the answer, which is the last event about a request.
InTurn ==
    /\ next <= Len(answers) + 1 /\ Len(answers) <= next
    /\ at \in {"check", "send"} => ~Unanswered /\ stdout = <<>>
    /\ \A i \in 1 .. Len(stdout) :
           stdout[i].type \in Answers => i = Len(stdout) /\ ~Unanswered
    /\ loopAt = "clear" => taken <= Len(answers)

Numbered == \A i \in 1 .. Len(answers) : answers[i].id = i

\* What the sidecar owes, and where it is.
Owed == OneInStdin /\ OneInQueue /\ OneInLoop /\ NotLost

\* A cancel that was taken in waits for its request or has raised its flag, until that is
\* answered.
HeardIsKept ==
    \A r \in heard :
        \/ r \in waiting
        \/ r <= Len(answers)
        \/ Begun /\ flag /\ r = taken

\* If the loop saw no flag it had not been told.
LookedInTime == loopAt = "answer" => ~inTime

\* The inductive invariant.
IInv ==
    /\ TypeOK
    /\ RequestsCounted /\ SentCounted
    /\ RunningIsTaken /\ CancelsAreSent
    /\ Owed /\ InTurn /\ Numbered
    /\ HeardIsKept /\ LookedInTime
    /\ CancelHitsItsRequest /\ CancelIsObeyed

-----------------------------------------------------------------------------
(* Sequences.                                                                *)

LEMMA Shifted ==
  ASSUME NEW S, NEW s \in Seq(S), s # <<>>
  PROVE  /\ Len(s) \in Nat /\ Len(s) > 0
         /\ Head(s) = s[1] /\ Head(s) \in S
         /\ Tail(s) \in Seq(S)
         /\ Len(Tail(s)) = Len(s) - 1
         /\ \A i \in 1 .. Len(Tail(s)) : Tail(s)[i] = s[i + 1]
  BY HeadTailProperties, LenProperties, EmptySeq

LEMMA Extended ==
  ASSUME NEW S, NEW s \in Seq(S), NEW e \in S
  PROVE  /\ Len(s) \in Nat
         /\ Append(s, e) \in Seq(S)
         /\ Append(s, e) # <<>>
         /\ Len(Append(s, e)) = Len(s) + 1
         /\ \A i \in 1 .. Len(s) : Append(s, e)[i] = s[i]
         /\ Append(s, e)[Len(s) + 1] = e
  BY AppendProperties, LenProperties

-----------------------------------------------------------------------------
(* Types.                                                                    *)

Said == [type : Answers, id : Requests, heard : BOOLEAN]

LEMMA InitInvariant == Init => IInv
<1> SUFFICES ASSUME Init PROVE IInv
  OBVIOUS
<1> USE SidecarAssumption, SummaryAssumption DEF Init, SidecarInit
<1>1. PipeTypeOK
  <2>1. stdin \in Seq(Line) /\ stdout \in Seq(Event)
    BY EmptySeq
  <2>2. QED
    BY <2>1 DEF PipeTypeOK
<1>2. ProcessTypeOK
  <2>1. queue \in Seq(Requests \cup {Stop}) /\ answers \in Seq(Said)
    BY EmptySeq
  <2>2. reported \in 0 .. MaxProgress
    OBVIOUS
  <2>3. QED
    BY <2>1, <2>2 DEF ProcessTypeOK, LoopAt, Said
<1>3. ClientTypeOK
  <2>1. generation \in 1 .. Overall /\ next \in 0 .. MaxRequests /\ sentSince \in 0 .. MaxRequests
    BY DEF Overall
  <2>2. at \in At /\ result \in Results
    BY DEF At, Results
  <2>3. QED
    BY <2>1, <2>2 DEF ClientTypeOK
<1>4. RequestsCounted /\ SentCounted /\ RunningIsTaken
  BY DEF RequestsCounted, SentCounted, RunningIsTaken, Begun
<1>5. CancelsAreSent /\ Owed
  <2>1. \A i \in 1 .. Len(<<>>) : FALSE
    BY EmptySeq
  <2>2. QED
    BY <2>1, EmptySeq DEF CancelsAreSent, Owed, OneInStdin, OneInQueue, OneInLoop, NotLost,
       Unanswered, Working, Begun
<1>6. InTurn /\ Numbered /\ HeardIsKept /\ LookedInTime
  BY EmptySeq DEF InTurn, Numbered, HeardIsKept, LookedInTime, Unanswered
<1>7. CancelHitsItsRequest /\ CancelIsObeyed
  BY EmptySeq DEF CancelHitsItsRequest, CancelIsObeyed
<1>8. QED
  BY <1>1, <1>2, <1>3, <1>4, <1>5, <1>6, <1>7 DEF IInv, TypeOK

\* Whether the loop had been told is known, or looked up.
LEMMA InTimeStep ==
  ASSUME TypeOK, LoopLoads \/ LoopReports \/ LoopLooks \/ LoopAnswers
  PROVE  inTime' \in BOOLEAN
<1>1. inTime' = inTime \/ inTime' = (taken \in heard)
  BY DEF LoopLoads, LoopReports, LoopLooks, LoopAnswers, loopVars
<1>2. inTime \in BOOLEAN
  BY DEF TypeOK, ProcessTypeOK
<1>3. (taken \in heard) \in BOOLEAN
  OBVIOUS
<1>4. QED
  BY <1>1, <1>2, <1>3

LEMMA PipeTypeStep ==
  ASSUME TypeOK, RequestsCounted, OneInLoop, [Next]_vars
  PROVE  PipeTypeOK'
<1> USE DEF TypeOK, PipeTypeOK, pipeVars
<1>1. taken \in Requests \/ ~Working
  BY DEF OneInLoop, Unanswered, Working, ProcessTypeOK, ClientTypeOK, Requests, NoRequest
<1>2. ASSUME NEW type \in {"loaded", "progress"} \cup Answers, NEW id \in Requests,
             Tells(type, id)
      PROVE  stdout' \in Seq(Event)
  <2>1. [type |-> type, id |-> id] \in Event
    BY DEF Event
  <2>2. QED
    BY <1>2, <2>1, Extended DEF Tells
<1>3. ASSUME NEW type \in Answers, Answer(type), Working
      PROVE  stdout' \in Seq(Event)
  BY <1>1, <1>2, <1>3 DEF Answer
<1>4. ASSUME NEW type \in {"generate", "cancel"}, NEW id \in Requests, Sends(type, id)
      PROVE  stdin' \in Seq(Line)
  <2>1. [type |-> type, id |-> id] \in Line
    BY DEF Line
  <2>2. QED
    BY <1>4, <2>1, Extended DEF Sends
<1>5. stdin # <<>> => Tail(stdin) \in Seq(Line)
  BY Shifted
<1>6. ASSUME NEW types, Receives(types)
      PROVE  stdout' \in Seq(Event) /\ next \in Requests
  <2>1. Head(stdout) \in Event /\ Head(stdout).id = next /\ Tail(stdout) \in Seq(Event)
    BY <1>6, Shifted DEF Receives
  <2>2. QED
    BY <1>6, <2>1 DEF Receives, Event
<1>7. ASSUME SidecarStep(ReaderStep)
      PROVE  PipeTypeOK'
  BY <1>5, <1>7 DEF SidecarStep, ReaderStep, ReadsGenerate, ReadsCancel, ReadsEnd
<1>8. ASSUME SidecarStep(LoopStep)
      PROVE  PipeTypeOK'
  <2>1. UNCHANGED stdout \/ stdout' \in Seq(Event)
    BY <1>1, <1>2, <1>3, <1>8 DEF SidecarStep, LoopStep, LoopTakes, LoopStops, LoopRefuses,
       LoopBegins, LoopLoads, LoopReports, LoopLooks, LoopAnswers, LoopClears, Working,
       Answers
  <2>2. UNCHANGED <<stdin, stdinOpen>>
    BY <1>8 DEF SidecarStep, LoopStep, LoopTakes, LoopStops, LoopRefuses, LoopBegins,
       LoopLoads, LoopReports, LoopLooks, LoopAnswers, LoopClears
  <2>3. QED
    BY <2>1, <2>2
<1>9. CASE SendsRequest
  <2>1. next + 1 \in Requests
    BY <1>9, SummaryAssumption DEF SendsRequest, RequestsCounted, ClientTypeOK, Requests,
       Overall
  <2>2. QED
    BY <1>4, <1>9, <2>1 DEF SendsRequest
<1>10. CASE ReceivesEvent
  BY <1>4, <1>6, <1>10 DEF ReceivesEvent
<1>11. CASE ReceivesDone \/ Retries
  BY <1>6, <1>11 DEF ReceivesDone, Retries
<1>12. CASE ReceivesError
  BY <1>6, <1>12 DEF ReceivesError
<1>13. CASE CancelsElsewhere
  <2>1. next \in Requests
    BY <1>13 DEF CancelsElsewhere, RequestsCounted, ClientTypeOK, Requests
  <2>2. QED
    BY <1>4, <1>13, <2>1 DEF CancelsElsewhere
<1>14. CASE Checks \/ SeesExit \/ Drops \/ SidecarStep(Dies) \/ CancelSummary \/ AppDies
  BY <1>14 DEF Checks, SeesExit, Drops, SidecarStep, Dies, CancelSummary, AppDies
<1>15. CASE UNCHANGED vars
  BY <1>15 DEF vars
<1>16. QED
  BY <1>7, <1>8, <1>9, <1>10, <1>11, <1>12, <1>13, <1>14, <1>15 DEF Next, ClientStep

LEMMA ProcessTypeStep ==
  ASSUME TypeOK, OneInLoop, [Next]_vars
  PROVE  ProcessTypeOK'
<1> USE SidecarAssumption DEF ProcessTypeOK, processVars, loopVars, cancelVars, modelVars
<1>1. taken \in Requests \/ ~Working
  BY DEF OneInLoop, Unanswered, Working, TypeOK, ClientTypeOK, Requests, NoRequest
<1>2. ASSUME NEW type \in Answers, Answer(type), inTime' \in BOOLEAN, Working
      PROVE  answers' \in Seq(Said)
  <2>1. [type |-> type, id |-> taken, heard |-> inTime'] \in Said
    BY <1>1, <1>2 DEF Said
  <2>2. answers \in Seq(Said)
    BY DEF TypeOK, Said
  <2>3. QED
    BY <1>2, <2>1, <2>2, Extended DEF Answer
<1>3. ASSUME stdin # <<>>
      PROVE  Head(stdin).id \in Requests
  <2>1. Head(stdin) \in Line
    BY <1>3, Shifted DEF TypeOK, PipeTypeOK
  <2>2. QED
    BY <2>1 DEF Line
<1>4. CASE ReadsGenerate
  <2>1. queue' \in Seq(Requests \cup {Stop})
    BY <1>3, <1>4, Extended DEF TypeOK, ReadsGenerate
  <2>2. QED
    BY <1>4, <2>1 DEF TypeOK, ReadsGenerate
<1>5. CASE ReadsCancel
  BY <1>3, <1>5 DEF TypeOK, ReadsCancel
<1>6. CASE ReadsEnd
  <2>1. queue' \in Seq(Requests \cup {Stop})
    BY <1>6, Extended DEF TypeOK, ReadsEnd
  <2>2. QED
    BY <1>6, <2>1 DEF TypeOK, ReadsEnd
<1>7. CASE LoopTakes
  <2>1. queue' \in Seq(Requests \cup {Stop}) /\ taken' \in Requests
    BY <1>7, Shifted DEF TypeOK, LoopTakes
  <2>2. QED
    BY <1>7, <2>1 DEF TypeOK, LoopTakes, LoopAt
<1>8. CASE LoopStops
  BY <1>8 DEF TypeOK, LoopStops, LoopAt
<1>9. CASE LoopRefuses
  <2> inTime' \in BOOLEAN
    BY <1>9 DEF LoopRefuses
  <2>1. answers' \in Seq(Said)
    BY <1>2, <1>9 DEF LoopRefuses, Working, Answers
  <2>2. QED
    BY <1>9, <2>1 DEF TypeOK, LoopRefuses, LoopAt, Said
<1>10. CASE LoopBegins
  <2>1. reported' \in 0 .. MaxProgress
    BY <1>10 DEF LoopBegins
  <2>2. running' \in Requests \cup {NoRequest} /\ loopAt' \in LoopAt
    BY <1>10 DEF TypeOK, LoopBegins, LoopAt
  <2>3. flag' \in BOOLEAN
    BY <1>10 DEF LoopBegins
  <2>4. QED
    BY <1>10, <2>1, <2>2, <2>3 DEF TypeOK, LoopBegins
<1>11. CASE LoopLoads
  <2> inTime' \in BOOLEAN
    BY <1>11, InTimeStep
  <2>1. answers' \in Seq(Said)
    BY <1>2, <1>11 DEF LoopLoads, Working, Answers, Said, TypeOK
  <2>2. QED
    BY <1>11, <2>1 DEF TypeOK, LoopLoads, LoopAt, Said
<1>12. CASE LoopReports \/ LoopLooks
  <2>1. inTime' \in BOOLEAN /\ loopAt' \in LoopAt
    BY <1>12, InTimeStep DEF TypeOK, LoopReports, LoopLooks, LoopAt
  <2>2. QED
    BY <1>12, <2>1 DEF TypeOK, LoopReports, LoopLooks
<1>13. CASE LoopAnswers
  <2>1. answers' \in Seq(Said)
    BY <1>2, <1>13 DEF LoopAnswers, Working, Answers, TypeOK
  <2>2. QED
    BY <1>13, <2>1 DEF TypeOK, LoopAnswers, LoopAt, Said
<1>14. CASE LoopClears
  BY <1>14 DEF TypeOK, LoopClears, LoopAt, NoRequest
<1>15. CASE Dies
  BY <1>15 DEF TypeOK, Dies
<1>16. CASE Drops
  BY <1>16 DEF TypeOK, Drops
<1>17. CASE UNCHANGED processVars
  BY <1>17 DEF TypeOK
<1>18. QED
  BY <1>4, <1>5, <1>6, <1>7, <1>8, <1>9, <1>10, <1>11, <1>12, <1>13, <1>14, <1>15, <1>16,
     <1>17
     DEF Next, ClientStep, SidecarStep, ReaderStep, LoopStep, vars, Checks, SendsRequest,
         ReceivesEvent, ReceivesDone, Retries, ReceivesError, SeesExit, CancelSummary,
         CancelsElsewhere, AppDies

LEMMA ClientTypeStep ==
  ASSUME TypeOK, RequestsCounted, SentCounted, [Next]_vars
  PROVE  ClientTypeOK'
<1> USE SummaryAssumption DEF TypeOK, ClientTypeOK, clientVars, userVars
<1>1. CASE Checks
  BY <1>1 DEF Checks, Returns, At, Results
<1>2. CASE SendsRequest
  <2>1. next' \in 0 .. MaxRequests
    BY <1>2 DEF SendsRequest, RequestsCounted, Overall
  <2>2. sentSince' \in 0 .. MaxRequests
    BY <1>2 DEF SendsRequest, SentCounted
  <2>3. QED
    BY <1>2, <2>1, <2>2 DEF SendsRequest, Returns, At, Results
<1>3. CASE ReceivesEvent
  <2>1. Head(stdout) \in Event /\ Head(stdout).id = next
    BY <1>3, Shifted DEF ReceivesEvent, Receives, PipeTypeOK
  <2>2. next \in Requests
    BY <2>1 DEF Event
  <2>3. QED
    BY <1>3, <2>2 DEF ReceivesEvent, Receives
<1>4. CASE ReceivesDone
  <2>1. retried' \in BOOLEAN
    BY <1>4 DEF ReceivesDone
  <2>2. at' \in At /\ result' \in Results /\ generation' \in 1 .. Overall
    BY <1>4 DEF ReceivesDone, Returns, At, Results, Overall
  <2>3. QED
    BY <1>4, <2>1, <2>2 DEF ReceivesDone
<1>5. CASE Retries
  BY <1>5 DEF Retries, Receives, At
<1>6. CASE ReceivesError
  BY <1>6 DEF ReceivesError, Receives, Returns, At, Results
<1>7. CASE SeesExit
  BY <1>7 DEF SeesExit, Returns, At, Results
<1>8. CASE Drops
  BY <1>8 DEF Drops, At
<1>9. CASE CancelSummary
  BY <1>9 DEF CancelSummary
<1>10. CASE CancelsElsewhere
  BY <1>10 DEF CancelsElsewhere, RequestsCounted, Requests
<1>11. CASE AppDies
  BY <1>11 DEF AppDies, At
<1>12. CASE UNCHANGED <<clientVars, userVars>>
  BY <1>12
<1>13. QED
  BY <1>1, <1>2, <1>3, <1>4, <1>5, <1>6, <1>7, <1>8, <1>9, <1>10, <1>11, <1>12
     DEF Next, ClientStep, SidecarStep, vars

-----------------------------------------------------------------------------
(* How much is asked for.                                                    *)

LEMMA CountsStep ==
  ASSUME ClientTypeOK, RequestsCounted, SentCounted, [Next]_vars
  PROVE  RequestsCounted' /\ SentCounted'
<1> USE DEF RequestsCounted, SentCounted, ClientTypeOK
<1>1. CASE Checks
  BY <1>1 DEF Checks, Returns, userVars
<1>2. CASE SendsRequest
  BY <1>2 DEF SendsRequest, Returns
<1>3. CASE ReceivesEvent
  BY <1>3 DEF ReceivesEvent, Receives
<1>4. CASE ReceivesDone
  BY <1>4 DEF ReceivesDone, Receives, Returns, userVars, Overall
<1>5. CASE Retries
  BY <1>5 DEF Retries, Receives, userVars
<1>6. CASE ReceivesError
  BY <1>6 DEF ReceivesError, Receives, Returns, userVars
<1>7. CASE SeesExit
  BY <1>7 DEF SeesExit, Returns, userVars
<1>8. CASE Drops
  BY <1>8 DEF Drops, userVars
<1>9. CASE CancelSummary
  BY <1>9 DEF CancelSummary, clientVars
<1>10. CASE CancelsElsewhere
  BY <1>10 DEF CancelsElsewhere, clientVars
<1>11. CASE AppDies
  BY <1>11 DEF AppDies, userVars
<1>12. CASE UNCHANGED <<clientVars, userVars>>
  BY <1>12 DEF clientVars, userVars
<1>13. QED
  BY <1>1, <1>2, <1>3, <1>4, <1>5, <1>6, <1>7, <1>8, <1>9, <1>10, <1>11, <1>12
     DEF Next, ClientStep, SidecarStep, vars

-----------------------------------------------------------------------------
(* Where a cancel goes.                                                      *)

LEMMA RunningStep ==
  ASSUME TypeOK, RunningIsTaken, [Next]_vars
  PROVE  RunningIsTaken'
<1> USE DEF RunningIsTaken, Begun, NoRequest, loopVars, cancelVars, pipeVars, modelVars
<1>1. CASE ReaderStep
  <2>1. CASE ReadsCancel
    BY <2>1 DEF ReadsCancel
  <2>2. CASE ReadsGenerate \/ ReadsEnd
    BY <2>2 DEF ReadsGenerate, ReadsEnd
  <2>3. QED
    BY <1>1, <2>1, <2>2 DEF ReaderStep
<1>2. CASE LoopTakes \/ LoopStops
  BY <1>2 DEF LoopTakes, LoopStops
<1>3. CASE LoopRefuses
  BY <1>3 DEF LoopRefuses
<1>4. CASE LoopBegins
  BY <1>4 DEF LoopBegins
<1>5. CASE LoopLoads \/ LoopReports
  BY <1>5 DEF LoopLoads, LoopReports
<1>6. CASE LoopLooks \/ LoopAnswers \/ LoopClears
  BY <1>6 DEF LoopLooks, LoopAnswers, LoopClears
<1>7. CASE Dies \/ Drops
  BY <1>7 DEF Dies, Drops
<1>8. CASE UNCHANGED processVars
  BY <1>8 DEF processVars
<1>9. QED
  BY <1>1, <1>2, <1>3, <1>4, <1>5, <1>6, <1>7, <1>8
     DEF Next, ClientStep, SidecarStep, LoopStep, vars, Checks, SendsRequest,
         ReceivesEvent, ReceivesDone, Retries, ReceivesError, SeesExit, CancelSummary,
         CancelsElsewhere, AppDies

\* A line taken off stdin, and one put there.
LEMMA LineRead ==
  ASSUME TypeOK, CancelsAreSent, stdin # <<>>, stdin' = Tail(stdin), UNCHANGED cancels
  PROVE  /\ \A i \in 1 .. Len(stdin') : stdin'[i].type = "cancel" => stdin'[i].id \in cancels'
         /\ Head(stdin).type = "cancel" => Head(stdin).id \in cancels
  BY Shifted DEF TypeOK, PipeTypeOK, CancelsAreSent

LEMMA LineWritten ==
  ASSUME TypeOK, CancelsAreSent, cancels \subseteq cancels',
         NEW type \in {"generate", "cancel"}, NEW id \in Requests, Sends(type, id),
         type = "cancel" => id \in cancels'
  PROVE  \A i \in 1 .. Len(stdin') : stdin'[i].type = "cancel" => stdin'[i].id \in cancels'
<1>1. [type |-> type, id |-> id] \in Line
  BY DEF Line
<1>2. QED
  BY <1>1, Extended DEF Sends, TypeOK, PipeTypeOK, CancelsAreSent

LEMMA CancelsStep ==
  ASSUME TypeOK, TypeOK', RunningIsTaken, CancelsAreSent, [Next]_vars
  PROVE  CancelsAreSent'
<1> DEFINE Lines == \A i \in 1 .. Len(stdin) : stdin[i].type = "cancel" => stdin[i].id \in cancels
           Flagged == Begun /\ flag => taken \in cancels \/ ~stdinOpen
<1> USE DEF Begun
<1>1. CASE ReaderStep /\ UNCHANGED <<clientVars, userVars>>
  <2>1. CASE ReadsGenerate
    <3>1. Lines'
      BY <1>1, <2>1, LineRead DEF ReadsGenerate, userVars
    <3>2. QED
      BY <1>1, <2>1, <3>1 DEF ReadsGenerate, CancelsAreSent, userVars, loopVars, cancelVars
  <2>2. CASE ReadsCancel
    <3>1. Lines' /\ Head(stdin).id \in cancels
      BY <1>1, <2>2, LineRead DEF ReadsCancel, userVars
    <3>2. waiting' \subseteq cancels'
      BY <1>1, <2>2, <3>1 DEF ReadsCancel, CancelsAreSent, userVars
    <3>3. Flagged'
      BY <1>1, <2>2, <3>1 DEF ReadsCancel, CancelsAreSent, RunningIsTaken, userVars,
         loopVars
    <3>4. QED
      BY <3>1, <3>2, <3>3 DEF CancelsAreSent
  <2>3. CASE ReadsEnd
    BY <1>1, <2>3 DEF ReadsEnd, CancelsAreSent, userVars, pipeVars, loopVars
  <2>4. QED
    BY <1>1, <2>1, <2>2, <2>3 DEF ReaderStep
<1>2. CASE LoopStep /\ UNCHANGED <<clientVars, userVars>>
  <2>1. CASE LoopTakes \/ LoopStops
    BY <1>2, <2>1 DEF LoopTakes, LoopStops, CancelsAreSent, userVars, pipeVars, loopVars,
       cancelVars
  <2>2. CASE LoopRefuses \/ LoopBegins
    BY <1>2, <2>2 DEF LoopRefuses, LoopBegins, CancelsAreSent, userVars, pipeVars
  <2>3. CASE LoopLoads \/ LoopReports
    BY <1>2, <2>3 DEF LoopLoads, LoopReports, CancelsAreSent, userVars, loopVars, cancelVars
  <2>4. CASE LoopLooks \/ LoopAnswers \/ LoopClears
    <3>1. UNCHANGED <<stdin, stdinOpen, cancels, waiting, flag, taken>> /\ (Begun' => Begun)
      BY <1>2, <2>4 DEF LoopLooks, LoopAnswers, LoopClears, userVars, pipeVars, cancelVars
    <3>2. QED
      BY <3>1 DEF CancelsAreSent
  <2>5. QED
    BY <1>2, <2>1, <2>2, <2>3, <2>4 DEF LoopStep
<1>3. CASE SendsRequest
  <2>1. Lines'
    <3>1. CASE alive
      <4>1. next + 1 \in Requests
        BY <1>3 DEF SendsRequest, TypeOK, ClientTypeOK, Requests
      <4>2. QED
        BY <1>3, <3>1, <4>1, LineWritten DEF SendsRequest
    <3>2. CASE ~alive
      BY <1>3, <3>2 DEF SendsRequest, CancelsAreSent
    <3>3. QED
      BY <3>1, <3>2
  <2>2. QED
    BY <1>3, <2>1 DEF SendsRequest, CancelsAreSent, processVars, loopVars, cancelVars
<1>4. CASE ReceivesEvent
  <2>1. Lines' /\ cancels \subseteq cancels'
    <3>1. CASE cancel /\ ~asked /\ alive
      <4>1. next \in Requests
        BY <1>4, <3>1 DEF ReceivesEvent, TypeOK, ClientTypeOK
      <4>2. QED
        BY <1>4, <3>1, <4>1, LineWritten DEF ReceivesEvent
    <3>2. CASE ~(cancel /\ ~asked /\ alive)
      BY <1>4, <3>2 DEF ReceivesEvent, CancelsAreSent
    <3>3. QED
      BY <3>1, <3>2
  <2>2. QED
    BY <1>4, <2>1 DEF ReceivesEvent, CancelsAreSent, processVars, loopVars, cancelVars
<1>5. CASE CancelsElsewhere
  <2>1. next \in Requests /\ cancels \subseteq cancels'
    BY <1>5 DEF CancelsElsewhere, TypeOK, ClientTypeOK
  <2>2. Lines'
    BY <1>5, <2>1, LineWritten DEF CancelsElsewhere
  <2>3. QED
    BY <1>5, <2>1, <2>2 DEF CancelsElsewhere, CancelsAreSent, processVars, loopVars,
       cancelVars
<1>6. CASE Drops \/ AppDies
  BY <1>6 DEF Drops, AppDies, CancelsAreSent, processVars, loopVars, cancelVars, userVars
<1>7. CASE UNCHANGED <<stdin, stdinOpen, loopVars, cancelVars, cancels>>
  BY <1>7 DEF CancelsAreSent, loopVars, cancelVars
<1>8. QED
  BY <1>1, <1>2, <1>3, <1>4, <1>5, <1>6, <1>7
     DEF Next, ClientStep, SidecarStep, vars, pipeVars, processVars, clientVars, userVars,
         Checks, ReceivesDone, Retries, ReceivesError, SeesExit, CancelSummary, Dies

-----------------------------------------------------------------------------
(* Where a request is.                                                       *)

\* A cancel is put into the pipe, or taken out of it.
LEMMA CancelMoves ==
  ASSUME TypeOK, Owed, NEW id \in Requests,
         \/ Sends("cancel", id)
         \/ stdin # <<>> /\ Head(stdin).type = "cancel" /\ stdin' = Tail(stdin),
         UNCHANGED <<queue, answers, next, loopAt, taken, alive>>
  PROVE  Owed'
<1> DEFINE line == [type |-> "cancel", id |-> id]
<1>1. CASE stdin' = Append(stdin, line)
  <2>1. line \in Line
    BY DEF Line
  <2>2. /\ Len(stdin) \in Nat /\ Len(stdin') = Len(stdin) + 1
        /\ \A i \in 1 .. Len(stdin) : stdin'[i] = stdin[i]
        /\ stdin'[Len(stdin) + 1].type = "cancel"
    BY <1>1, <2>1, Extended DEF TypeOK, PipeTypeOK
  <2>3. OneInStdin'
    BY <2>2 DEF Owed, OneInStdin, Unanswered, Working
  <2>4. OneInQueue' /\ OneInLoop'
    BY DEF Owed, OneInQueue, OneInLoop, Unanswered, Working
  <2>5. NotLost'
    BY <2>2 DEF Owed, NotLost, Unanswered, Working
  <2>6. QED
    BY <2>3, <2>4, <2>5 DEF Owed
<1>2. CASE stdin # <<>> /\ Head(stdin).type = "cancel" /\ stdin' = Tail(stdin)
  <2>1. /\ Len(stdin) \in Nat /\ Len(stdin') = Len(stdin) - 1
        /\ stdin[1].type = "cancel"
        /\ \A i \in 1 .. Len(stdin') : stdin'[i] = stdin[i + 1]
    BY <1>2, Shifted DEF TypeOK, PipeTypeOK
  <2>2. \A i \in 1 .. Len(stdin) :
            stdin[i].type = "generate" => i - 1 \in 1 .. Len(stdin') /\ stdin'[i - 1] = stdin[i]
    BY <2>1
  <2>3. OneInStdin'
    <3>1. SUFFICES ASSUME NEW i \in 1 .. Len(stdin'), stdin'[i].type = "generate"
                   PROVE  /\ stdin'[i].id = next
                          /\ Unanswered /\ ~Working
                          /\ \A j \in 1 .. Len(stdin') : stdin'[j].type = "generate" => i = j
                          /\ \A j \in 1 .. Len(queue) : queue[j] = Stop
      BY DEF OneInStdin, Unanswered, Working
    <3>2. i + 1 \in 1 .. Len(stdin) /\ stdin[i + 1] = stdin'[i]
      BY <2>1
    <3>3. \A j \in 1 .. Len(stdin') : j + 1 \in 1 .. Len(stdin) /\ stdin[j + 1] = stdin'[j]
      BY <2>1
    <3>4. QED
      BY <3>1, <3>2, <3>3 DEF Owed, OneInStdin
  <2>4. OneInQueue' /\ OneInLoop'
    BY DEF Owed, OneInQueue, OneInLoop, Unanswered, Working
  <2>5. NotLost'
    BY <2>2 DEF Owed, NotLost, Unanswered, Working
  <2>6. QED
    BY <2>3, <2>4, <2>5 DEF Owed
<1>3. QED
  BY <1>1, <1>2 DEF Sends

\* The loop answers the request it is at.
LEMMA Answered ==
  ASSUME TypeOK, Owed, InTurn, Numbered, Working,
         NEW type \in Answers, Answer(type), inTime' \in BOOLEAN,
         loopAt' \in {"idle", "clear"}, UNCHANGED <<stdin, queue, next, taken, alive, at>>
  PROVE  Owed' /\ InTurn' /\ Numbered'
<1> DEFINE said == [type |-> type, id |-> taken, heard |-> inTime']
           event == [type |-> type, id |-> taken]
<1>1. taken = next /\ Len(answers) < next /\ taken \in Requests
  BY DEF Owed, OneInLoop, Unanswered, TypeOK, ProcessTypeOK, ClientTypeOK, Requests,
     NoRequest
<1>2. /\ Len(answers) \in Nat /\ Len(answers') = Len(answers) + 1
      /\ \A i \in 1 .. Len(answers) : answers'[i] = answers[i]
      /\ answers'[Len(answers) + 1].id = taken
  <2>1. said \in Said /\ answers \in Seq(Said)
    BY <1>1 DEF Said, TypeOK, ProcessTypeOK
  <2>2. QED
    BY <2>1, Extended DEF Answer
<1>3. /\ Len(stdout) \in Nat /\ Len(stdout') = Len(stdout) + 1
      /\ \A i \in 1 .. Len(stdout) : stdout'[i] = stdout[i]
  <2>1. event \in Event
    BY <1>1 DEF Event
  <2>2. QED
    BY <2>1, Extended DEF Answer, Tells, TypeOK, PipeTypeOK
<1>4. Len(answers') = next /\ next \in Nat
  BY <1>1, <1>2 DEF InTurn, TypeOK, ClientTypeOK
<1>5. ~Unanswered' /\ ~Working'
  BY <1>4 DEF Unanswered, Working
<1>6. Owed'
  BY <1>5 DEF Owed, OneInStdin, OneInQueue, OneInLoop, NotLost
<1>7. InTurn'
  BY <1>1, <1>3, <1>4, <1>5 DEF InTurn, Unanswered
<1>8. Numbered'
  BY <1>1, <1>2, <1>4 DEF Numbered, InTurn
<1>9. QED
  BY <1>6, <1>7, <1>8

\* The loop says something else about it.
LEMMA Told ==
  ASSUME TypeOK, Owed, InTurn, Working,
         NEW type \in {"loaded", "progress"}, Tells(type, taken),
         UNCHANGED <<answers, next, at>>, loopAt' # "clear"
  PROVE  InTurn'
<1>1. [type |-> type, id |-> taken] \in Event
  BY DEF Owed, OneInLoop, Unanswered, TypeOK, ProcessTypeOK, ClientTypeOK, Requests,
     NoRequest, Event
<1>2. /\ Len(stdout) \in Nat /\ Len(stdout') = Len(stdout) + 1
      /\ \A i \in 1 .. Len(stdout) : stdout'[i] = stdout[i]
      /\ stdout'[Len(stdout) + 1].type = type
  BY <1>1, Extended DEF Tells, TypeOK, PipeTypeOK
<1>3. Unanswered
  BY DEF Owed, OneInLoop
<1>4. \A i \in 1 .. Len(stdout) : stdout[i].type \notin Answers
  BY <1>3 DEF InTurn
<1>5. \A i \in 1 .. Len(stdout') : stdout'[i].type \notin Answers
  <2>1. type \notin Answers
    BY DEF Answers
  <2>2. QED
    BY <1>2, <1>4, <2>1
<1>6. QED
  BY <1>3, <1>5 DEF InTurn, Unanswered

LEMMA TurnsOfSidecar ==
  ASSUME TypeOK, Owed, InTurn, Numbered, RunningIsTaken,
         SidecarStep(ReaderStep) \/ SidecarStep(LoopStep) \/ SidecarStep(Dies)
  PROVE  Owed' /\ InTurn' /\ Numbered'
<1> USE DEF SidecarStep, clientVars, loopVars, modelVars, cancelVars, pipeVars
<1>1. CASE ReadsGenerate /\ SidecarStep(ReaderStep)
  <2>1. /\ Len(stdin) \in Nat \ {0} /\ Len(stdin') = Len(stdin) - 1
        /\ stdin[1].type = "generate" /\ Head(stdin).id = stdin[1].id
        /\ \A i \in 1 .. Len(stdin') : stdin'[i] = stdin[i + 1]
    BY <1>1, Shifted DEF ReadsGenerate, TypeOK, PipeTypeOK
  <2>2. /\ stdin[1].id = next /\ Unanswered /\ ~Working
        /\ \A j \in 1 .. Len(queue) : queue[j] = Stop
        /\ \A i \in 1 .. Len(stdin') : stdin'[i].type # "generate"
    BY <2>1 DEF Owed, OneInStdin
  <2>3. next \in Requests
    BY <2>2 DEF Unanswered, TypeOK, ProcessTypeOK, ClientTypeOK, Requests
  <2>4. /\ Len(queue) \in Nat /\ Len(queue') = Len(queue) + 1
        /\ \A i \in 1 .. Len(queue) : queue'[i] = Stop
        /\ queue'[Len(queue) + 1] = next /\ next # Stop
    BY <1>1, <2>1, <2>2, <2>3, Extended DEF ReadsGenerate, TypeOK, ProcessTypeOK,
       Requests, Stop
  <2>5. Owed'
    BY <1>1, <2>2, <2>4 DEF ReadsGenerate, Owed, OneInStdin, OneInQueue, OneInLoop, NotLost,
       Unanswered, Working
  <2>6. QED
    BY <1>1, <2>5 DEF ReadsGenerate, InTurn, Numbered, Unanswered
<1>2. CASE ReadsCancel /\ SidecarStep(ReaderStep)
  <2>1. Head(stdin) \in Line
    BY <1>2, Shifted DEF ReadsCancel, TypeOK, PipeTypeOK
  <2>2. Owed'
    BY <1>2, <2>1, CancelMoves DEF ReadsCancel, Line
  <2>3. QED
    BY <1>2, <2>2 DEF ReadsCancel, InTurn, Numbered, Unanswered
<1>3. CASE ReadsEnd /\ SidecarStep(ReaderStep)
  <2>1. /\ Len(queue) \in Nat /\ Len(queue') = Len(queue) + 1
        /\ \A i \in 1 .. Len(queue) : queue'[i] = queue[i]
        /\ queue'[Len(queue) + 1] = Stop
    BY <1>3, Extended DEF ReadsEnd, TypeOK, ProcessTypeOK
  <2>2. Len(stdin) = 0
    BY <1>3, EmptySeq DEF ReadsEnd
  <2>3. Owed'
    BY <1>3, <2>1, <2>2 DEF ReadsEnd, Owed, OneInStdin, OneInQueue, OneInLoop, NotLost,
       Unanswered, Working
  <2>4. QED
    BY <1>3, <2>3 DEF ReadsEnd, InTurn, Numbered, Unanswered
<1>4. CASE LoopTakes /\ SidecarStep(LoopStep)
  <2>1. /\ Len(queue) \in Nat \ {0} /\ Len(queue') = Len(queue) - 1
        /\ queue[1] # Stop /\ Head(queue) = queue[1]
        /\ \A i \in 1 .. Len(queue') : queue'[i] = queue[i + 1]
    BY <1>4, Shifted DEF LoopTakes, TypeOK, ProcessTypeOK
  <2>2. /\ queue[1] = next /\ Unanswered
        /\ \A i \in 1 .. Len(queue') : queue'[i] = Stop
        /\ \A i \in 1 .. Len(stdin) : stdin[i].type # "generate"
    BY <2>1 DEF Owed, OneInStdin, OneInQueue
  <2>3. Owed'
    BY <1>4, <2>1, <2>2 DEF LoopTakes, Owed, OneInStdin, OneInQueue, OneInLoop, NotLost,
       Unanswered, Working
  <2>4. QED
    BY <1>4, <2>3 DEF LoopTakes, InTurn, Numbered, Unanswered
<1>5. CASE LoopStops /\ SidecarStep(LoopStep)
  BY <1>5 DEF LoopStops, Owed, OneInStdin, OneInQueue, OneInLoop, NotLost, Unanswered,
     Working, InTurn, Numbered
<1>6. CASE LoopRefuses /\ SidecarStep(LoopStep)
  BY <1>6, Answered DEF LoopRefuses, Working, Answers
<1>7. CASE LoopBegins /\ SidecarStep(LoopStep)
  BY <1>7 DEF LoopBegins, Owed, OneInStdin, OneInQueue, OneInLoop, NotLost, Unanswered,
     Working, InTurn, Numbered
<1>8. CASE LoopLoads /\ SidecarStep(LoopStep)
  <2>1. CASE loopAt' = "clear"
    BY <1>8, <2>1, Answered DEF LoopLoads, Working, Answers
  <2>2. CASE loopAt' = "generate"
    <3>1. Owed' /\ Numbered'
      BY <1>8, <2>2 DEF LoopLoads, Owed, OneInStdin, OneInQueue, OneInLoop, NotLost,
         Unanswered,
         Working, Numbered
    <3>2. InTurn'
      BY <1>8, <2>2, Told DEF LoopLoads, Working, InTurn, Unanswered
    <3>3. QED
      BY <3>1, <3>2
  <2>3. QED
    BY <1>8, <2>1, <2>2 DEF LoopLoads
<1>9. CASE LoopReports /\ SidecarStep(LoopStep)
  <2>1. Owed' /\ Numbered'
    BY <1>9 DEF LoopReports, Owed, OneInStdin, OneInQueue, OneInLoop, NotLost, Unanswered,
       Working, Numbered
  <2>2. QED
    BY <1>9, <2>1, Told DEF LoopReports, Working
<1>10. CASE LoopAnswers /\ SidecarStep(LoopStep)
  BY <1>10, Answered DEF LoopAnswers, Working, Answers, TypeOK, ProcessTypeOK
<1>11. CASE (LoopLooks \/ LoopClears) /\ SidecarStep(LoopStep)
  BY <1>11 DEF LoopLooks, LoopClears, Owed, OneInStdin, OneInQueue, OneInLoop, NotLost,
     Unanswered, Working, InTurn, Numbered
<1>12. CASE SidecarStep(Dies)
  BY <1>12 DEF Dies, Owed, OneInStdin, OneInQueue, OneInLoop, NotLost, Unanswered, Working,
     InTurn, Numbered
<1>13. QED
  BY <1>1, <1>2, <1>3, <1>4, <1>5, <1>6, <1>7, <1>8, <1>9, <1>10, <1>11, <1>12
     DEF ReaderStep, LoopStep

\* The client receives the answer it waits for, and there is nothing behind it.
LEMMA AnswerReceived ==
  ASSUME TypeOK, InTurn, NEW types \in SUBSET Answers, Receives(types)
  PROVE  stdout' = <<>> /\ ~Unanswered
<1>1. /\ Len(stdout) \in Nat \ {0} /\ Len(Tail(stdout)) = Len(stdout) - 1
      /\ stdout[1].type \in Answers /\ Tail(stdout) \in Seq(Event)
  BY Shifted DEF Receives, TypeOK, PipeTypeOK
<1>2. Len(stdout) = 1 /\ ~Unanswered
  <2>1. 1 \in 1 .. Len(stdout)
    BY <1>1
  <2>2. QED
    BY <1>1, <2>1 DEF InTurn
<1>3. QED
  BY <1>1, <1>2, EmptySeq DEF Receives

LEMMA TurnsOfClient ==
  ASSUME TypeOK, RequestsCounted, Owed, InTurn, Numbered, ClientStep
  PROVE  Owed' /\ InTurn' /\ Numbered'
<1> USE DEF processVars, loopVars, modelVars, cancelVars, pipeVars
<1> DEFINE Same == UNCHANGED <<stdin, processVars, next>>
<1>1. ASSUME Same
      PROVE  Owed' /\ Numbered' /\ (Unanswered' <=> Unanswered)
  BY <1>1 DEF Owed, OneInStdin, OneInQueue, OneInLoop, NotLost, Unanswered, Working,
     Numbered
<1>2. ASSUME Same, stdout' = <<>>, ~Unanswered
      PROVE  Owed' /\ InTurn' /\ Numbered'
  <2>1. Len(stdout') = 0
    BY <1>2, EmptySeq
  <2>2. QED
    BY <1>1, <1>2, <2>1 DEF InTurn, Unanswered
<1>3. CASE Checks
  BY <1>1, <1>3 DEF Checks, Returns, InTurn, Unanswered
<1>4. CASE SendsRequest
  <2>1. /\ ~Unanswered /\ Len(answers) = next /\ next \in Nat
        /\ stdout = <<>> /\ Len(stdout) = 0 /\ Len(stdin) \in Nat
        /\ \A i \in 1 .. Len(stdin) : stdin[i].type # "generate"
        /\ \A i \in 1 .. Len(queue) : queue[i] = Stop
        /\ ~Working
    <3>1. Len(answers) \in Nat /\ Len(stdin) \in Nat
      BY LenProperties DEF TypeOK, ProcessTypeOK, PipeTypeOK
    <3>2. QED
      BY <1>4, <3>1, EmptySeq DEF SendsRequest, InTurn, Owed, OneInStdin, OneInQueue,
         OneInLoop,
         Unanswered, TypeOK, ClientTypeOK
  <2>2. InTurn' /\ Numbered' /\ Unanswered'
    BY <1>4, <2>1 DEF SendsRequest, Returns, InTurn, Numbered, Unanswered
  <2>3. CASE alive
    <3>1. [type |-> "generate", id |-> next + 1] \in Line
      BY <1>4, SummaryAssumption DEF SendsRequest, RequestsCounted, TypeOK, ClientTypeOK,
         Line,
         Requests, Overall
    <3>2. /\ Len(stdin') = Len(stdin) + 1
          /\ \A i \in 1 .. Len(stdin) : stdin'[i] = stdin[i]
          /\ stdin'[Len(stdin) + 1] = [type |-> "generate", id |-> next + 1]
      BY <1>4, <2>3, <3>1, Extended DEF SendsRequest, Sends, TypeOK, PipeTypeOK
    <3>3. OneInStdin'
      BY <1>4, <2>1, <2>2, <3>2 DEF SendsRequest, OneInStdin, Working
    <3>4. OneInQueue' /\ OneInLoop'
      BY <1>4, <2>1 DEF SendsRequest, OneInQueue, OneInLoop, Working
    <3>5. NotLost'
      BY <2>1, <3>2 DEF NotLost
    <3>6. QED
      BY <2>2, <3>3, <3>4, <3>5 DEF Owed
  <2>4. CASE ~alive
    BY <1>4, <2>1, <2>2, <2>4 DEF SendsRequest, Owed, OneInStdin, OneInQueue, OneInLoop,
       NotLost, Working
  <2>5. QED
    BY <2>3, <2>4
<1>5. CASE ReceivesEvent
  <2>1. /\ Len(stdout) \in Nat \ {0} /\ Len(stdout') = Len(stdout) - 1
        /\ \A i \in 1 .. Len(stdout') : stdout'[i] = stdout[i + 1]
        /\ Head(stdout) \in Event /\ Head(stdout).id = next
    BY <1>5, Shifted DEF ReceivesEvent, Receives, TypeOK, PipeTypeOK
  <2>2. next \in Requests
    BY <2>1 DEF Event
  <2>3. Owed'
    BY <1>1, <1>5, <2>2, CancelMoves DEF ReceivesEvent
  <2>4. \A i \in 1 .. Len(stdout') :
            stdout'[i].type \in Answers => i = Len(stdout') /\ ~Unanswered
    <3>1. \A i \in 1 .. Len(stdout') : i + 1 \in 1 .. Len(stdout)
      BY <2>1
    <3>2. QED
      BY <2>1, <3>1 DEF InTurn
  <2>5. InTurn' /\ Numbered'
    BY <1>5, <2>4 DEF ReceivesEvent, Receives, InTurn, Numbered, Unanswered
  <2>6. QED
    BY <2>3, <2>5
<1>6. CASE ReceivesDone
  BY <1>2, <1>6, AnswerReceived DEF ReceivesDone, Answers
<1>7. CASE Retries
  BY <1>2, <1>7, AnswerReceived DEF Retries, Answers
<1>8. CASE ReceivesError
  BY <1>2, <1>8, AnswerReceived DEF ReceivesError, Answers
<1>9. CASE SeesExit
  BY <1>1, <1>9 DEF SeesExit, Returns, InTurn, Unanswered
<1>10. CASE Drops
  BY <1>10 DEF Drops, Owed, OneInStdin, OneInQueue, OneInLoop, NotLost, Unanswered, Working,
     InTurn, Numbered
<1>11. QED
  BY <1>3, <1>4, <1>5, <1>6, <1>7, <1>8, <1>9, <1>10 DEF ClientStep

LEMMA TurnsStep ==
  ASSUME TypeOK, RequestsCounted, RunningIsTaken, Owed, InTurn, Numbered, [Next]_vars
  PROVE  Owed' /\ InTurn' /\ Numbered'
<1> USE DEF processVars, loopVars, modelVars, cancelVars, pipeVars, clientVars, userVars
<1>1. CASE CancelsElsewhere
  <2>1. next \in Requests
    BY <1>1 DEF CancelsElsewhere, RequestsCounted, TypeOK, ClientTypeOK, Requests
  <2>2. Owed'
    BY <1>1, <2>1, CancelMoves DEF CancelsElsewhere
  <2>3. QED
    BY <1>1, <2>2 DEF CancelsElsewhere, InTurn, Numbered, Unanswered
<1>2. CASE CancelSummary \/ AppDies \/ UNCHANGED vars
  <2>1. /\ UNCHANGED <<stdin, stdout, next, answers, queue, loopAt, taken, alive>>
        /\ at' \in {at, "killed"}
    BY <1>2 DEF CancelSummary, AppDies, vars
  <2>2. (Unanswered' <=> Unanswered) /\ (Working' <=> Working)
    BY <2>1 DEF Unanswered, Working
  <2>3. Owed'
    BY <2>1, <2>2 DEF Owed, OneInStdin, OneInQueue, OneInLoop, NotLost
  <2>4. InTurn' /\ Numbered'
    BY <2>1, <2>2 DEF InTurn, Numbered
  <2>5. QED
    BY <2>3, <2>4
<1>3. QED
  BY <1>1, <1>2, TurnsOfSidecar, TurnsOfClient DEF Next

-----------------------------------------------------------------------------
(* What a cancel does.                                                       *)

LEMMA HeardStep ==
  ASSUME TypeOK, RunningIsTaken, OneInLoop, InTurn, HeardIsKept, [Next]_vars
  PROVE  HeardIsKept'
<1> USE DEF HeardIsKept, Begun, loopVars, modelVars, cancelVars, pipeVars
<1>1. Working => taken = next /\ next > Len(answers) /\ next = Len(answers) + 1
  BY LenProperties DEF OneInLoop, Unanswered, InTurn, TypeOK, ProcessTypeOK, ClientTypeOK
<1>2. heard \subseteq Nat /\ Len(answers) \in Nat
  BY LenProperties DEF TypeOK, ProcessTypeOK, Requests
<1>3. ASSUME NEW type \in Answers, Answer(type), inTime' \in BOOLEAN, Working
      PROVE  Len(answers') = Len(answers) + 1
  <2>1. taken \in Requests
    BY <1>1, <1>3 DEF TypeOK, ProcessTypeOK, ClientTypeOK, Requests, NoRequest
  <2>2. [type |-> type, id |-> taken, heard |-> inTime'] \in Said
    BY <1>3, <2>1 DEF Said
  <2>3. QED
    BY <1>3, <2>2, Extended DEF Answer, TypeOK, ProcessTypeOK, Said
<1>4. CASE ReadsGenerate \/ ReadsEnd
  BY <1>4 DEF ReadsGenerate, ReadsEnd
<1>5. CASE ReadsCancel
  <2>1. Head(stdin) \in Line
    BY <1>5, Shifted DEF ReadsCancel, TypeOK, PipeTypeOK
  <2>2. Head(stdin).id \in Requests
    BY <2>1 DEF Line
  <2>3. QED
    BY <1>5, <2>2 DEF ReadsCancel, RunningIsTaken, InTurn, TypeOK, ProcessTypeOK, LoopAt,
       Requests, NoRequest
<1>6. CASE LoopTakes \/ LoopStops
  BY <1>6 DEF LoopTakes, LoopStops
<1>7. CASE LoopRefuses
  <2> inTime' \in BOOLEAN
    BY <1>7 DEF LoopRefuses
  <2>1. Len(answers') = Len(answers) + 1
    BY <1>3, <1>7 DEF LoopRefuses, Working, Answers
  <2>2. QED
    BY <1>1, <1>2, <1>7, <2>1 DEF LoopRefuses, Working
<1>8. CASE LoopBegins
  BY <1>1, <1>2, <1>8 DEF LoopBegins, Working
<1>9. CASE LoopLoads
  <2> inTime' \in BOOLEAN
    BY <1>9, InTimeStep
  <2>1. \/ Len(answers') = Len(answers) + 1
        \/ UNCHANGED answers /\ loopAt' = "generate"
    BY <1>3, <1>9 DEF LoopLoads, Working, Answers
  <2>2. QED
    BY <1>1, <1>2, <1>9, <2>1 DEF LoopLoads, Working
<1>10. CASE LoopReports \/ LoopLooks
  BY <1>10 DEF LoopReports, LoopLooks
<1>11. CASE LoopAnswers
  <2>1. Len(answers') = Len(answers) + 1
    BY <1>3, <1>11 DEF LoopAnswers, Working, Answers, TypeOK, ProcessTypeOK
  <2>2. Working /\ loopAt' = "clear" /\ UNCHANGED <<waiting, heard>>
    BY <1>11 DEF LoopAnswers, Working
  <2>3. QED
    BY <1>1, <1>2, <2>1, <2>2
<1>12. CASE LoopClears
  BY <1>12 DEF LoopClears
<1>13. CASE UNCHANGED <<loopVars, cancelVars, heard, answers>>
  BY <1>13
<1>14. QED
  BY <1>4, <1>5, <1>6, <1>7, <1>8, <1>9, <1>10, <1>11, <1>12, <1>13
     DEF Next, ClientStep, SidecarStep, ReaderStep, LoopStep, Dies, vars, processVars, Checks,
         SendsRequest, ReceivesEvent, ReceivesDone, Retries, ReceivesError, SeesExit, Drops,
         CancelSummary, CancelsElsewhere, AppDies

LEMMA OnlyGrows ==
  ASSUME [Next]_vars
  PROVE  cancels \subseteq cancels' /\ (stdinOpen' => stdinOpen)
<1> USE DEF pipeVars, userVars
<1>1. CASE SidecarStep(ReaderStep)
  BY <1>1 DEF SidecarStep, ReaderStep, ReadsGenerate, ReadsCancel, ReadsEnd
<1>2. CASE SidecarStep(LoopStep)
  <2>1. UNCHANGED cancels
    BY <1>2 DEF SidecarStep
  <2>2. UNCHANGED stdinOpen
    BY <1>2 DEF SidecarStep, LoopStep, LoopTakes, LoopStops, LoopRefuses, LoopBegins,
       LoopLoads, LoopReports, LoopLooks, LoopAnswers, LoopClears
  <2>3. QED
    BY <2>1, <2>2
<1>3. CASE SidecarStep(Dies)
  BY <1>3 DEF SidecarStep, Dies
<1>4. CASE ReceivesEvent \/ CancelsElsewhere
  BY <1>4 DEF ReceivesEvent, CancelsElsewhere
<1>5. CASE Drops \/ AppDies
  BY <1>5 DEF Drops, AppDies
<1>6. CASE UNCHANGED <<cancels, stdinOpen>>
  BY <1>6
<1>7. QED
  BY <1>1, <1>2, <1>3, <1>4, <1>5, <1>6
     DEF Next, ClientStep, vars, Checks, SendsRequest, ReceivesDone, Retries, ReceivesError,
         SeesExit, CancelSummary

\* A cancel of the running request that was taken in has raised the flag.
LEMMA LookStep ==
  ASSUME TypeOK, RunningIsTaken, OneInLoop, HeardIsKept, LookedInTime, [Next]_vars
  PROVE  LookedInTime'
<1>1. CASE LoopLooks
  <2>1. CASE flag
    BY <1>1, <2>1 DEF LoopLooks, LookedInTime
  <2>2. CASE ~flag
    <3>1. taken \notin waiting
      BY <1>1 DEF LoopLooks, RunningIsTaken, Begun
    <3>2. taken = next /\ Len(answers) < next
      BY <1>1 DEF LoopLooks, Working, OneInLoop, Unanswered
    <3>3. ~(taken <= Len(answers))
      BY <3>2, LenProperties DEF TypeOK, ProcessTypeOK, ClientTypeOK
    <3>4. taken \notin heard
      BY <2>2, <3>1, <3>3 DEF HeardIsKept
    <3>5. QED
      BY <1>1, <3>4 DEF LoopLooks, LookedInTime
  <2>3. QED
    BY <2>1, <2>2 DEF TypeOK, ProcessTypeOK
<1>2. CASE LoopTakes \/ LoopStops \/ LoopRefuses \/ LoopBegins
  BY <1>2 DEF LoopTakes, LoopStops, LoopRefuses, LoopBegins, LookedInTime
<1>3. CASE LoopLoads \/ LoopReports \/ LoopAnswers \/ LoopClears
  BY <1>3 DEF LoopLoads, LoopReports, LoopAnswers, LoopClears, LookedInTime, loopVars
<1>4. CASE UNCHANGED loopVars
  BY <1>4 DEF loopVars, LookedInTime
<1>5. QED
  BY <1>1, <1>2, <1>3, <1>4
     DEF Next, ClientStep, SidecarStep, ReaderStep, LoopStep, vars, processVars,
         ReadsGenerate, ReadsCancel, ReadsEnd, Dies, Checks, SendsRequest, ReceivesEvent,
         ReceivesDone, Retries, ReceivesError, SeesExit, Drops, CancelSummary,
         CancelsElsewhere, AppDies

LEMMA JustifiedStep ==
  ASSUME TypeOK, RunningIsTaken, CancelsAreSent, OneInLoop, LookedInTime,
         CancelHitsItsRequest, CancelIsObeyed, [Next]_vars
  PROVE  CancelHitsItsRequest' /\ CancelIsObeyed'
<1>1. CASE UNCHANGED answers
  BY <1>1, OnlyGrows DEF CancelHitsItsRequest, CancelIsObeyed
<1>2. ASSUME NEW type \in Answers, Answer(type), inTime' \in BOOLEAN, Working,
             type = "cancelled" => taken \in cancels \/ ~stdinOpen,
             inTime' => type # "done"
      PROVE  CancelHitsItsRequest' /\ CancelIsObeyed'
  <2> DEFINE said == [type |-> type, id |-> taken, heard |-> inTime']
  <2>1. said \in Said
    <3>1. taken \in Requests
      BY <1>2 DEF OneInLoop, Unanswered, TypeOK, ProcessTypeOK, ClientTypeOK, Requests,
         NoRequest
    <3>2. QED
      BY <1>2, <3>1 DEF Said
  <2>2. /\ Len(answers) \in Nat /\ Len(answers') = Len(answers) + 1
        /\ \A i \in 1 .. Len(answers) : answers'[i] = answers[i]
        /\ answers'[Len(answers) + 1] = said
    BY <1>2, <2>1, Extended DEF Answer, TypeOK, ProcessTypeOK, Said
  <2>3. CancelHitsItsRequest'
    BY <1>2, <2>2, OnlyGrows DEF CancelHitsItsRequest
  <2>4. CancelIsObeyed'
    <3>1. said.heard => said.type # "done"
      BY <1>2
    <3>2. QED
      BY <2>2, <3>1 DEF CancelIsObeyed
  <2>5. QED
    BY <2>3, <2>4
<1>3. CASE LoopRefuses
  <2>1. inTime' \in BOOLEAN
    BY <1>3 DEF LoopRefuses
  <2>2. QED
    BY <1>2, <1>3, <2>1 DEF LoopRefuses, Working, Answers, CancelsAreSent
<1>4. CASE LoopLoads
  <2>1. inTime' \in BOOLEAN
    BY <1>4, InTimeStep
  <2>2. QED
    BY <1>1, <1>2, <1>4, <2>1 DEF LoopLoads, Working, Answers
<1>5. CASE LoopAnswers
  <2>1. loopAt = "stop" => taken \in cancels \/ ~stdinOpen
    BY DEF CancelsAreSent, RunningIsTaken, Begun
  <2>2. inTime \in BOOLEAN /\ (loopAt = "answer" => ~inTime)
    BY DEF TypeOK, ProcessTypeOK, LookedInTime
  <2>3. QED
    BY <1>2, <1>5, <2>1, <2>2 DEF LoopAnswers, Working, Answers
<1>6. QED
  BY <1>1, <1>3, <1>4, <1>5
     DEF Next, ClientStep, SidecarStep, ReaderStep, LoopStep, vars, processVars,
         ReadsGenerate, ReadsCancel, ReadsEnd, LoopTakes, LoopStops, LoopBegins, LoopReports,
         LoopLooks, LoopClears, Dies, Checks, SendsRequest, ReceivesEvent, ReceivesDone,
         Retries, ReceivesError, SeesExit, Drops, CancelSummary, CancelsElsewhere, AppDies

-----------------------------------------------------------------------------
(* The theorems.                                                             *)

LEMMA StepInvariant == IInv /\ [Next]_vars => IInv'
<1> SUFFICES ASSUME IInv, [Next]_vars PROVE IInv'
  OBVIOUS
<1>1. TypeOK'
  BY PipeTypeStep, ProcessTypeStep, ClientTypeStep DEF IInv, TypeOK, Owed
<1>2. RequestsCounted' /\ SentCounted'
  BY CountsStep DEF IInv, TypeOK
<1>3. RunningIsTaken' /\ CancelsAreSent'
  BY <1>1, RunningStep, CancelsStep DEF IInv
<1>4. Owed' /\ InTurn' /\ Numbered'
  BY TurnsStep DEF IInv
<1>5. HeardIsKept' /\ LookedInTime'
  BY HeardStep, LookStep DEF IInv, Owed
<1>6. CancelHitsItsRequest' /\ CancelIsObeyed'
  BY JustifiedStep DEF IInv, Owed
<1>7. QED
  BY <1>1, <1>2, <1>3, <1>4, <1>5, <1>6 DEF IInv

LEMMA Invariance == Spec => []IInv
  BY InitInvariant, StepInvariant, PTL DEF Spec

\* Every variable has its type; no generation sends more than a request and its retry.
THEOREM TypeCorrect == Spec => []TypeOK
<1>1. IInv => TypeOK
  BY DEF IInv
<1>2. QED
  BY <1>1, Invariance, PTL

\* Every request gets one answer, in the order asked, unless its process is gone: a reader
\* that reads on, a cancel at any moment and a late one change nothing of that.
THEOREM OneAnswerEach == Spec => []AnsweredInOrder
<1>1. IInv => AnsweredInOrder
  <2>1. ASSUME IInv, Quiet
        PROVE  Len(answers) = next
    <3>1. Len(stdin) = 0 /\ Len(queue) = 0 /\ Len(answers) \in Nat
      BY <2>1, EmptySeq, LenProperties DEF Quiet, IInv, TypeOK, ProcessTypeOK
    <3>2. ~Unanswered
      BY <2>1, <3>1 DEF Quiet, IInv, Owed, NotLost, Working
    <3>3. QED
      BY <2>1, <3>1, <3>2 DEF Unanswered, IInv, InTurn, TypeOK, ClientTypeOK
  <2>2. QED
    BY <2>1 DEF AnsweredInOrder, IInv, Numbered
<1>2. QED
  BY <1>1, Invariance, PTL

\* No request is answered as cancelled that nobody cancelled, as long as the app is there:
\* a cancel that comes late does not hit the request after.
THEOREM CancelHits == Spec => []CancelHitsItsRequest
<1>1. IInv => CancelHitsItsRequest
  BY DEF IInv
<1>2. QED
  BY <1>1, Invariance, PTL

\* A cancel taken in before the loop looked at the flag for the last time is obeyed,
\* whether its request still waited in the queue, was just taken out, or ran.
THEOREM CancelObeyed == Spec => []CancelIsObeyed
<1>1. IInv => CancelIsObeyed
  BY DEF IInv
<1>2. QED
  BY <1>1, Invariance, PTL

\* After the user's cancel one more request is sent at most, and its retry, however many
\* chunks are left.
THEOREM CancelEnds == Spec => []CancelEndsRequests
<1>1. IInv => CancelEndsRequests
  BY DEF IInv, SentCounted, CancelEndsRequests
<1>2. QED
  BY <1>1, Invariance, PTL
=============================================================================
