------------------------- MODULE AppLifecycleProofs -------------------------
(***************************************************************************)
(* What holds of AppLifecycle for every number of meetings and of calls to *)
(* stop and to summarize: one recording, one after-meeting thread, and a   *)
(* quit that no summary misses.                                            *)
(***************************************************************************)
EXTENDS AppLifecycle, TLAPS

\* The lock of current: one thread at most is between its check and its end, and until its
\* capture has started nobody records.
OneOpener ==
    /\ \A m, n \in Meetings : Opening(m) /\ Opening(n) => m = n
    /\ \A m \in Meetings : startAt[m] = "opening" => current = NoOne

\* A meeting is started once, and one that was taken is never recorded again.
StartedOnce ==
    /\ \A m \in Meetings : meeting[m] # "none" => startAt[m] \in {"tray", "ended"}
    /\ \A x \in Stops : stopAt[x] = "drain" => meeting[stopOf[x]] \in {"stopping", "stopped"}
    /\ mainAt = "drain" => meeting[mainOf] \in {"stopping", "stopped"}

Recordings == RecordingIsCurrent /\ OneOpener /\ StartedOnce

\* The lock of finalizing has one holder at most; while it is held the slot is empty, and
\* while it is not no handle is outside the slot.
SlotLocked ==
    /\ \A x, y \in Stops : stopAt[x] = "join" /\ stopAt[y] = "join" => x = y
    /\ \A x \in Stops : stopAt[x] = "join" => mainAt \notin {"summarize join", "join"}
    /\ SlotFree => joining = NoOne
    /\ ~SlotFree => slot = NoOne

\* A thread that works has its handle in the slot or with who waits for it.
HandleKept == \A w \in Works : Working(w) => w = slot \/ w = joining

Threads == SlotLocked /\ HandleKept

\* The quit is set for good when shutdown goes on to cancel, and no summary misses it.
QuitBegun == {"cancel", "take", "drain", "slot", "join", "clear", "exited"}

Quits == (mainAt \in QuitBegun => quitting) /\ QuitIsSeen

IInv == TypeOK /\ Recordings /\ Threads /\ Quits /\ FinalModelOnlyInPass

-----------------------------------------------------------------------------
\* One thread at a time: all handles of working threads are one.
LEMMA ThreadsAreOne ==
    ASSUME Threads PROVE OneAtATime
  BY AppAssumption DEF Threads, SlotLocked, HandleKept, OneAtATime, Works

\* Who has joined the thread it took out of the slot finds nobody at work.
LEMMA NobodyWorks ==
    ASSUME Threads, ~SlotFree, Joined PROVE \A w \in Works : ~Working(w)
  BY AppAssumption DEF Threads, SlotLocked, HandleKept, Joined, Works

\* Each variable keeps its type.
LEMMA RecordingTypeOKStep ==
    ASSUME RecordingTypeOK, StopTypeOK, MainTypeOK, [Next]_vars
    PROVE  RecordingTypeOK'
<1>1. CASE UNCHANGED <<meeting, current, startAt>>
  BY <1>1 DEF RecordingTypeOK, StopTypeOK, MainTypeOK, MeetingIs, StartAt
<1>2. ASSUME NEW m \in Meetings, StartInvoked(m) PROVE RecordingTypeOK'
  BY <1>2 DEF StartInvoked, slotVars, flagVars, RecordingTypeOK, StopTypeOK, MainTypeOK,
     MeetingIs, StartAt
<1>3. ASSUME NEW m \in Meetings, StartLoads(m) PROVE RecordingTypeOK'
  BY <1>3 DEF StartLoads, CurrentFree, slotVars, flagVars, RecordingTypeOK, StopTypeOK,
     MainTypeOK, MeetingIs, StartAt
<1>4. ASSUME NEW m \in Meetings, StartOpens(m) PROVE RecordingTypeOK'
  BY <1>4 DEF StartOpens, slotVars, flagVars, RecordingTypeOK, StopTypeOK, MainTypeOK,
     MeetingIs, StartAt
<1>5. ASSUME NEW x \in Stops, StopTakes(x) PROVE RecordingTypeOK'
  BY <1>5 DEF StopTakes, Take, CurrentFree, slotVars, flagVars, RecordingTypeOK, StopTypeOK,
     MainTypeOK, MeetingIs, StartAt
<1>6. ASSUME NEW x \in Stops, StopDrains(x) PROVE RecordingTypeOK'
  BY <1>6 DEF StopDrains, slotVars, flagVars, RecordingTypeOK, StopTypeOK, MainTypeOK,
     MeetingIs, StartAt
<1>7. CASE ShutdownTakes
  BY <1>7 DEF ShutdownTakes, Take, CurrentFree, MainGoes, slotVars, flagVars,
     RecordingTypeOK, StopTypeOK, MainTypeOK, MeetingIs, StartAt
<1>8. CASE ShutdownDrains
  BY <1>8 DEF ShutdownDrains, MainGoes, slotVars, flagVars, RecordingTypeOK, StopTypeOK,
     MainTypeOK, MeetingIs, StartAt
<1>9. CASE \/ \E x \in Stops : StopInvoked(x)
           \/ \E x \in Stops : StopEvicts(x)
           \/ \E x \in Stops : StopTakesSlot(x)
           \/ \E x \in Stops : StopSpawns(x)
           \/ \E w \in Works : PassLoads(w)
           \/ \E w \in Works : PassEnds(w)
           \/ \E w \in Works : SummaryClears(w)
           \/ \E w \in Works : SummaryChecks(w)
           \/ \E w \in Works : SummaryEnds(w)
           \/ \E r \in Requests : Summarize(r)
           \/ SummarizeTakesSlot
           \/ SummarizeSpawns
           \/ CancelSummary
           \/ Exit
           \/ ShutdownQuits
           \/ ShutdownCancels
           \/ ShutdownTakesSlot
           \/ ShutdownJoins
           \/ ShutdownClears
  BY <1>1, <1>9 DEF StopInvoked, slotVars, flagVars, StopEvicts, StopTakesSlot, TakeSlot,
     StopSpawns, Spawn, PassLoads, WorkGoes, callVars, PassEnds, SummaryClears,
     SummaryChecks,
     SummaryEnds, Summarize, SummarizeTakesSlot, MainGoes, SummarizeSpawns, CancelSummary,
     Exit, ShutdownQuits, ShutdownCancels, ShutdownTakesSlot, ShutdownJoins, ShutdownClears
<1>10. ASSUME NEW m \in Meetings, StartTray(m) PROVE RecordingTypeOK'
  BY <1>10 DEF StartTray, TrayServed, slotVars, flagVars, RecordingTypeOK, StopTypeOK,
     MainTypeOK, MeetingIs, StartAt
<1>11. ASSUME NEW x \in Stops, StopTray(x) PROVE RecordingTypeOK'
  BY <1>11 DEF StopTray, TrayServed, slotVars, flagVars, RecordingTypeOK, StopTypeOK,
     MainTypeOK, MeetingIs, StartAt
<1>12. CASE Recording
  BY <1>12 DEF Recording, MainGoes, slotVars, flagVars, RecordingTypeOK, StopTypeOK,
     MainTypeOK, MeetingIs, StartAt
<1>13. CASE RecordingAnswers
  BY <1>13 DEF RecordingAnswers, CurrentFree, MainGoes, slotVars, flagVars,
     RecordingTypeOK, StopTypeOK, MainTypeOK, MeetingIs, StartAt
<1>14. QED
  BY <1>1, <1>2, <1>3, <1>4, <1>5, <1>6, <1>7, <1>8, <1>9, <1>10, <1>11, <1>12, <1>13 DEF
     Next, UserStep, StartStep, StopStep, WorkStep, MainStep, vars, callVars, slotVars,
     flagVars

LEMMA StopTypeOKStep ==
    ASSUME RecordingTypeOK, StopTypeOK, [Next]_vars
    PROVE  StopTypeOK'
<1>1. CASE UNCHANGED <<stopAt, stopOf>>
  BY <1>1 DEF StopTypeOK, RecordingTypeOK, StopAt
<1>2. ASSUME NEW x \in Stops, StopInvoked(x) PROVE StopTypeOK'
  BY <1>2 DEF StopInvoked, slotVars, flagVars, StopTypeOK, RecordingTypeOK, StopAt
<1>3. ASSUME NEW x \in Stops, StopTakes(x) PROVE StopTypeOK'
  BY <1>3 DEF StopTakes, Take, CurrentFree, slotVars, flagVars, StopTypeOK, RecordingTypeOK,
     StopAt
<1>4. ASSUME NEW x \in Stops, StopDrains(x) PROVE StopTypeOK'
  BY <1>4 DEF StopDrains, slotVars, flagVars, StopTypeOK, RecordingTypeOK, StopAt
<1>5. ASSUME NEW x \in Stops, StopEvicts(x) PROVE StopTypeOK'
  BY <1>5 DEF StopEvicts, slotVars, flagVars, StopTypeOK, RecordingTypeOK, StopAt
<1>6. ASSUME NEW x \in Stops, StopTakesSlot(x) PROVE StopTypeOK'
  BY <1>6 DEF StopTakesSlot, TakeSlot, flagVars, StopTypeOK, RecordingTypeOK, StopAt
<1>7. ASSUME NEW x \in Stops, StopSpawns(x) PROVE StopTypeOK'
  BY <1>7 DEF StopSpawns, Spawn, flagVars, StopTypeOK, RecordingTypeOK, StopAt
<1>8. CASE \/ \E m \in Meetings : StartInvoked(m)
           \/ \E m \in Meetings : StartLoads(m)
           \/ \E m \in Meetings : StartOpens(m)
           \/ \E w \in Works : PassLoads(w)
           \/ \E w \in Works : PassEnds(w)
           \/ \E w \in Works : SummaryClears(w)
           \/ \E w \in Works : SummaryChecks(w)
           \/ \E w \in Works : SummaryEnds(w)
           \/ \E r \in Requests : Summarize(r)
           \/ SummarizeTakesSlot
           \/ SummarizeSpawns
           \/ CancelSummary
           \/ Exit
           \/ ShutdownQuits
           \/ ShutdownCancels
           \/ ShutdownTakes
           \/ ShutdownDrains
           \/ ShutdownTakesSlot
           \/ ShutdownJoins
           \/ ShutdownClears
  BY <1>1, <1>8 DEF StartInvoked, slotVars, flagVars, StartLoads, StartOpens, PassLoads,
     WorkGoes, callVars, PassEnds, SummaryClears, SummaryChecks, SummaryEnds, Summarize,
     SummarizeTakesSlot, TakeSlot, MainGoes, SummarizeSpawns, Spawn, CancelSummary, Exit,
     ShutdownQuits, ShutdownCancels, ShutdownTakes, Take, ShutdownDrains, ShutdownTakesSlot,
     ShutdownJoins, ShutdownClears
<1>9. ASSUME NEW m \in Meetings, StartTray(m) PROVE StopTypeOK'
  BY <1>9 DEF StartTray, TrayServed, slotVars, flagVars, StopTypeOK, RecordingTypeOK,
     StopAt
<1>10. ASSUME NEW x \in Stops, StopTray(x) PROVE StopTypeOK'
  BY <1>10 DEF StopTray, TrayServed, slotVars, flagVars, StopTypeOK, RecordingTypeOK,
     StopAt
<1>11. CASE Recording
  BY <1>11 DEF Recording, MainGoes, slotVars, flagVars, StopTypeOK, RecordingTypeOK,
     StopAt
<1>12. CASE RecordingAnswers
  BY <1>12 DEF RecordingAnswers, CurrentFree, MainGoes, slotVars, flagVars, StopTypeOK,
     RecordingTypeOK, StopAt
<1>13. QED
  BY <1>1, <1>2, <1>3, <1>4, <1>5, <1>6, <1>7, <1>8, <1>9, <1>10, <1>11, <1>12 DEF Next,
     UserStep, StartStep, StopStep, WorkStep, MainStep, vars, callVars, slotVars, flagVars

LEMMA MainTypeOKStep ==
    ASSUME RecordingTypeOK, MainTypeOK, [Next]_vars
    PROVE  MainTypeOK'
<1>1. CASE UNCHANGED <<mainAt, mainOf>>
  BY <1>1 DEF MainTypeOK, RecordingTypeOK, MainAt, Works
<1>2. ASSUME NEW r \in Requests, Summarize(r) PROVE MainTypeOK'
  BY <1>2 DEF Summarize, slotVars, flagVars, MainTypeOK, RecordingTypeOK, MainAt, Works
<1>3. CASE SummarizeTakesSlot
  BY <1>3 DEF SummarizeTakesSlot, TakeSlot, MainGoes, flagVars, MainTypeOK, RecordingTypeOK,
     MainAt, Works
<1>4. CASE SummarizeSpawns
  BY <1>4 DEF SummarizeSpawns, Spawn, flagVars, MainTypeOK, RecordingTypeOK, MainAt, Works
<1>5. CASE Exit
  BY <1>5 DEF Exit, MainGoes, slotVars, flagVars, MainTypeOK, RecordingTypeOK, MainAt, Works
<1>6. CASE ShutdownQuits
  BY <1>6 DEF ShutdownQuits, MainGoes, slotVars, MainTypeOK, RecordingTypeOK, MainAt, Works
<1>7. CASE ShutdownCancels
  BY <1>7 DEF ShutdownCancels, MainGoes, slotVars, MainTypeOK, RecordingTypeOK, MainAt,
     Works
<1>8. CASE ShutdownTakes
  BY <1>8 DEF ShutdownTakes, Take, CurrentFree, MainGoes, slotVars, flagVars, MainTypeOK,
     RecordingTypeOK, MainAt, Works
<1>9. CASE ShutdownDrains
  BY <1>9 DEF ShutdownDrains, MainGoes, slotVars, flagVars, MainTypeOK, RecordingTypeOK,
     MainAt, Works
<1>10. CASE ShutdownTakesSlot
  BY <1>10 DEF ShutdownTakesSlot, TakeSlot, MainGoes, flagVars, MainTypeOK, RecordingTypeOK,
     MainAt, Works
<1>11. CASE ShutdownJoins
  BY <1>11 DEF ShutdownJoins, MainGoes, flagVars, MainTypeOK, RecordingTypeOK, MainAt, Works
<1>12. CASE ShutdownClears
  BY <1>12 DEF ShutdownClears, MainGoes, slotVars, flagVars, MainTypeOK, RecordingTypeOK,
     MainAt, Works
<1>13. CASE \/ \E m \in Meetings : StartInvoked(m)
            \/ \E m \in Meetings : StartLoads(m)
            \/ \E m \in Meetings : StartOpens(m)
            \/ \E x \in Stops : StopInvoked(x)
            \/ \E x \in Stops : StopTakes(x)
            \/ \E x \in Stops : StopDrains(x)
            \/ \E x \in Stops : StopEvicts(x)
            \/ \E x \in Stops : StopTakesSlot(x)
            \/ \E x \in Stops : StopSpawns(x)
            \/ \E w \in Works : PassLoads(w)
            \/ \E w \in Works : PassEnds(w)
            \/ \E w \in Works : SummaryClears(w)
            \/ \E w \in Works : SummaryChecks(w)
            \/ \E w \in Works : SummaryEnds(w)
            \/ CancelSummary
  BY <1>1, <1>13 DEF StartInvoked, slotVars, flagVars, StartLoads, StartOpens, StopInvoked,
     StopTakes, Take, StopDrains, StopEvicts, StopTakesSlot, TakeSlot, StopSpawns, Spawn,
     PassLoads, WorkGoes, callVars, PassEnds, SummaryClears, SummaryChecks, SummaryEnds,
     CancelSummary
<1>14. ASSUME NEW m \in Meetings, StartTray(m) PROVE MainTypeOK'
  BY <1>14 DEF StartTray, TrayServed, slotVars, flagVars, MainTypeOK, RecordingTypeOK,
     MainAt, Works
<1>15. ASSUME NEW x \in Stops, StopTray(x) PROVE MainTypeOK'
  BY <1>15 DEF StopTray, TrayServed, slotVars, flagVars, MainTypeOK, RecordingTypeOK,
     MainAt, Works
<1>16. CASE Recording
  BY <1>16 DEF Recording, MainGoes, slotVars, flagVars, MainTypeOK, RecordingTypeOK,
     MainAt, Works
<1>17. CASE RecordingAnswers
  BY <1>17 DEF RecordingAnswers, CurrentFree, MainGoes, slotVars, flagVars, MainTypeOK,
     RecordingTypeOK, MainAt, Works
<1>18. QED
  BY <1>1, <1>2, <1>3, <1>4, <1>5, <1>6, <1>7, <1>8, <1>9, <1>10, <1>11, <1>12, <1>13,
     <1>14, <1>15, <1>16, <1>17 DEF Next, UserStep, StartStep, StopStep, WorkStep,
     MainStep, vars, callVars, slotVars, flagVars

LEMMA WorkTypeOKStep ==
    ASSUME StopTypeOK, MainTypeOK, WorkTypeOK, [Next]_vars
    PROVE  WorkTypeOK'
<1>1. CASE UNCHANGED <<slot, joining, workAt>>
  BY <1>1 DEF WorkTypeOK, StopTypeOK, MainTypeOK, WorkAt, Works
<1>2. ASSUME NEW x \in Stops, StopTakesSlot(x) PROVE WorkTypeOK'
  BY <1>2 DEF StopTakesSlot, TakeSlot, flagVars, WorkTypeOK, StopTypeOK, MainTypeOK, WorkAt,
     Works
<1>3. ASSUME NEW x \in Stops, StopSpawns(x) PROVE WorkTypeOK'
  BY <1>3 DEF StopSpawns, Spawn, flagVars, WorkTypeOK, StopTypeOK, MainTypeOK, WorkAt, Works
<1>4. ASSUME NEW w \in Works, PassLoads(w) PROVE WorkTypeOK'
  BY <1>4 DEF PassLoads, WorkGoes, callVars, slotVars, flagVars, WorkTypeOK, StopTypeOK,
     MainTypeOK, WorkAt, Works
<1>5. ASSUME NEW w \in Works, PassEnds(w) PROVE WorkTypeOK'
  BY <1>5 DEF PassEnds, WorkGoes, callVars, slotVars, flagVars, WorkTypeOK, StopTypeOK,
     MainTypeOK, WorkAt, Works
<1>6. ASSUME NEW w \in Works, SummaryClears(w) PROVE WorkTypeOK'
  BY <1>6 DEF SummaryClears, WorkGoes, callVars, slotVars, WorkTypeOK, StopTypeOK,
     MainTypeOK, WorkAt, Works
<1>7. ASSUME NEW w \in Works, SummaryChecks(w) PROVE WorkTypeOK'
  BY <1>7 DEF SummaryChecks, WorkGoes, callVars, slotVars, flagVars, WorkTypeOK, StopTypeOK,
     MainTypeOK, WorkAt, Works
<1>8. ASSUME NEW w \in Works, SummaryEnds(w) PROVE WorkTypeOK'
  BY <1>8 DEF SummaryEnds, WorkGoes, callVars, slotVars, flagVars, WorkTypeOK, StopTypeOK,
     MainTypeOK, WorkAt, Works
<1>9. CASE SummarizeTakesSlot
  BY <1>9 DEF SummarizeTakesSlot, TakeSlot, MainGoes, flagVars, WorkTypeOK, StopTypeOK,
     MainTypeOK, WorkAt, Works
<1>10. CASE SummarizeSpawns
  BY <1>10 DEF SummarizeSpawns, Spawn, flagVars, WorkTypeOK, StopTypeOK, MainTypeOK, WorkAt,
     Works
<1>11. CASE ShutdownTakesSlot
  BY <1>11 DEF ShutdownTakesSlot, TakeSlot, MainGoes, flagVars, WorkTypeOK, StopTypeOK,
     MainTypeOK, WorkAt, Works
<1>12. CASE ShutdownJoins
  BY <1>12 DEF ShutdownJoins, MainGoes, flagVars, WorkTypeOK, StopTypeOK, MainTypeOK,
     WorkAt, Works
<1>13. CASE \/ \E m \in Meetings : StartInvoked(m)
            \/ \E m \in Meetings : StartLoads(m)
            \/ \E m \in Meetings : StartOpens(m)
            \/ \E x \in Stops : StopInvoked(x)
            \/ \E x \in Stops : StopTakes(x)
            \/ \E x \in Stops : StopDrains(x)
            \/ \E x \in Stops : StopEvicts(x)
            \/ \E r \in Requests : Summarize(r)
            \/ CancelSummary
            \/ Exit
            \/ ShutdownQuits
            \/ ShutdownCancels
            \/ ShutdownTakes
            \/ ShutdownDrains
            \/ ShutdownClears
  BY <1>1, <1>13 DEF StartInvoked, slotVars, flagVars, StartLoads, StartOpens, StopInvoked,
     StopTakes, Take, StopDrains, StopEvicts, Summarize, CancelSummary, callVars, Exit,
     MainGoes, ShutdownQuits, ShutdownCancels, ShutdownTakes, ShutdownDrains, ShutdownClears
<1>14. ASSUME NEW m \in Meetings, StartTray(m) PROVE WorkTypeOK'
  BY <1>14 DEF StartTray, TrayServed, slotVars, flagVars, WorkTypeOK, StopTypeOK,
     MainTypeOK, WorkAt, Works
<1>15. ASSUME NEW x \in Stops, StopTray(x) PROVE WorkTypeOK'
  BY <1>15 DEF StopTray, TrayServed, slotVars, flagVars, WorkTypeOK, StopTypeOK,
     MainTypeOK, WorkAt, Works
<1>16. CASE Recording
  BY <1>16 DEF Recording, MainGoes, slotVars, flagVars, WorkTypeOK, StopTypeOK,
     MainTypeOK, WorkAt, Works
<1>17. CASE RecordingAnswers
  BY <1>17 DEF RecordingAnswers, CurrentFree, MainGoes, slotVars, flagVars, WorkTypeOK,
     StopTypeOK, MainTypeOK, WorkAt, Works
<1>18. QED
  BY <1>1, <1>2, <1>3, <1>4, <1>5, <1>6, <1>7, <1>8, <1>9, <1>10, <1>11, <1>12, <1>13,
     <1>14, <1>15, <1>16, <1>17 DEF Next, UserStep, StartStep, StopStep, WorkStep,
     MainStep, vars, callVars, slotVars, flagVars

LEMMA FlagTypeOKStep ==
    ASSUME FlagTypeOK, [Next]_vars
    PROVE  FlagTypeOK'
<1>1. CASE UNCHANGED <<cached, quitting, cancel>>
  BY <1>1 DEF FlagTypeOK, Models
<1>2. ASSUME NEW m \in Meetings, StartLoads(m) PROVE FlagTypeOK'
  BY <1>2 DEF StartLoads, CurrentFree, slotVars, flagVars, FlagTypeOK, Models
<1>3. ASSUME NEW x \in Stops, StopEvicts(x) PROVE FlagTypeOK'
  BY <1>3 DEF StopEvicts, slotVars, flagVars, FlagTypeOK, Models
<1>4. ASSUME NEW w \in Works, PassLoads(w) PROVE FlagTypeOK'
  BY <1>4 DEF PassLoads, WorkGoes, callVars, slotVars, flagVars, FlagTypeOK, Models
<1>5. ASSUME NEW w \in Works, PassEnds(w) PROVE FlagTypeOK'
  BY <1>5 DEF PassEnds, WorkGoes, callVars, slotVars, flagVars, FlagTypeOK, Models
<1>6. ASSUME NEW w \in Works, SummaryClears(w) PROVE FlagTypeOK'
  BY <1>6 DEF SummaryClears, WorkGoes, callVars, slotVars, FlagTypeOK, Models
<1>7. CASE CancelSummary
  BY <1>7 DEF CancelSummary, callVars, slotVars, FlagTypeOK, Models
<1>8. CASE ShutdownQuits
  BY <1>8 DEF ShutdownQuits, MainGoes, slotVars, FlagTypeOK, Models
<1>9. CASE ShutdownCancels
  BY <1>9 DEF ShutdownCancels, MainGoes, slotVars, FlagTypeOK, Models
<1>10. CASE ShutdownClears
  BY <1>10 DEF ShutdownClears, MainGoes, slotVars, flagVars, FlagTypeOK, Models
<1>11. CASE \/ \E m \in Meetings : StartInvoked(m)
            \/ \E m \in Meetings : StartOpens(m)
            \/ \E x \in Stops : StopInvoked(x)
            \/ \E x \in Stops : StopTakes(x)
            \/ \E x \in Stops : StopDrains(x)
            \/ \E x \in Stops : StopTakesSlot(x)
            \/ \E x \in Stops : StopSpawns(x)
            \/ \E w \in Works : SummaryChecks(w)
            \/ \E w \in Works : SummaryEnds(w)
            \/ \E r \in Requests : Summarize(r)
            \/ SummarizeTakesSlot
            \/ SummarizeSpawns
            \/ Exit
            \/ ShutdownTakes
            \/ ShutdownDrains
            \/ ShutdownTakesSlot
            \/ ShutdownJoins
  BY <1>1, <1>11 DEF StartInvoked, slotVars, flagVars, StartOpens, StopInvoked, StopTakes,
     Take, StopDrains, StopTakesSlot, TakeSlot, StopSpawns, Spawn, SummaryChecks, WorkGoes,
     callVars, SummaryEnds, Summarize, SummarizeTakesSlot, MainGoes, SummarizeSpawns, Exit,
     ShutdownTakes, ShutdownDrains, ShutdownTakesSlot, ShutdownJoins
<1>12. ASSUME NEW m \in Meetings, StartTray(m) PROVE FlagTypeOK'
  BY <1>12 DEF StartTray, TrayServed, slotVars, flagVars, FlagTypeOK, Models
<1>13. ASSUME NEW x \in Stops, StopTray(x) PROVE FlagTypeOK'
  BY <1>13 DEF StopTray, TrayServed, slotVars, flagVars, FlagTypeOK, Models
<1>14. CASE Recording
  BY <1>14 DEF Recording, MainGoes, slotVars, flagVars, FlagTypeOK, Models
<1>15. CASE RecordingAnswers
  BY <1>15 DEF RecordingAnswers, CurrentFree, MainGoes, slotVars, flagVars, FlagTypeOK,
     Models
<1>16. QED
  BY <1>1, <1>2, <1>3, <1>4, <1>5, <1>6, <1>7, <1>8, <1>9, <1>10, <1>11, <1>12, <1>13,
     <1>14, <1>15 DEF Next, UserStep, StartStep, StopStep, WorkStep, MainStep, vars,
     callVars, slotVars, flagVars

\* The lock of current is held from the check to the end of a start.
LEMMA RecordingsStep ==
    ASSUME RecordingTypeOK, StopTypeOK, MainTypeOK, Recordings, [Next]_vars
    PROVE  Recordings'
<1>1. CASE UNCHANGED <<meeting, current, startAt, stopAt, stopOf, mainAt, mainOf>>
  BY <1>1 DEF Recordings, RecordingIsCurrent, OneOpener, Opening, StartedOnce,
     RecordingTypeOK, StopTypeOK, MainTypeOK
<1>2. ASSUME NEW m \in Meetings, StartInvoked(m) PROVE Recordings'
  BY <1>2 DEF StartInvoked, slotVars, flagVars, Recordings, RecordingIsCurrent, OneOpener,
     Opening, StartedOnce, RecordingTypeOK, StopTypeOK, MainTypeOK
<1>3. ASSUME NEW m \in Meetings, StartLoads(m) PROVE Recordings'
  <2>1. PICK at \in {"opening", "ended"} :
               /\ startAt' = [startAt EXCEPT ![m] = at]
               /\ at = "opening" => current = NoOne
    BY <1>3 DEF StartLoads
  <2>2. UNCHANGED <<meeting, current, stopAt, stopOf, mainAt, mainOf>>
    BY <1>3 DEF StartLoads
  <2>3. RecordingIsCurrent'
    BY <2>2 DEF Recordings, RecordingIsCurrent
  <2>4. OneOpener'
    BY <1>3, <2>1, <2>2 DEF StartLoads, CurrentFree, OneOpener, Opening, RecordingTypeOK
  <2>5. StartedOnce'
    BY <1>3, <2>1, <2>2 DEF StartLoads, Recordings, StartedOnce, RecordingTypeOK
  <2> QED
    BY <2>3, <2>4, <2>5 DEF Recordings
<1>4. ASSUME NEW m \in Meetings, StartOpens(m) PROVE Recordings'
  <2>1. current = NoOne
    BY <1>4 DEF StartOpens, Recordings, OneOpener
  <2>2. UNCHANGED <<stopAt, stopOf, mainAt, mainOf>>
    BY <1>4 DEF StartOpens
  <2>3. CASE /\ meeting' = [meeting EXCEPT ![m] = "recording"] /\ current' = m
             /\ startAt' = [startAt EXCEPT ![m] = "tray"]
    <3>1. RecordingIsCurrent'
      BY <2>1, <2>3, AppAssumption DEF Recordings, RecordingIsCurrent, RecordingTypeOK,
         Works
    <3>2. OneOpener'
      BY <1>4, <2>3 DEF StartOpens, Recordings, OneOpener, Opening, RecordingTypeOK
    <3>3. \A x \in Stops : stopAt[x] = "drain" => stopOf[x] # m
      BY <1>4 DEF StartOpens, Recordings, StartedOnce, RecordingTypeOK
    <3>4. mainAt = "drain" => mainOf # m
      BY <1>4 DEF StartOpens, Recordings, StartedOnce, RecordingTypeOK
    <3>5. StartedOnce'
      BY <2>1, <2>2, <2>3, <3>3, <3>4
      DEF Recordings, StartedOnce, RecordingTypeOK, StopTypeOK, MainTypeOK
    <3> QED
      BY <3>1, <3>2, <3>5 DEF Recordings
  <2>4. CASE UNCHANGED <<meeting, current>> /\ startAt' = [startAt EXCEPT ![m] = "ended"]
    BY <1>4, <2>2, <2>4
    DEF StartOpens, Recordings, RecordingIsCurrent, OneOpener, Opening, StartedOnce,
        RecordingTypeOK
  <2> QED
    BY <1>4, <2>3, <2>4 DEF StartOpens
<1>5. ASSUME NEW x \in Stops, StopInvoked(x) PROVE Recordings'
  BY <1>5 DEF StopInvoked, slotVars, flagVars, Recordings, RecordingIsCurrent, OneOpener,
     Opening, StartedOnce, RecordingTypeOK, StopTypeOK, MainTypeOK
<1>6. ASSUME NEW x \in Stops, StopTakes(x) PROVE Recordings'
  <2>1. UNCHANGED startAt /\ CurrentFree /\ current' = NoOne
    BY <1>6 DEF StopTakes, Take
  <2>2. \A m \in Meetings : meeting'[m] = IF m = current THEN "stopping" ELSE meeting[m]
    BY <1>6, AppAssumption DEF StopTakes, Take, RecordingTypeOK, Works
  <2>3. RecordingIsCurrent'
    BY <2>1, <2>2, AppAssumption DEF Recordings, RecordingIsCurrent, Works
  <2>4. OneOpener'
    BY <2>1 DEF CurrentFree, OneOpener, Opening
  <2>5. \A m \in Meetings : meeting'[m] # "none" => startAt'[m] \in {"tray", "ended"}
    BY <2>1, <2>2 DEF Recordings, RecordingIsCurrent, StartedOnce
  <2>6. mainAt' = "drain" => meeting'[mainOf'] \in {"stopping", "stopped"}
    BY <1>6, <2>2 DEF StopTakes, Recordings, StartedOnce, MainTypeOK
  <2>7. ASSUME NEW y \in Stops, stopAt'[y] = "drain"
        PROVE  meeting'[stopOf'[y]] \in {"stopping", "stopped"}
    <3>1. CASE y = x
      BY <1>6, <2>2, <2>7, <3>1 DEF StopTakes, RecordingTypeOK, StopTypeOK
    <3>2. CASE y # x
      BY <1>6, <2>2, <2>7, <3>2 DEF StopTakes, Recordings, StartedOnce, StopTypeOK
    <3> QED
      BY <3>1, <3>2
  <2> QED
    BY <2>3, <2>4, <2>5, <2>6, <2>7 DEF Recordings, StartedOnce
<1>7. ASSUME NEW x \in Stops, StopDrains(x) PROVE Recordings'
  <2>1. PICK at \in {"tray", "ended"} : stopAt' = [stopAt EXCEPT ![x] = at]
    BY <1>7 DEF StopDrains
  <2>2. \A y \in Stops : stopAt'[y] = "drain" => stopAt[y] = "drain"
    BY <2>1 DEF StopTypeOK
  <2>3. /\ meeting' = [meeting EXCEPT ![stopOf[x]] = "stopped"]
        /\ meeting[stopOf[x]] \in {"stopping", "stopped"}
        /\ UNCHANGED <<current, startAt, stopOf, mainAt, mainOf>>
    BY <1>7 DEF StopDrains, Recordings, StartedOnce
  <2> QED
    BY <2>2, <2>3 DEF Recordings, RecordingIsCurrent, OneOpener, Opening, StartedOnce,
       RecordingTypeOK, StopTypeOK, MainTypeOK
<1>8. ASSUME NEW x \in Stops, StopEvicts(x) PROVE Recordings'
  BY <1>8 DEF StopEvicts, slotVars, flagVars, Recordings, RecordingIsCurrent, OneOpener,
     Opening, StartedOnce, RecordingTypeOK, StopTypeOK, MainTypeOK
<1>9. ASSUME NEW x \in Stops, StopTakesSlot(x) PROVE Recordings'
  BY <1>9 DEF StopTakesSlot, TakeSlot, flagVars, Recordings, RecordingIsCurrent, OneOpener,
     Opening, StartedOnce, RecordingTypeOK, StopTypeOK, MainTypeOK
<1>10. ASSUME NEW x \in Stops, StopSpawns(x) PROVE Recordings'
  BY <1>10 DEF StopSpawns, Spawn, flagVars, Recordings, RecordingIsCurrent, OneOpener,
     Opening, StartedOnce, RecordingTypeOK, StopTypeOK, MainTypeOK
<1>11. ASSUME NEW r \in Requests, Summarize(r) PROVE Recordings'
  BY <1>11 DEF Summarize, slotVars, flagVars, Recordings, RecordingIsCurrent, OneOpener,
     Opening, StartedOnce, RecordingTypeOK, StopTypeOK, MainTypeOK
<1>12. CASE SummarizeTakesSlot
  BY <1>12 DEF SummarizeTakesSlot, TakeSlot, MainGoes, flagVars, Recordings,
     RecordingIsCurrent, OneOpener, Opening, StartedOnce, RecordingTypeOK, StopTypeOK,
     MainTypeOK
<1>13. CASE SummarizeSpawns
  BY <1>13 DEF SummarizeSpawns, Spawn, flagVars, Recordings, RecordingIsCurrent, OneOpener,
     Opening, StartedOnce, RecordingTypeOK, StopTypeOK, MainTypeOK
<1>14. CASE Exit
  BY <1>14 DEF Exit, MainGoes, slotVars, flagVars, Recordings, RecordingIsCurrent,
     OneOpener, Opening, StartedOnce, RecordingTypeOK, StopTypeOK, MainTypeOK
<1>15. CASE ShutdownQuits
  BY <1>15 DEF ShutdownQuits, MainGoes, slotVars, Recordings, RecordingIsCurrent, OneOpener,
     Opening, StartedOnce, RecordingTypeOK, StopTypeOK, MainTypeOK
<1>16. CASE ShutdownCancels
  BY <1>16 DEF ShutdownCancels, MainGoes, slotVars, Recordings, RecordingIsCurrent,
     OneOpener, Opening, StartedOnce, RecordingTypeOK, StopTypeOK, MainTypeOK
<1>17. CASE ShutdownTakes
  <2>1. UNCHANGED startAt /\ CurrentFree /\ current' = NoOne
    BY <1>17 DEF ShutdownTakes, Take
  <2>2. \A m \in Meetings : meeting'[m] = IF m = current THEN "stopping" ELSE meeting[m]
    BY <1>17, AppAssumption DEF ShutdownTakes, Take, RecordingTypeOK, Works
  <2>3. RecordingIsCurrent'
    BY <2>1, <2>2, AppAssumption DEF Recordings, RecordingIsCurrent, Works
  <2>4. OneOpener'
    BY <2>1 DEF CurrentFree, OneOpener, Opening
  <2>5. \A m \in Meetings : meeting'[m] # "none" => startAt'[m] \in {"tray", "ended"}
    BY <2>1, <2>2 DEF Recordings, RecordingIsCurrent, StartedOnce
  <2>6. mainAt' = "drain" => meeting'[mainOf'] \in {"stopping", "stopped"}
    BY <1>17, <2>2 DEF ShutdownTakes, RecordingTypeOK, MainTypeOK
  <2>7. \A y \in Stops : stopAt'[y] = "drain" =>
        meeting'[stopOf'[y]] \in {"stopping", "stopped"}
    BY <1>17, <2>2 DEF ShutdownTakes, Recordings, StartedOnce, StopTypeOK
  <2> QED
    BY <2>3, <2>4, <2>5, <2>6, <2>7 DEF Recordings, StartedOnce
<1>18. CASE ShutdownDrains
  BY <1>18 DEF ShutdownDrains, MainGoes, slotVars, flagVars, Recordings, RecordingIsCurrent,
     OneOpener, Opening, StartedOnce, RecordingTypeOK, StopTypeOK, MainTypeOK
<1>19. CASE ShutdownTakesSlot
  BY <1>19 DEF ShutdownTakesSlot, TakeSlot, MainGoes, flagVars, Recordings,
     RecordingIsCurrent, OneOpener, Opening, StartedOnce, RecordingTypeOK, StopTypeOK,
     MainTypeOK
<1>20. CASE ShutdownJoins
  BY <1>20 DEF ShutdownJoins, MainGoes, flagVars, Recordings, RecordingIsCurrent, OneOpener,
     Opening, StartedOnce, RecordingTypeOK, StopTypeOK, MainTypeOK
<1>21. CASE ShutdownClears
  BY <1>21 DEF ShutdownClears, MainGoes, slotVars, flagVars, Recordings, RecordingIsCurrent,
     OneOpener, Opening, StartedOnce, RecordingTypeOK, StopTypeOK, MainTypeOK
<1>22. CASE \/ \E w \in Works : PassLoads(w)
            \/ \E w \in Works : PassEnds(w)
            \/ \E w \in Works : SummaryClears(w)
            \/ \E w \in Works : SummaryChecks(w)
            \/ \E w \in Works : SummaryEnds(w)
            \/ CancelSummary
  BY <1>1, <1>22 DEF PassLoads, WorkGoes, callVars, slotVars, flagVars, PassEnds,
     SummaryClears, SummaryChecks, SummaryEnds, CancelSummary
<1>23. ASSUME NEW m \in Meetings, StartTray(m) PROVE Recordings'
  BY <1>23 DEF StartTray, TrayServed, slotVars, flagVars, Recordings, RecordingIsCurrent,
     OneOpener, Opening, StartedOnce, RecordingTypeOK, StopTypeOK, MainTypeOK
<1>24. ASSUME NEW x \in Stops, StopTray(x) PROVE Recordings'
  BY <1>24 DEF StopTray, TrayServed, slotVars, flagVars, Recordings, RecordingIsCurrent,
     OneOpener, Opening, StartedOnce, RecordingTypeOK, StopTypeOK, MainTypeOK
<1>25. CASE Recording
  BY <1>25 DEF Recording, MainGoes, slotVars, flagVars, Recordings, RecordingIsCurrent,
     OneOpener, Opening, StartedOnce, RecordingTypeOK, StopTypeOK, MainTypeOK
<1>26. CASE RecordingAnswers
  BY <1>26 DEF RecordingAnswers, CurrentFree, MainGoes, slotVars, flagVars, Recordings,
     RecordingIsCurrent, OneOpener, Opening, StartedOnce, RecordingTypeOK, StopTypeOK,
     MainTypeOK
<1>27. QED
  BY <1>1, <1>2, <1>3, <1>4, <1>5, <1>6, <1>7, <1>8, <1>9, <1>10, <1>11, <1>12, <1>13,
     <1>14, <1>15, <1>16, <1>17, <1>18, <1>19, <1>20, <1>21, <1>22, <1>23, <1>24, <1>25,
     <1>26 DEF Next, UserStep, StartStep, StopStep, WorkStep, MainStep, vars, callVars,
     slotVars, flagVars

\* The lock of finalizing is held until the thread taken out of the slot has ended.
LEMMA ThreadsStep ==
    ASSUME StopTypeOK, MainTypeOK, WorkTypeOK, Threads, [Next]_vars
    PROVE  Threads'
<1>1. CASE UNCHANGED <<stopAt, mainAt, slot, joining, workAt>>
  BY <1>1 DEF Threads, SlotLocked, HandleKept, SlotFree, Working, StopTypeOK, MainTypeOK,
     WorkTypeOK, Works
<1>2. ASSUME NEW x \in Stops, StopInvoked(x) PROVE Threads'
  BY <1>2 DEF StopInvoked, slotVars, flagVars, Threads, SlotLocked, HandleKept, SlotFree,
     Working, StopTypeOK, MainTypeOK, WorkTypeOK, Works
<1>3. ASSUME NEW x \in Stops, StopTakes(x) PROVE Threads'
  BY <1>3 DEF StopTakes, Take, CurrentFree, slotVars, flagVars, Threads, SlotLocked,
     HandleKept, SlotFree, Working, StopTypeOK, MainTypeOK, WorkTypeOK, Works
<1>4. ASSUME NEW x \in Stops, StopDrains(x) PROVE Threads'
  <2>1. SlotFree' = SlotFree /\ UNCHANGED <<mainAt, slot, joining, workAt>>
    BY <1>4 DEF StopDrains, slotVars, SlotFree, StopTypeOK
  <2>2. SlotLocked'
    BY <1>4, <2>1 DEF StopDrains, Threads, SlotLocked, StopTypeOK
  <2> QED
    BY <2>1, <2>2 DEF Threads, HandleKept, Working
<1>5. ASSUME NEW x \in Stops, StopEvicts(x) PROVE Threads'
  BY <1>5 DEF StopEvicts, slotVars, flagVars, Threads, SlotLocked, HandleKept, SlotFree,
     Working, StopTypeOK, MainTypeOK, WorkTypeOK, Works
<1>6. ASSUME NEW x \in Stops, StopTakesSlot(x) PROVE Threads'
  BY <1>6 DEF StopTakesSlot, TakeSlot, flagVars, Threads, SlotLocked, HandleKept, SlotFree,
     Working, StopTypeOK, MainTypeOK, WorkTypeOK, Works
<1>7. ASSUME NEW x \in Stops, StopSpawns(x) PROVE Threads'
  <2>1. ~SlotFree /\ Joined /\ joining' = NoOne /\ slot' = stopOf[x] /\ stopOf[x] \in Works
    BY <1>7 DEF StopSpawns, Spawn, SlotFree, StopTypeOK, Works
  <2>2. \A v \in Works : ~Working(v)
    BY <2>1, NobodyWorks
  <2>3. \A v \in Works : Working(v)' => v = stopOf[x]
    BY <1>7, <2>2 DEF StopSpawns, Spawn, Working, WorkTypeOK
  <2>4. SlotFree'
    BY <1>7 DEF StopSpawns, Threads, SlotLocked, SlotFree, StopTypeOK
  <2>5. SlotLocked'
    BY <2>1, <2>4, <1>7 DEF StopSpawns, Threads, SlotLocked, SlotFree, StopTypeOK
  <2> QED
    BY <2>1, <2>3, <2>5 DEF Threads, HandleKept
<1>8. ASSUME NEW w \in Works, PassLoads(w) PROVE Threads'
  BY <1>8 DEF PassLoads, WorkGoes, callVars, slotVars, flagVars, Threads, SlotLocked,
     HandleKept, SlotFree, Working, StopTypeOK, MainTypeOK, WorkTypeOK, Works
<1>9. ASSUME NEW w \in Works, PassEnds(w) PROVE Threads'
  BY <1>9 DEF PassEnds, WorkGoes, callVars, slotVars, flagVars, Threads, SlotLocked,
     HandleKept, SlotFree, Working, StopTypeOK, MainTypeOK, WorkTypeOK, Works
<1>10. ASSUME NEW w \in Works, SummaryClears(w) PROVE Threads'
  BY <1>10 DEF SummaryClears, WorkGoes, callVars, slotVars, Threads, SlotLocked, HandleKept,
     SlotFree, Working, StopTypeOK, MainTypeOK, WorkTypeOK, Works
<1>11. ASSUME NEW w \in Works, SummaryChecks(w) PROVE Threads'
  BY <1>11 DEF SummaryChecks, WorkGoes, callVars, slotVars, flagVars, Threads, SlotLocked,
     HandleKept, SlotFree, Working, StopTypeOK, MainTypeOK, WorkTypeOK, Works
<1>12. ASSUME NEW w \in Works, SummaryEnds(w) PROVE Threads'
  BY <1>12 DEF SummaryEnds, WorkGoes, callVars, slotVars, flagVars, Threads, SlotLocked,
     HandleKept, SlotFree, Working, StopTypeOK, MainTypeOK, WorkTypeOK, Works
<1>13. ASSUME NEW r \in Requests, Summarize(r) PROVE Threads'
  BY <1>13 DEF Summarize, slotVars, flagVars, Threads, SlotLocked, HandleKept, SlotFree,
     Working, StopTypeOK, MainTypeOK, WorkTypeOK, Works
<1>14. CASE SummarizeTakesSlot
  BY <1>14 DEF SummarizeTakesSlot, TakeSlot, MainGoes, flagVars, Threads, SlotLocked,
     HandleKept, SlotFree, Working, StopTypeOK, MainTypeOK, WorkTypeOK, Works
<1>15. CASE SummarizeSpawns
  <2>1. ~SlotFree /\ Joined /\ joining' = NoOne /\ slot' = mainOf /\ mainOf \in Works
    BY <1>15 DEF SummarizeSpawns, Spawn, SlotFree, MainTypeOK, Works
  <2>2. \A v \in Works : ~Working(v)
    BY <2>1, NobodyWorks
  <2>3. \A v \in Works : Working(v)' => v = mainOf
    BY <1>15, <2>2 DEF SummarizeSpawns, Spawn, Working, WorkTypeOK
  <2>4. SlotFree'
    BY <1>15 DEF SummarizeSpawns, Threads, SlotLocked, SlotFree
  <2>5. SlotLocked'
    BY <2>1, <2>4, <1>15 DEF SummarizeSpawns, Threads, SlotLocked, SlotFree
  <2> QED
    BY <2>1, <2>3, <2>5 DEF Threads, HandleKept
<1>16. CASE Exit
  BY <1>16 DEF Exit, MainGoes, slotVars, flagVars, Threads, SlotLocked, HandleKept,
     SlotFree, Working, StopTypeOK, MainTypeOK, WorkTypeOK, Works
<1>17. CASE ShutdownQuits
  BY <1>17 DEF ShutdownQuits, MainGoes, slotVars, Threads, SlotLocked, HandleKept, SlotFree,
     Working, StopTypeOK, MainTypeOK, WorkTypeOK, Works
<1>18. CASE ShutdownCancels
  BY <1>18 DEF ShutdownCancels, MainGoes, slotVars, Threads, SlotLocked, HandleKept,
     SlotFree, Working, StopTypeOK, MainTypeOK, WorkTypeOK, Works
<1>19. CASE ShutdownTakes
  BY <1>19 DEF ShutdownTakes, Take, CurrentFree, MainGoes, slotVars, flagVars, Threads,
     SlotLocked, HandleKept, SlotFree, Working, StopTypeOK, MainTypeOK, WorkTypeOK, Works
<1>20. CASE ShutdownDrains
  BY <1>20 DEF ShutdownDrains, MainGoes, slotVars, flagVars, Threads, SlotLocked,
     HandleKept, SlotFree, Working, StopTypeOK, MainTypeOK, WorkTypeOK, Works
<1>21. CASE ShutdownTakesSlot
  BY <1>21 DEF ShutdownTakesSlot, TakeSlot, MainGoes, flagVars, Threads, SlotLocked,
     HandleKept, SlotFree, Working, StopTypeOK, MainTypeOK, WorkTypeOK, Works
<1>22. CASE ShutdownJoins
  <2>1. ~SlotFree /\ Joined /\ UNCHANGED <<slot, workAt, stopAt>> /\ joining' = NoOne
    BY <1>22 DEF ShutdownJoins, SlotFree
  <2>2. \A v \in Works : ~Working(v)
    BY <2>1, NobodyWorks
  <2>3. SlotFree'
    BY <1>22, <2>1 DEF ShutdownJoins, MainGoes, Threads, SlotLocked, SlotFree
  <2>4. SlotLocked'
    BY <2>1, <2>3, <1>22 DEF ShutdownJoins, MainGoes, Threads, SlotLocked, SlotFree
  <2> QED
    BY <2>1, <2>2, <2>4 DEF Threads, HandleKept, Working
<1>23. CASE ShutdownClears
  BY <1>23 DEF ShutdownClears, MainGoes, slotVars, flagVars, Threads, SlotLocked,
     HandleKept, SlotFree, Working, StopTypeOK, MainTypeOK, WorkTypeOK, Works
<1>24. CASE \/ \E m \in Meetings : StartInvoked(m)
            \/ \E m \in Meetings : StartLoads(m)
            \/ \E m \in Meetings : StartOpens(m)
            \/ CancelSummary
  BY <1>1, <1>24 DEF StartInvoked, slotVars, flagVars, StartLoads, StartOpens,
     CancelSummary, callVars
<1>25. ASSUME NEW m \in Meetings, StartTray(m) PROVE Threads'
  BY <1>25 DEF StartTray, TrayServed, slotVars, flagVars, Threads, SlotLocked, HandleKept,
     SlotFree, Working, StopTypeOK, MainTypeOK, WorkTypeOK, Works
<1>26. ASSUME NEW x \in Stops, StopTray(x) PROVE Threads'
  BY <1>26 DEF StopTray, TrayServed, slotVars, flagVars, Threads, SlotLocked, HandleKept,
     SlotFree, Working, StopTypeOK, MainTypeOK, WorkTypeOK, Works
<1>27. CASE Recording
  BY <1>27 DEF Recording, MainGoes, slotVars, flagVars, Threads, SlotLocked, HandleKept,
     SlotFree, Working, StopTypeOK, MainTypeOK, WorkTypeOK, Works
<1>28. CASE RecordingAnswers
  BY <1>28 DEF RecordingAnswers, CurrentFree, MainGoes, slotVars, flagVars, Threads,
     SlotLocked, HandleKept, SlotFree, Working, StopTypeOK, MainTypeOK, WorkTypeOK, Works
<1>29. QED
  BY <1>1, <1>2, <1>3, <1>4, <1>5, <1>6, <1>7, <1>8, <1>9, <1>10, <1>11, <1>12, <1>13,
     <1>14, <1>15, <1>16, <1>17, <1>18, <1>19, <1>20, <1>21, <1>22, <1>23, <1>24, <1>25,
     <1>26, <1>27, <1>28 DEF Next, UserStep, StartStep, StopStep, WorkStep, MainStep,
     vars, callVars, slotVars, flagVars

\* The flag is cleared before the quit is looked for, and set after it is made known.
LEMMA QuitsStep ==
    ASSUME WorkTypeOK, OneAtATime, Quits, [Next]_vars
    PROVE  Quits'
<1>1. CASE UNCHANGED <<mainAt, workAt, quitting, cancel>>
  BY <1>1 DEF Quits, QuitBegun, QuitIsSeen, OneAtATime, Working, WorkTypeOK
<1>2. ASSUME NEW x \in Stops, StopSpawns(x) PROVE Quits'
  BY <1>2 DEF StopSpawns, Spawn, flagVars, Quits, QuitBegun, QuitIsSeen, OneAtATime,
     Working, WorkTypeOK
<1>3. ASSUME NEW w \in Works, PassLoads(w) PROVE Quits'
  BY <1>3 DEF PassLoads, WorkGoes, callVars, slotVars, flagVars, Quits, QuitBegun,
     QuitIsSeen, OneAtATime, Working, WorkTypeOK
<1>4. ASSUME NEW w \in Works, PassEnds(w) PROVE Quits'
  BY <1>4 DEF PassEnds, WorkGoes, callVars, slotVars, flagVars, Quits, QuitBegun,
     QuitIsSeen, OneAtATime, Working, WorkTypeOK
<1>5. ASSUME NEW w \in Works, SummaryClears(w) PROVE Quits'
  BY <1>5 DEF SummaryClears, WorkGoes, callVars, slotVars, Quits, QuitBegun, QuitIsSeen,
     OneAtATime, Working, WorkTypeOK
<1>6. ASSUME NEW w \in Works, SummaryChecks(w) PROVE Quits'
  BY <1>6 DEF SummaryChecks, WorkGoes, callVars, slotVars, flagVars, Quits, QuitBegun,
     QuitIsSeen, OneAtATime, Working, WorkTypeOK
<1>7. ASSUME NEW w \in Works, SummaryEnds(w) PROVE Quits'
  BY <1>7 DEF SummaryEnds, WorkGoes, callVars, slotVars, flagVars, Quits, QuitBegun,
     QuitIsSeen, OneAtATime, Working, WorkTypeOK
<1>8. ASSUME NEW r \in Requests, Summarize(r) PROVE Quits'
  BY <1>8 DEF Summarize, slotVars, flagVars, Quits, QuitBegun, QuitIsSeen, OneAtATime,
     Working, WorkTypeOK
<1>9. CASE SummarizeTakesSlot
  BY <1>9 DEF SummarizeTakesSlot, TakeSlot, MainGoes, flagVars, Quits, QuitBegun,
     QuitIsSeen, OneAtATime, Working, WorkTypeOK
<1>10. CASE SummarizeSpawns
  BY <1>10 DEF SummarizeSpawns, Spawn, flagVars, Quits, QuitBegun, QuitIsSeen, OneAtATime,
     Working, WorkTypeOK
<1>11. CASE CancelSummary
  BY <1>11 DEF CancelSummary, callVars, slotVars, Quits, QuitBegun, QuitIsSeen, OneAtATime,
     Working, WorkTypeOK
<1>12. CASE Exit
  BY <1>12 DEF Exit, MainGoes, slotVars, flagVars, Quits, QuitBegun, QuitIsSeen, OneAtATime,
     Working, WorkTypeOK
<1>13. CASE ShutdownQuits
  BY <1>13 DEF ShutdownQuits, MainGoes, slotVars, Quits, QuitBegun, QuitIsSeen, OneAtATime,
     Working, WorkTypeOK
<1>14. CASE ShutdownCancels
  BY <1>14 DEF ShutdownCancels, MainGoes, slotVars, Quits, QuitBegun, QuitIsSeen,
     OneAtATime, Working, WorkTypeOK
<1>15. CASE ShutdownTakes
  BY <1>15 DEF ShutdownTakes, Take, CurrentFree, MainGoes, slotVars, flagVars, Quits,
     QuitBegun, QuitIsSeen, OneAtATime, Working, WorkTypeOK
<1>16. CASE ShutdownDrains
  BY <1>16 DEF ShutdownDrains, MainGoes, slotVars, flagVars, Quits, QuitBegun, QuitIsSeen,
     OneAtATime, Working, WorkTypeOK
<1>17. CASE ShutdownTakesSlot
  BY <1>17 DEF ShutdownTakesSlot, TakeSlot, MainGoes, flagVars, Quits, QuitBegun,
     QuitIsSeen, OneAtATime, Working, WorkTypeOK
<1>18. CASE ShutdownJoins
  BY <1>18 DEF ShutdownJoins, MainGoes, flagVars, Quits, QuitBegun, QuitIsSeen, OneAtATime,
     Working, WorkTypeOK
<1>19. CASE ShutdownClears
  BY <1>19 DEF ShutdownClears, MainGoes, slotVars, flagVars, Quits, QuitBegun, QuitIsSeen,
     OneAtATime, Working, WorkTypeOK
<1>20. CASE \/ \E m \in Meetings : StartInvoked(m)
            \/ \E m \in Meetings : StartLoads(m)
            \/ \E m \in Meetings : StartOpens(m)
            \/ \E x \in Stops : StopInvoked(x)
            \/ \E x \in Stops : StopTakes(x)
            \/ \E x \in Stops : StopDrains(x)
            \/ \E x \in Stops : StopEvicts(x)
            \/ \E x \in Stops : StopTakesSlot(x)
  BY <1>1, <1>20 DEF StartInvoked, slotVars, flagVars, StartLoads, StartOpens, StopInvoked,
     StopTakes, Take, StopDrains, StopEvicts, StopTakesSlot, TakeSlot
<1>21. ASSUME NEW m \in Meetings, StartTray(m) PROVE Quits'
  BY <1>21 DEF StartTray, TrayServed, slotVars, flagVars, Quits, QuitBegun, QuitIsSeen,
     OneAtATime, Working, WorkTypeOK
<1>22. ASSUME NEW x \in Stops, StopTray(x) PROVE Quits'
  BY <1>22 DEF StopTray, TrayServed, slotVars, flagVars, Quits, QuitBegun, QuitIsSeen,
     OneAtATime, Working, WorkTypeOK
<1>23. CASE Recording
  BY <1>23 DEF Recording, MainGoes, slotVars, flagVars, Quits, QuitBegun, QuitIsSeen,
     OneAtATime, Working, WorkTypeOK
<1>24. CASE RecordingAnswers
  BY <1>24 DEF RecordingAnswers, CurrentFree, MainGoes, slotVars, flagVars, Quits,
     QuitBegun, QuitIsSeen, OneAtATime, Working, WorkTypeOK
<1>25. QED
  BY <1>1, <1>2, <1>3, <1>4, <1>5, <1>6, <1>7, <1>8, <1>9, <1>10, <1>11, <1>12, <1>13,
     <1>14, <1>15, <1>16, <1>17, <1>18, <1>19, <1>20, <1>21, <1>22, <1>23, <1>24 DEF Next,
     UserStep, StartStep, StopStep, WorkStep, MainStep, vars, callVars, slotVars, flagVars

\* Every way out of a pass lets its model go.
LEMMA FinalModelStep ==
    ASSUME WorkTypeOK, Threads, OneAtATime, FinalModelOnlyInPass, [Next]_vars
    PROVE  FinalModelOnlyInPass'
<1>1. CASE UNCHANGED <<cached, workAt>>
  BY <1>1 DEF FinalModelOnlyInPass, OneAtATime, Working, WorkTypeOK
<1>2. ASSUME NEW m \in Meetings, StartLoads(m) PROVE FinalModelOnlyInPass'
  <2>1. "final" \in cached' => "final" \in cached
    BY <1>2 DEF StartLoads
  <2> QED
    BY <1>2, <2>1 DEF StartLoads, FinalModelOnlyInPass
<1>3. ASSUME NEW x \in Stops, StopEvicts(x) PROVE FinalModelOnlyInPass'
  BY <1>3 DEF StopEvicts, slotVars, flagVars, FinalModelOnlyInPass, OneAtATime, Working,
     WorkTypeOK
<1>4. ASSUME NEW x \in Stops, StopSpawns(x) PROVE FinalModelOnlyInPass'
  <2>1. ~SlotFree /\ Joined /\ UNCHANGED cached
    BY <1>4 DEF StopSpawns, Spawn, SlotFree
  <2>2. \A v \in Works : ~Working(v)
    BY <2>1, NobodyWorks
  <2> QED
    BY <2>1, <2>2 DEF FinalModelOnlyInPass, Working
<1>5. ASSUME NEW w \in Works, PassLoads(w) PROVE FinalModelOnlyInPass'
  BY <1>5 DEF PassLoads, WorkGoes, callVars, slotVars, flagVars, FinalModelOnlyInPass,
     OneAtATime, Working, WorkTypeOK
<1>6. ASSUME NEW w \in Works, PassEnds(w) PROVE FinalModelOnlyInPass'
  BY <1>6 DEF PassEnds, WorkGoes, callVars, slotVars, flagVars, FinalModelOnlyInPass,
     OneAtATime, Working, WorkTypeOK
<1>7. ASSUME NEW w \in Works, SummaryClears(w) PROVE FinalModelOnlyInPass'
  BY <1>7 DEF SummaryClears, WorkGoes, callVars, slotVars, FinalModelOnlyInPass, OneAtATime,
     Working, WorkTypeOK
<1>8. ASSUME NEW w \in Works, SummaryChecks(w) PROVE FinalModelOnlyInPass'
  BY <1>8 DEF SummaryChecks, WorkGoes, callVars, slotVars, flagVars, FinalModelOnlyInPass,
     OneAtATime, Working, WorkTypeOK
<1>9. ASSUME NEW w \in Works, SummaryEnds(w) PROVE FinalModelOnlyInPass'
  BY <1>9 DEF SummaryEnds, WorkGoes, callVars, slotVars, flagVars, FinalModelOnlyInPass,
     OneAtATime, Working, WorkTypeOK
<1>10. CASE SummarizeSpawns
  <2>1. ~SlotFree /\ Joined /\ UNCHANGED cached
    BY <1>10 DEF SummarizeSpawns, Spawn, SlotFree
  <2>2. \A v \in Works : ~Working(v)
    BY <2>1, NobodyWorks
  <2> QED
    BY <2>1, <2>2 DEF FinalModelOnlyInPass, Working
<1>11. CASE ShutdownClears
  BY <1>11 DEF ShutdownClears, MainGoes, slotVars, flagVars, FinalModelOnlyInPass,
     OneAtATime, Working, WorkTypeOK
<1>12. CASE \/ \E m \in Meetings : StartInvoked(m)
            \/ \E m \in Meetings : StartOpens(m)
            \/ \E x \in Stops : StopInvoked(x)
            \/ \E x \in Stops : StopTakes(x)
            \/ \E x \in Stops : StopDrains(x)
            \/ \E x \in Stops : StopTakesSlot(x)
            \/ \E r \in Requests : Summarize(r)
            \/ SummarizeTakesSlot
            \/ CancelSummary
            \/ Exit
            \/ ShutdownQuits
            \/ ShutdownCancels
            \/ ShutdownTakes
            \/ ShutdownDrains
            \/ ShutdownTakesSlot
            \/ ShutdownJoins
  BY <1>1, <1>12 DEF StartInvoked, slotVars, flagVars, StartOpens, StopInvoked, StopTakes,
     Take, StopDrains, StopTakesSlot, TakeSlot, Summarize, SummarizeTakesSlot, MainGoes,
     CancelSummary, callVars, Exit, ShutdownQuits, ShutdownCancels, ShutdownTakes,
     ShutdownDrains, ShutdownTakesSlot, ShutdownJoins
<1>13. ASSUME NEW m \in Meetings, StartTray(m) PROVE FinalModelOnlyInPass'
  BY <1>13 DEF StartTray, TrayServed, slotVars, flagVars, FinalModelOnlyInPass,
     OneAtATime, Working, WorkTypeOK
<1>14. ASSUME NEW x \in Stops, StopTray(x) PROVE FinalModelOnlyInPass'
  BY <1>14 DEF StopTray, TrayServed, slotVars, flagVars, FinalModelOnlyInPass, OneAtATime,
     Working, WorkTypeOK
<1>15. CASE Recording
  BY <1>15 DEF Recording, MainGoes, slotVars, flagVars, FinalModelOnlyInPass, OneAtATime,
     Working, WorkTypeOK
<1>16. CASE RecordingAnswers
  BY <1>16 DEF RecordingAnswers, CurrentFree, MainGoes, slotVars, flagVars,
     FinalModelOnlyInPass, OneAtATime, Working, WorkTypeOK
<1>17. QED
  BY <1>1, <1>2, <1>3, <1>4, <1>5, <1>6, <1>7, <1>8, <1>9, <1>10, <1>11, <1>12, <1>13,
     <1>14, <1>15, <1>16 DEF Next, UserStep, StartStep, StopStep, WorkStep, MainStep,
     vars, callVars, slotVars, flagVars

LEMMA InitInvariant ==
    ASSUME Init PROVE IInv
<1>1. TypeOK
  BY DEF Init, TypeOK, RecordingTypeOK, StopTypeOK, MainTypeOK, WorkTypeOK, FlagTypeOK,
         MeetingIs, StartAt, StopAt, MainAt, WorkAt, Models
<1>2. Recordings
  BY AppAssumption DEF Init, Recordings, RecordingIsCurrent, OneOpener, Opening,
     StartedOnce,
     Works
<1>3. Threads
  BY DEF Init, Threads, SlotLocked, HandleKept, SlotFree, Working
<1>4. Quits /\ FinalModelOnlyInPass
  BY DEF Init, Quits, QuitBegun, QuitIsSeen, FinalModelOnlyInPass
<1>5. QED
  BY <1>1, <1>2, <1>3, <1>4 DEF IInv

LEMMA StepInvariant ==
    ASSUME IInv, [Next]_vars PROVE IInv'
<1>1. RecordingTypeOK' /\ StopTypeOK' /\ MainTypeOK' /\ WorkTypeOK' /\ FlagTypeOK'
  BY RecordingTypeOKStep, StopTypeOKStep, MainTypeOKStep, WorkTypeOKStep, FlagTypeOKStep
  DEF IInv, TypeOK
<1>2. Recordings' /\ Threads'
  BY RecordingsStep, ThreadsStep DEF IInv, TypeOK
<1>3. Quits' /\ FinalModelOnlyInPass'
  BY QuitsStep, FinalModelStep, ThreadsAreOne DEF IInv, TypeOK
<1>4. QED
  BY <1>1, <1>2, <1>3 DEF IInv, TypeOK

THEOREM Invariance == Spec => []IInv
<1>1. Init => IInv
  BY InitInvariant
<1>2. IInv /\ [Next]_vars => IInv'
  BY StepInvariant
<1>3. QED
  BY <1>1, <1>2, PTL DEF Spec

\* Types, for every number of meetings and calls.
THEOREM TypeCorrect == Spec => []TypeOK
<1>1. IInv => TypeOK
  BY DEF IInv
<1>2. QED
  BY <1>1, Invariance, PTL

\* AppState.current is the one recording, whoever starts and stops at the same time.
THEOREM OneRecording == Spec => []RecordingIsCurrent
<1>1. IInv => RecordingIsCurrent
  BY DEF IInv, Recordings
<1>2. QED
  BY <1>1, Invariance, PTL

\* after_meeting runs its threads one after the other, however many calls wait in it.
THEOREM OneThread == Spec => []OneAtATime
<1>1. IInv => OneAtATime
  BY ThreadsAreOne DEF IInv
<1>2. QED
  BY <1>1, Invariance, PTL

\* shutdown's two flags reach every summary, run_summary's clearing of one included.
THEOREM QuitReachesSummary == Spec => []QuitIsSeen
<1>1. IInv => QuitIsSeen
  BY DEF IInv, Quits
<1>2. QED
  BY <1>1, Invariance, PTL

\* The large model goes with its pass.
THEOREM FinalModelLetGo == Spec => []FinalModelOnlyInPass
<1>1. IInv => FinalModelOnlyInPass
  BY DEF IInv
<1>2. QED
  BY <1>1, Invariance, PTL
=============================================================================
