------------------------------ MODULE BenchRuns ------------------------------
(* One experiment of bench/ on one machine: somebody runs its steps in any      *)
(* order and as often as they like, puts the STOP file there or takes it away,  *)
(* a run may die anywhere (the power, a signal, an error of a tool) and is then *)
(* simply started again.  BenchSteps says what a step does; here it is done,    *)
(* one look at STOP, one piece of computing, one opening and one closing of a   *)
(* file at a time.                                                               *)
EXTENDS BenchSteps, FiniteSets

CONSTANTS
    Experiments,    \* experiment |-> (step |-> the units it goes through)
    Given,          \* experiment |-> the files of other programs it starts from
    MaxStarts,      \* bound on how often a step is started
    MaxMishaps      \* bound on how often a run dies or a tool fails

Programs == Experiments     \* TLC evaluates a constant definition once

FilesOf(u) == u.markers \cup u.when \cup u.needs \cup u.takes \cup ToSet(u.outs)
Collect(F(_)) == [x \in DOMAIN Programs |->
    UNION {UNION {F(Programs[x][s][i]) : i \in DOMAIN Programs[x][s]} : s \in DOMAIN Programs[x]}]
OutsOf(kinds, u) == IF u.kind \in kinds THEN {u.outs[1]} ELSE {}
AllFiles == Collect(FilesOf)
Removed == Collect(LAMBDA u : u.unlinks)
Grids   == Collect(LAMBDA u : OutsOf({"grid"}, u))
Results == Collect(LAMBDA u : OutsOf({"published", "child"}, u))
AllResults == UNION {Results[x] : x \in DOMAIN Programs}

(* The settings registered: what each embedding's grid came to.                  *)
Setting(v) == <<"set">> \o v
IsSetting(v) == v # None /\ v[1] = "set"
AllSettings == {Setting(Whole)} \cup
               {Setting(v) : v \in [DOMAIN Embeddings -> {"first", "wide", "whole"}]}

(* What the theorems ask of a program p, a sequence of units.  The settings are    *)
(* written by one unit, behind a gate that their file closes; a result is written *)
(* first of its unit's files, whose marker it is, by a unit that has the settings *)
(* from the program's start or needs their file; nothing else writes or removes   *)
(* either.                                                                         *)
RegistersBehindGate(p) ==
    \A i \in DOMAIN p : p[i].kind = "register" =>
        /\ p[i].outs = <<Pre>> /\ p[i].gate = 0
        /\ {GridFile(e) : e \in ToSet(Embeddings)} \subseteq p[i].needs
        /\ \E j \in 1 .. i - 1 :
              /\ i <= j + p[j].gate
              /\ p[j].markers = {Pre} /\ p[j].kind = "plain" /\ p[j].fails = "ends"
              /\ \A k \in DOMAIN p : p[k].gate # 0 => k = j
        /\ \A k \in DOMAIN p : p[k].kind = "register" => k = i
PublishesWhatItRead(p) ==
    \A i \in DOMAIN p :
        /\ p[i].kind = "read" =>
              /\ p[i].outs = <<>> /\ p[i].markers = {} /\ p[i].when = {} /\ Pre \in p[i].needs
              /\ p[i].fails = "ends" /\ ~p[i].maybe
              /\ \A k \in DOMAIN p : p[k].gate = 0 /\ p[k].kind # "mode"
        /\ p[i].kind = "published" => \E j \in 1 .. i - 1 : p[j].kind = "read"
        /\ p[i].kind = "child" => Pre \in p[i].needs
        /\ p[i].kind \in {"published", "child"} =>
              /\ p[i].outs # <<>> /\ p[i].markers = {p[i].outs[1]}
              /\ p[i].polls <= 1 /\ p[i].fails # "always" /\ ~p[i].maybe
WritesItsOwn(u) ==
    /\ u.outs \in Seq(ToSet(u.outs)) /\ u.gate \in Nat /\ u.polls \in Nat
    /\ u.gate # 0 => u.outs = <<>> /\ u.when = {} /\ ~u.maybe
    /\ u.holds \cap AllResults = {}
    /\ u.unlinks \cap (AllResults \cup {Pre}) = {}
    /\ Pre \in ToSet(u.outs) => u.kind = "register"
    /\ \A n \in DOMAIN u.outs :
          u.outs[n] \in AllResults => n = 1 /\ u.kind \in {"published", "child"}
SettlesSettings(x) ==
    \E s \in DOMAIN Programs[x] : \E i \in DOMAIN Programs[x][s] :
        Programs[x][s][i].kind = "register"
(* Grids that are registered are made of nothing that was cut short.               *)
GridsAreWhole(x) ==
    SettlesSettings(x) =>
      \A s \in DOMAIN Programs[x] : \A i \in DOMAIN Programs[x][s] :
        LET u == Programs[x][s][i]
        IN  /\ u.takes = {}
            /\ (\E e \in ToSet(Embeddings) : GridFile(e) \in ToSet(u.outs))
                 => u.kind \in {"plain", "grid"}
(* What is there once the markers of a unit are, the files of what a gate spares     *)
(* included: whoever writes one of its markers writes or has read all of it.         *)
WorkOf(x) == UNION {ToSet(Programs[x][s]) : s \in DOMAIN Programs[x]}
Shown(p, i) == UNION {ToSet(p[k].outs) : k \in DOMAIN p \cap (i .. i + p[i].gate)}
Vouches(x, p, i, m) ==
    /\ m \in Given[x] => Shown(p, i) \subseteq Given[x]
    /\ \A v \in WorkOf(x) : m \in ToSet(v.outs) =>
          Shown(p, i) \subseteq ToSet(v.outs) \cup v.needs
MarkersVouch(x) ==
    \A s \in DOMAIN Programs[x] : \A i \in DOMAIN Programs[x][s] :
        LET p == Programs[x][s]
        IN  p[i].markers # {} => \E m \in p[i].markers : Vouches(x, p, i, m)

(* A result that is rescored comes with the text it is rescored from: both are given,*)
(* or written by one unit; nothing else writes or removes one of them.                *)
OneHypothesis(x) ==
    \A u \in WorkOf(x) : u.kind = "rescored" =>
        /\ u.outs # <<>> /\ u.outs[1] \in u.needs
        /\ u.needs \subseteq Given[x] \ {Pre} \/ u.needs \cap Given[x] = {}
        /\ \A v \in WorkOf(x) :
              /\ v.unlinks \cap u.needs = {}
              /\ ToSet(v.outs) \cap u.needs # {} =>
                    \/ u.needs \subseteq ToSet(v.outs)
                    \/ v.kind = "rescored" /\ v.needs = u.needs

ASSUME BenchAssumption ==
    /\ MaxStarts \in Nat /\ MaxMishaps \in Nat
    /\ Embeddings \in Seq(ToSet(Embeddings))
    /\ Pre \notin AllResults
    /\ \A x \in DOMAIN Programs :
          /\ Given[x] \cap AllResults = {}
          /\ "none" \notin DOMAIN Programs[x]
          /\ GridsAreWhole(x) /\ MarkersVouch(x) /\ OneHypothesis(x)
          /\ \A s \in DOMAIN Programs[x] :
                LET p == Programs[x][s]
                IN  /\ p \in Seq(ToSet(p))
                    /\ RegistersBehindGate(p) /\ PublishesWhatItRead(p)
                    /\ \A i \in DOMAIN p : WritesItsOwn(p[i])

VARIABLES
    experiment,     \* which programs: fixed
    files,          \* file |-> None, Part or what it holds
    run,            \* the step that runs, how far it is, what it knows from its start
                    \* (the settings, or that answers are replayed), what it writes
    widened,        \* the grid got more thresholds in the source (WIDEN)
    starts, mishaps,
    unsaved,        \* what the last run had computed and did not keep (history)
    finished        \* steps that ran to their end (history)
vars == <<experiment, files, run, widened, starts, mishaps, unsaved, finished>>
outside == <<experiment, widened, starts>>

Idle == [step |-> "none", unit |-> 1, polls |-> 0, writes |-> 0, known |-> None, content |-> None]
Running == run.step # "none"
UnitsOf(s) == Programs[experiment][s]
Units == UnitsOf(run.step)
InUnit == Running /\ run.unit <= Len(Units)
unit == Units[run.unit]

Exists(f) == files[f] # None
Complete(f) == files[f] \notin {None, Part}

Init ==
    /\ experiment \in DOMAIN Programs
    /\ files = [f \in Given[experiment] \cup AllFiles[experiment] |->
                  IF f \notin Given[experiment] THEN None
                  ELSE IF f = Pre THEN Setting(Whole) ELSE Whole]
    /\ run = Idle
    /\ widened = FALSE
    /\ starts = 0 /\ mishaps = 0
    /\ unsaved = {} /\ finished = {}

-----------------------------------------------------------------------------
(* A unit is done when its markers are there, however much of them; a saved grid *)
(* is gone through again for thresholds the source has got since.                *)
\* Slip: settings chosen before the grid got wider are chosen again.
ChoosesAgain(u) == widened /\ \E f \in u.markers : files[f] = <<"first">> \/ f = Pre

Outdated(u) == u.kind = "grid" /\ widened /\ \E f \in u.markers : files[f] = <<"first">>
Done(u) == u.markers # {} /\ (\A f \in u.markers : Exists(f)) /\ ~Outdated(u)
Absent(u) == \E f \in u.when : ~Exists(f)
Replays == run.known = <<"replay">>
Readable(u) ==
    /\ \A f \in u.needs : Complete(f)
    /\ \A f \in u.takes : Exists(f)
    /\ u.kind = "scored" /\ Replays => files[u.outs[1]] # Part

Untouched == run.polls = 0 /\ run.writes = 0
Due == InUnit /\ unit.gate = 0 /\ ~Absent(unit) /\ (Untouched => ~Done(unit))
\* Slip: a unit looks for STOP once more before it is saved.
LooksLate == Due /\ run.polls <= unit.polls

Polling == Due /\ run.polls < unit.polls
Computed == Due /\ run.polls = unit.polls

(* What is written: which thresholds a grid has (a fresh one never the added     *)
(* ones), the settings chosen or given, in which run it was measured, or that it *)
(* was made from something cut short.                                             *)
FromCut(u) == \E f \in u.needs \cup u.takes : files[f] \in {Part, Cut}
ThisRun(u) == IF FromCut(u) THEN Cut ELSE <<"run", starts>>
Timed(f) == IF ~Replays THEN <<"run", starts>> ELSE IF Exists(f) THEN files[f][2] ELSE None
Content(u) ==
    CASE u.kind = "grid"      -> IF Exists(u.outs[1]) THEN <<"wide">> ELSE <<"first">>
      [] u.kind = "register"  -> Setting([i \in DOMAIN Embeddings |-> files[GridFile(Embeddings[i])][1]])
      [] u.kind = "published" -> run.known
      [] u.kind = "child"     -> files[Pre]
      [] u.kind = "measured"  -> ThisRun(u)
      [] u.kind = "answers"   -> <<"answers", ThisRun(u), files[Transcript]>>
      [] u.kind = "scored"    -> <<"scored", Timed(u.outs[1]), files[Answers], files[Transcript]>>
      [] u.kind = "rescored"  -> IF Cardinality({files[f] : f \in u.needs}) = 1
                                 THEN files[u.outs[1]] ELSE <<"mixed">>
      [] OTHER                -> IF FromCut(u) THEN Cut ELSE Whole

NextUnit == [step |-> run.step, unit |-> run.unit + 1, polls |-> 0, writes |-> 0,
             known |-> run.known, content |-> None]
\* Slip: every program carries on after an error.
CarriesOn == NextUnit

AfterError == IF unit.fails = "goes on" THEN NextUnit ELSE Idle
Dropped == unsaved \cup unit.holds \cup IF run.polls > 0 THEN ToSet(unit.outs) ELSE {}

-----------------------------------------------------------------------------
(* The user's side: starting a step, and more thresholds in the source.          *)
Starts(s) ==
    /\ ~Running /\ starts < MaxStarts
    /\ run' = [Idle EXCEPT !.step = s]
    /\ starts' = starts + 1
    /\ unsaved' = {}
    /\ UNCHANGED <<experiment, files, widened, mishaps, finished>>

Widens ==
    /\ ~Running /\ ~widened
    /\ Grids[experiment] # {}
    /\ widened' = TRUE
    /\ UNCHANGED <<experiment, files, run, starts, mishaps, unsaved, finished>>

(* The marker is there: the unit was done.  A gate spares what it guards.        *)
Skips ==
    /\ InUnit /\ Untouched
    /\ \/ Absent(unit) \/ unit.maybe
       \/ Done(unit) /\ (unit.reads => \A f \in unit.markers : Complete(f))
    /\ run' = [NextUnit EXCEPT !.unit = @ + unit.gate]
    /\ UNCHANGED <<outside, files, mishaps, unsaved, finished>>

PassesGate ==
    /\ InUnit /\ unit.gate > 0 /\ ~Done(unit)
    /\ run' = NextUnit
    /\ UNCHANGED <<outside, files, mishaps, unsaved, finished>>

(* unit_boundary: somebody put the STOP file there, or not, and the piece of      *)
(* computing behind it.                                                           *)
Computes ==
    /\ Polling /\ Readable(unit)
    /\ run' = [run EXCEPT !.polls = @ + 1]
    /\ UNCHANGED <<outside, files, mishaps, unsaved, finished>>

Stops ==
    /\ Polling
    /\ unsaved' = Dropped
    /\ run' = Idle
    /\ UNCHANGED <<outside, files, mishaps, finished>>

(* A file that is not there or does not parse, or a name that is not bound.       *)
Raises ==
    /\ InUnit
    /\ \/ Untouched /\ Done(unit) /\ unit.reads /\ \E f \in unit.markers : ~Complete(f)
       \/ Due /\ run.writes = 0 /\ ~Readable(unit)
       \/ Computed /\ unit.fails = "always"
    /\ unsaved' = Dropped
    /\ run' = AfterError
    /\ UNCHANGED <<outside, files, mishaps, finished>>

Learnt ==
    CASE unit.kind = "read" -> files[Pre]
      [] unit.kind = "mode" -> IF Exists(Answers) THEN <<"replay">> ELSE <<"record">>
      [] OTHER              -> run.known
Loads ==
    /\ Computed /\ unit.outs = <<>> /\ Readable(unit)
    /\ run' = [NextUnit EXCEPT !.known = Learnt]
    /\ UNCHANGED <<outside, files, mishaps, unsaved, finished>>

(* Opening a file empties it; all that goes into a unit's files is known before   *)
(* the first is opened.                                                           *)
Opens ==
    /\ Computed /\ unit.outs # <<>> /\ unit.fails # "always"
    /\ run.writes % 2 = 0
    /\ run.writes = 0 => Readable(unit)
    /\ files' = [files EXCEPT ![unit.outs[run.writes \div 2 + 1]] = Part]
    /\ run' = [run EXCEPT !.writes = @ + 1, !.content = IF run.writes = 0 THEN Content(unit) ELSE @]
    /\ UNCHANGED <<outside, mishaps, unsaved, finished>>

Closes ==
    /\ Computed /\ run.writes % 2 = 1
    /\ LET n == run.writes \div 2 + 1
           last == n = Len(unit.outs)
       IN  /\ run' = IF last THEN NextUnit ELSE [run EXCEPT !.writes = @ + 1]
           /\ \E gone \in IF last THEN SUBSET unit.unlinks ELSE {{}} :
                files' = [f \in DOMAIN files |-> IF f \in gone THEN None
                                                 ELSE IF f = unit.outs[n] THEN run.content ELSE files[f]]
    /\ UNCHANGED <<outside, mishaps, unsaved, finished>>

Ends ==
    /\ Running /\ run.unit > Len(Units)
    /\ finished' = finished \cup {run.step}
    /\ run' = Idle
    /\ UNCHANGED <<outside, files, mishaps, unsaved>>

(* A run dies, in the middle of a file or not; a tool of its own fails, and the    *)
(* code goes on without it.                                                        *)
Dies ==
    /\ Running /\ mishaps < MaxMishaps
    /\ mishaps' = mishaps + 1
    /\ run' = Idle
    /\ UNCHANGED <<outside, files, unsaved, finished>>

ToolFails ==
    /\ Due /\ mishaps < MaxMishaps
    /\ \/ unit.fails = "goes on"
       \/ unit.fails = "left out" /\ Computed /\ run.writes = 0
    /\ mishaps' = mishaps + 1
    /\ run' = NextUnit
    /\ UNCHANGED <<outside, files, unsaved, finished>>

Next ==
    \/ \E s \in DOMAIN Programs[experiment] : Starts(s)
    \/ Widens
    \/ Skips \/ PassesGate \/ Computes \/ Stops \/ Raises \/ Loads \/ Opens \/ Closes \/ Ends
    \/ Dies \/ ToolFails

Spec == Init /\ [][Next]_vars

-----------------------------------------------------------------------------
(* The settings of the tests are written once, before any result of them; every  *)
(* result carries them and is never replaced: preregister and the units that     *)
(* publish, across stops, deaths and new thresholds, do what Registry promises.   *)
Registered(f) == IF f \in DOMAIN files /\ IsSetting(files[f]) THEN files[f] ELSE None
R == INSTANCE Registry WITH
        Settings <- AllSettings, Results <- AllResults, Nothing <- None,
        registered <- Registered(Pre), published <- [f \in AllResults |-> Registered(f)]
SettingsStay == R!Spec

(* As long as nothing dies, what is there is whole: a file is never left half     *)
(* written, a marker never stands without the files written after it, nothing is *)
(* made from a recording that was cut short, no rescored result has its times    *)
(* from one run and its error rate from another, and a step that ended has left  *)
(* all its files.  What one run dropped of the long form is no such file: it may *)
(* stay beside the result of a later one.                                         *)
Kept(f) == Complete(f) \/ f \in Removed[experiment]
UndamagedUnlessKilled ==
    mishaps = 0 =>
      /\ \A f \in DOMAIN files : /\ files[f] \notin {Cut, <<"mixed">>}
                                 /\ files[f] = Part => InUnit /\ f \in ToSet(unit.outs)
      /\ ~Running =>
           \A s \in DOMAIN Programs[experiment] : \A i \in DOMAIN UnitsOf(s) :
             LET u == UnitsOf(s)[i]
             IN  Done(u) \/ (s \in finished /\ u.fails = "ends" /\ u.when = {} /\ ~u.maybe)
                   => \A f \in ToSet(u.outs) : Kept(f)

(* A mishap spoils one file at the most, the one that was being written: the       *)
(* damage never grows by carrying on.                                               *)
OneFilePerMishap ==
    Cardinality({f \in DOMAIN files : files[f] = Part}) <= mishaps + (IF run.writes % 2 = 1 THEN 1 ELSE 0)

(* The app's summary is scored again from the answers it has, and keeps the time   *)
(* of the result it replaces.  That time is the one its answers took to be given,  *)
(* through any replays.  The transcript the score is of may be another than the    *)
(* answers are of: app_summary.py does not look (50-51).                            *)
TimesOfAnswers ==
    mishaps = 0 /\ AppResult \in DOMAIN files /\ Complete(AppResult) =>
        LET times == files[AppResult][2]
            answers == files[AppResult][3]
        IN  answers # None => answers[2] = times

DamageIsBounded == UndamagedUnlessKilled /\ OneFilePerMishap /\ TimesOfAnswers

(* What a run that was stopped by STOP has to compute again is one table (the      *)
(* tuning of one embedding, the comparison with sherpa, the grid of one embedding),*)
(* kept in memory to its end, or one whole-meeting pass of the online step, kept    *)
(* in memory while its links are scored.  The results of the 30-minute thresholds  *)
(* are the exception: they are computed, each time the step runs, and never saved  *)
(* (run_diar.py:510).                                                               *)
InMemory(f) == f[1] \in {"tune", "verify", "grid", "after"}
Unfinished30(f) == f[1] \in {"result", "rttm"} /\ Len(f) = 4 /\ f[4] = "th30"
StopLosesOneTable ==
    /\ \/ Cardinality(unsaved) <= 1 /\ \A f \in unsaved : InMemory(f)
       \/ \A f \in unsaved : Unfinished30(f)
    /\ \A f \in DOMAIN files : Unfinished30(f) => ~Exists(f)
=============================================================================
