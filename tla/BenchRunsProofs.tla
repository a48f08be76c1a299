-------------------------- MODULE BenchRunsProofs --------------------------
(* What holds for any programs that obey BenchAssumption and any number of starts *)
(* and mishaps.  BenchRuns implements Registry: the settings are written down once, *)
(* before any result, and no result is ever of other settings or replaced.  Damage  *)
(* is what was being written when a run died, and no stop loses a result of the     *)
(* tests.                                                                            *)
EXTENDS BenchRuns, SequenceTheorems, FiniteSetTheorems, TLAPS

GridFiles == {GridFile(e) : e \in ToSet(Embeddings)}
GridValues == {Whole, <<"first">>, <<"wide">>}
Publishes(u) == u.kind \in {"published", "child"}

(* The variables have their shape, and a run is at a step of the experiment.      *)
RunIsRecord ==
    run = [step |-> run.step, unit |-> run.unit, polls |-> run.polls, writes |-> run.writes,
           known |-> run.known, content |-> run.content]
Shape ==
    /\ experiment \in DOMAIN Programs
    /\ DOMAIN files = Given[experiment] \cup AllFiles[experiment]
    /\ files = [f \in DOMAIN files |-> files[f]]
    /\ RunIsRecord
    /\ run.step \in DOMAIN Programs[experiment] \cup {"none"}
    /\ run.unit \in Nat \ {0} /\ run.polls \in Nat /\ run.writes \in Nat
    /\ InUnit => run.writes = 0 \/ run.writes < 2 * Len(unit.outs)

(* The file of settings and the results hold settings, once they are whole.       *)
HoldSettings ==
    \A f \in DOMAIN files : f \in AllResults \cup {Pre} =>
        files[f] \in {None, Part} \cup AllSettings

(* Where settings are registered nothing is made of what was cut short, and the    *)
(* grids say which thresholds they have.                                           *)
GridsHoldGrids ==
    SettlesSettings(experiment) =>
        /\ \A f \in DOMAIN files : files[f] # Cut
        /\ run.known # Cut /\ run.content # Cut
        /\ \A f \in DOMAIN files : f \in GridFiles => files[f] \in {None, Part} \cup GridValues
        /\ InUnit /\ run.writes > 0 /\ ToSet(unit.outs) \cap GridFiles # {}
             => run.content \in GridValues

(* Behind the gate, and until they are written there, no settings were registered. *)
GateWasOpen ==
    Running => \A i, j \in DOMAIN Units :
        /\ Units[i].kind = "register" /\ Units[j].gate # 0
        /\ j < run.unit /\ run.unit <= i
        /\ ~(run.unit = i /\ run.writes > 0)
        => files[Pre] = None

(* What a run read of the settings is what is there.                               *)
ReadIsCurrent ==
    Running => \A j \in DOMAIN Units :
        Units[j].kind = "read" /\ j < run.unit
            => run.known = files[Pre] /\ files[Pre] \in AllSettings

(* What is about to be written.                                                    *)
Registering ==
    InUnit /\ unit.kind = "register" /\ run.writes > 0 =>
        files[Pre] = Part /\ run.content \in AllSettings
Publishing ==
    InUnit /\ Publishes(unit) =>
        /\ run.writes = 0 /\ run.polls > 0 => files[unit.outs[1]] = None
        /\ run.writes = 1 =>
              /\ files[unit.outs[1]] = Part
              /\ run.content = files[Pre] /\ files[Pre] \in AllSettings

(* The inductive invariant.                                                        *)
IInv ==
    /\ Shape /\ HoldSettings /\ GridsHoldGrids
    /\ GateWasOpen /\ ReadIsCurrent /\ Registering /\ Publishing

-----------------------------------------------------------------------------
(* What the assumption says of the run at hand.                                    *)

LEMMA SettingsAreSettings ==
  ASSUME NEW v \in AllSettings
  PROVE  IsSetting(v) /\ v \notin {None, Part, Cut, Whole}
<1> DEFINE Words == {"set", "first", "wide", "whole"}
<1>1. ASSUME NEW w \in Seq(Words)
      PROVE  /\ IsSetting(Setting(w)) /\ Setting(w) \notin {None, Part, Cut, Whole}
  <2>1. <<"set">> \in Seq(Words) /\ Len(<<"set">>) = 1
    OBVIOUS
  <2>2. Setting(w) \in Seq(Words) /\ Len(Setting(w)) = 1 + Len(w) /\ Setting(w)[1] = "set"
    BY <2>1, ConcatProperties, LenProperties DEF Setting
  <2>3. Len(Setting(w)) # 0
    BY <2>2, LenProperties
  <2>4. QED
    BY <2>2, <2>3, EmptySeq DEF IsSetting, None, Part, Cut, Whole
<1>2. Whole \in Seq(Words)
  BY DEF Whole
<1>3. ASSUME NEW w \in [DOMAIN Embeddings -> {"first", "wide", "whole"}]
      PROVE  w \in Seq(Words)
  BY <1>3, BenchAssumption, LenProperties
<1>4. QED
  BY <1>1, <1>2, <1>3 DEF AllSettings

LEMMA RunObeys ==
  ASSUME Shape, Running
  PROVE  /\ DOMAIN Units = 1 .. Len(Units) /\ Len(Units) \in Nat
         /\ RegistersBehindGate(Units) /\ PublishesWhatItRead(Units)
         /\ \A i \in DOMAIN Units : WritesItsOwn(Units[i])
         /\ \A i \in DOMAIN Units : FilesOf(Units[i]) \subseteq DOMAIN files
         /\ InUnit => run.unit \in DOMAIN Units
<1>1. run.step \in DOMAIN Programs[experiment] /\ experiment \in DOMAIN Programs
  BY DEF Shape, Running
<1>2. Units = Programs[experiment][run.step]
  BY DEF Units, UnitsOf
<1>3. /\ Units \in Seq(ToSet(Units))
      /\ RegistersBehindGate(Units) /\ PublishesWhatItRead(Units)
      /\ \A i \in DOMAIN Units : WritesItsOwn(Units[i])
  BY <1>1, <1>2, BenchAssumption
<1>4. DOMAIN Units = 1 .. Len(Units) /\ Len(Units) \in Nat
  BY <1>3, LenProperties
<1>5. ASSUME NEW i \in DOMAIN Units
      PROVE  FilesOf(Units[i]) \subseteq DOMAIN files
  BY <1>1, <1>2, <1>5 DEF AllFiles, Collect, Shape
<1>6. InUnit => run.unit \in DOMAIN Units
  BY <1>4 DEF InUnit, Shape
<1>7. QED
  BY <1>3, <1>4, <1>5, <1>6

(* The unit a run is at.                                                           *)
LEMMA UnitObeys ==
  ASSUME Shape, InUnit
  PROVE  /\ unit = Units[run.unit] /\ run.unit \in DOMAIN Units
         /\ WritesItsOwn(unit) /\ FilesOf(unit) \subseteq DOMAIN files
         /\ DOMAIN unit.outs = 1 .. Len(unit.outs) /\ Len(unit.outs) \in Nat
         /\ \A n \in DOMAIN unit.outs : unit.outs[n] \in DOMAIN files /\ unit.outs[n] \in ToSet(unit.outs)
         /\ unit.gate \in Nat /\ unit.polls \in Nat
         /\ Publishes(unit) => unit.outs # <<>> /\ unit.markers = {unit.outs[1]} /\ 1 \in DOMAIN unit.outs
         /\ unit.kind = "register" => unit.outs = <<Pre>> /\ unit.gate = 0
         /\ Pre \in ToSet(unit.outs) => unit.kind = "register"
<1>1. unit = Units[run.unit] /\ run.unit \in DOMAIN Units /\ WritesItsOwn(unit)
      /\ FilesOf(unit) \subseteq DOMAIN files
  BY RunObeys DEF unit, InUnit
<1>2. DOMAIN unit.outs = 1 .. Len(unit.outs) /\ Len(unit.outs) \in Nat
  BY <1>1, LenProperties DEF WritesItsOwn
<1>3. \A n \in DOMAIN unit.outs : unit.outs[n] \in ToSet(unit.outs)
  BY DEF ToSet
<1>4. ToSet(unit.outs) \subseteq DOMAIN files
  BY <1>1 DEF FilesOf
<1>5. Publishes(unit) => unit.outs # <<>> /\ unit.markers = {unit.outs[1]}
  BY <1>1, RunObeys DEF InUnit, PublishesWhatItRead, Publishes
<1>6. unit.outs # <<>> => 1 \in DOMAIN unit.outs
  BY <1>1, <1>2, EmptySeq DEF WritesItsOwn
<1>7. unit.kind = "register" => unit.outs = <<Pre>> /\ unit.gate = 0
  BY <1>1, RunObeys DEF InUnit, RegistersBehindGate
<1>8. QED
  BY <1>1, <1>2, <1>3, <1>4, <1>5, <1>6, <1>7 DEF WritesItsOwn

LEMMA PreIsNoResult == Pre \notin AllResults
  BY BenchAssumption

LEMMA GridIsNotPre == Pre \notin GridFiles
  BY DEF GridFiles, GridFile, Pre

LEMMA InitInvariant == Init => IInv
<1> SUFFICES ASSUME Init PROVE IInv
  OBVIOUS
<1>1. Shape
  BY DEF Init, Shape, RunIsRecord, Idle, InUnit, Running
<1>2. HoldSettings
  <2>1. Given[experiment] \cap AllResults = {}
    BY BenchAssumption DEF Init
  <2>2. QED
    BY <2>1 DEF Init, HoldSettings, AllSettings
<1>3. GridsHoldGrids
  <2>1. Setting(Whole) # Cut /\ None # Cut /\ Whole # Cut
    BY SettingsAreSettings DEF AllSettings, None, Cut, Whole
  <2>2. QED
    BY <2>1, GridIsNotPre DEF Init, GridsHoldGrids, GridValues, Idle, InUnit, Running
<1>4. GateWasOpen /\ ReadIsCurrent /\ Registering /\ Publishing
  BY DEF Init, GateWasOpen, ReadIsCurrent, Registering, Publishing, Idle, InUnit, Running
<1>5. QED
  BY <1>1, <1>2, <1>3, <1>4 DEF IInv

-----------------------------------------------------------------------------
(* Steps that write nothing.                                                       *)

(* A run begins, or is over.                                                       *)
LEMMA BeginOrEnd ==
  ASSUME IInv, UNCHANGED <<experiment, files>>,
         NEW s \in DOMAIN Programs[experiment] \cup {"none"}, run' = [Idle EXCEPT !.step = s]
  PROVE  IInv'
<1>1. run' = [step |-> s, unit |-> 1, polls |-> 0, writes |-> 0, known |-> None,
              content |-> None]
  BY DEF Idle
<1>2. Shape'
  <2>1. RunIsRecord'
    BY <1>1 DEF RunIsRecord
  <2>2. QED
    BY <1>1, <2>1 DEF IInv, Shape
<1>3. HoldSettings'
  BY DEF IInv, HoldSettings
<1>4. GridsHoldGrids'
  BY <1>1 DEF IInv, GridsHoldGrids, None, Cut
<1>5. GateWasOpen' /\ ReadIsCurrent'
  <2>1. Running' => DOMAIN Units' = 1 .. Len(Units)'
    <3>1. Running' => s \in DOMAIN Programs[experiment]
      BY <1>1 DEF Running
    <3>2. Units' = Programs[experiment][s]
      BY <1>1 DEF Units, UnitsOf
    <3>3. QED
      BY <3>1, <3>2, BenchAssumption, LenProperties DEF IInv, Shape
  <2>2. QED
    BY <1>1, <2>1 DEF GateWasOpen, ReadIsCurrent
<1>6. Registering' /\ Publishing'
  BY <1>1 DEF Registering, Publishing
<1>7. QED
  BY <1>2, <1>3, <1>4, <1>5, <1>6 DEF IInv

(* A run goes on, to the next unit or over what a gate spares.                     *)
LEMMA GoesOn ==
  ASSUME IInv, InUnit, UNCHANGED <<experiment, files>>, NEW gate \in Nat, NEW registered,
         run' = [step |-> run.step, unit |-> run.unit + 1 + gate, polls |-> 0, writes |-> 0,
                 known |-> registered, content |-> None],
         gate \in {0, unit.gate},
         unit.gate # 0 /\ gate = 0 =>
             files[Pre] = None \/ ~ \E i \in DOMAIN Units : Units[i].kind = "register",
         \/ unit.kind = "read" /\ registered = files[Pre] /\ files[Pre] \in AllSettings
         \/ unit.kind # "read" /\ registered = run.known
         \/ unit.kind = "mode" /\ registered # Cut
  PROVE  IInv'
<1>1. Running /\ Running' /\ Units' = Units
  BY DEF InUnit, Running, Units, UnitsOf
<1>2. DOMAIN Units = 1 .. Len(Units) /\ Len(Units) \in Nat /\ run.unit \in Nat
  BY <1>1, RunObeys DEF IInv, Shape
<1>3. unit = Units[run.unit] /\ run.unit \in DOMAIN Units /\ unit.gate \in Nat
  BY UnitObeys DEF IInv
<1>4. Shape'
  BY DEF IInv, Shape, RunIsRecord
<1>5. HoldSettings'
  BY DEF IInv, HoldSettings
<1>6. GridsHoldGrids'
  <2>1. SettlesSettings(experiment) => registered # Cut
    BY SettingsAreSettings DEF IInv, GridsHoldGrids
  <2>2. QED
    BY <2>1 DEF IInv, GridsHoldGrids, None, Cut, SettlesSettings
<1>7. GateWasOpen'
  <2>1. SUFFICES ASSUME NEW i \in DOMAIN Units, NEW j \in DOMAIN Units,
                        Units[i].kind = "register", Units[j].gate # 0,
                        j < run'.unit, run'.unit <= i
                 PROVE  files[Pre] = None
    BY <1>1 DEF GateWasOpen
  <2>2. /\ \A k \in DOMAIN Units : Units[k].gate # 0 => k = j
        /\ i <= j + Units[j].gate
    <3>1. PICK g \in 1 .. i - 1 : /\ i <= g + Units[g].gate
                                 /\ \A k \in DOMAIN Units : Units[k].gate # 0 => k = g
      BY <1>1, <2>1, RunObeys DEF IInv, RegistersBehindGate
    <3>2. g = j
      BY <2>1, <3>1
    <3>3. QED
      BY <3>1, <3>2
  <2>3. CASE run.unit = j
    BY <1>2, <1>3, <2>1, <2>2, <2>3
  <2>4. CASE run.unit # j
    <3>1. unit.gate = 0
      BY <1>3, <2>2, <2>4
    <3>2. run'.unit = run.unit + 1
      BY <1>2, <3>1
    <3>3. j < run.unit /\ run.unit < i
      BY <1>2, <2>1, <2>4, <3>2
    <3>4. QED
      BY <1>1, <1>2, <2>1, <3>3 DEF IInv, GateWasOpen
  <2>5. QED
    BY <2>3, <2>4
<1>8. ReadIsCurrent'
  <2>1. SUFFICES ASSUME NEW j \in DOMAIN Units, Units[j].kind = "read", j < run'.unit
                 PROVE  registered = files[Pre] /\ files[Pre] \in AllSettings
    BY <1>1 DEF ReadIsCurrent
  <2>2. \A k \in DOMAIN Units : Units[k].gate = 0 /\ Units[k].kind # "mode"
    BY <1>1, <2>1, RunObeys DEF IInv, PublishesWhatItRead
  <2>3. run'.unit = run.unit + 1
    BY <1>2, <1>3, <2>2
  <2>4. CASE unit.kind = "read"
    BY <2>4
  <2>5. CASE unit.kind # "read"
    <3>1. j < run.unit
      BY <1>2, <1>3, <2>1, <2>3, <2>5
    <3>2. QED
      BY <1>1, <1>3, <2>1, <2>2, <2>5, <3>1 DEF IInv, ReadIsCurrent
  <2>6. QED
    BY <2>4, <2>5
<1>9. Registering' /\ Publishing'
  BY DEF Registering, Publishing
<1>10. QED
  BY <1>4, <1>5, <1>6, <1>7, <1>8, <1>9 DEF IInv

(* What a gate, a unit that reads and one that writes must be.                     *)
LEMMA GateOfRegister ==
  ASSUME IInv, InUnit, unit.gate # 0, \E i \in DOMAIN Units : Units[i].kind = "register"
  PROVE  unit.markers = {Pre} /\ unit.kind = "plain" /\ unit.fails = "ends"
<1>1. PICK i \in DOMAIN Units : Units[i].kind = "register"
  OBVIOUS
<1>2. PICK j \in 1 .. i - 1 :
          /\ Units[j].markers = {Pre} /\ Units[j].kind = "plain" /\ Units[j].fails = "ends"
          /\ \A k \in DOMAIN Units : Units[k].gate # 0 => k = j
  BY <1>1, RunObeys DEF IInv, InUnit, RegistersBehindGate
<1>3. run.unit \in DOMAIN Units /\ unit = Units[run.unit]
  BY UnitObeys DEF IInv
<1>4. QED
  BY <1>2, <1>3

LEMMA ReaderOfSettings ==
  ASSUME IInv, InUnit, unit.kind = "read"
  PROVE  /\ unit.outs = <<>> /\ unit.markers = {} /\ unit.when = {}
         /\ Pre \in unit.needs /\ Pre \in DOMAIN files
         /\ unit.fails = "ends" /\ unit.gate = 0 /\ ~unit.maybe
  BY UnitObeys, RunObeys DEF IInv, InUnit, PublishesWhatItRead, FilesOf

LEMMA NextUnitIs ==
  ASSUME IInv
  PROVE  NextUnit = [step |-> run.step, unit |-> run.unit + 1 + 0, polls |-> 0, writes |-> 0,
                     known |-> run.known, content |-> None]
<1>1. run.unit + 1 = run.unit + 1 + 0
  BY DEF IInv, Shape
<1>2. QED
  BY <1>1 DEF NextUnit

LEMMA QuietSteps ==
  ASSUME IInv,
         \/ \E s \in DOMAIN Programs[experiment] : Starts(s)
         \/ Widens \/ Skips \/ PassesGate \/ Computes \/ Stops \/ Raises \/ Loads
         \/ Ends \/ Dies \/ ToolFails
  PROVE  IInv' /\ UNCHANGED files
<1> USE DEF outside
<1>0. SUFFICES IInv'
  BY DEF Starts, Widens, Skips, PassesGate, Computes, Stops, Raises, Loads, Ends, Dies,
     ToolFails
<1>1. ASSUME NEW s \in DOMAIN Programs[experiment], Starts(s)
      PROVE  IInv'
  BY <1>1, BeginOrEnd DEF Starts
<1>2. ASSUME run' = Idle, UNCHANGED <<experiment, files>>
      PROVE  IInv'
  BY <1>2, BeginOrEnd DEF Idle
<1>3. CASE Widens
  BY <1>3 DEF Widens, IInv, Shape, RunIsRecord, HoldSettings, GridsHoldGrids, GateWasOpen,
     ReadIsCurrent,
     Registering, Publishing, InUnit, Running, Units, UnitsOf, unit
<1>4. ASSUME InUnit, unit.kind # "read", UNCHANGED <<experiment, files>>, run' = NextUnit,
             unit.gate # 0 => unit.fails # "ends" \/ files[Pre] = None \/
                              ~ \E i \in DOMAIN Units : Units[i].kind = "register"
      PROVE  IInv'
  BY <1>4, NextUnitIs, GoesOn, GateOfRegister
<1>5. CASE Skips
  <2>1. unit.kind # "read"
    BY <1>5, ReaderOfSettings DEF Skips, Absent, Done
  <2>2. unit.gate \in Nat /\ run.unit \in Nat
    BY <1>5, UnitObeys DEF Skips, IInv, Shape
  <2>3. run' = [step |-> run.step, unit |-> run.unit + 1 + unit.gate, polls |-> 0, writes |-> 0,
                known |-> run.known, content |-> None]
    <3>1. run' = [step |-> run.step, unit |-> (run.unit + 1 + 0) + unit.gate, polls |-> 0,
                  writes |-> 0, known |-> run.known, content |-> None]
      BY <1>5, NextUnitIs DEF Skips
    <3>2. (run.unit + 1 + 0) + unit.gate = run.unit + 1 + unit.gate
      BY <2>2
    <3>3. QED
      BY <3>1, <3>2
  <2>4. QED
    BY <1>5, <2>1, <2>2, <2>3, GoesOn DEF Skips
<1>6. CASE PassesGate
  <2>1. unit.kind # "read"
    BY <1>6, ReaderOfSettings DEF PassesGate
  <2>2. (\E i \in DOMAIN Units : Units[i].kind = "register") => files[Pre] = None
    BY <1>6, GateOfRegister DEF PassesGate, Done, Exists, Outdated
  <2>3. QED
    BY <1>4, <1>6, <2>1, <2>2 DEF PassesGate
<1>7. CASE Computes
  <2>1. InUnit /\ unit.gate = 0 /\ run.polls < unit.polls
    BY <1>7 DEF Computes, Polling, Due
  <2>2. run' = [step |-> run.step, unit |-> run.unit, polls |-> run.polls + 1,
                writes |-> run.writes, known |-> run.known,
                content |-> run.content]
    BY <1>7 DEF Computes, IInv, Shape, RunIsRecord
  <2>3. InUnit' /\ Running' /\ Running /\ Units' = Units /\ unit' = unit
    BY <1>7, <2>1, <2>2 DEF Computes, InUnit, Running, Units, UnitsOf, unit
  <2>4. Shape' /\ HoldSettings' /\ GridsHoldGrids'
    BY <1>7, <2>1, <2>2, <2>3 DEF Computes, IInv, Shape, RunIsRecord, HoldSettings,
       GridsHoldGrids
  <2>5. GateWasOpen' /\ ReadIsCurrent' /\ Registering'
    BY <1>7, <2>1, <2>2, <2>3 DEF Computes, IInv, GateWasOpen, ReadIsCurrent, Registering
  <2>6. Publishing'
    <3>1. ASSUME Publishes(unit), run.writes = 0
          PROVE  files[unit.outs[1]] = None
      <4>1. CASE run.polls = 0
        <5>1. unit.markers = {unit.outs[1]} /\ unit.kind # "grid"
          BY <2>1, <3>1, UnitObeys DEF IInv, Publishes
        <5>2. ~Done(unit)
          BY <1>7, <3>1, <4>1 DEF Computes, Polling, Due, Untouched
        <5>3. QED
          BY <5>1, <5>2 DEF Done, Exists, Outdated
      <4>2. CASE run.polls # 0
        BY <2>1, <3>1, <4>2 DEF IInv, Shape, Publishing
      <4>3. QED
        BY <4>1, <4>2
    <3>2. QED
      BY <1>7, <2>1, <2>2, <2>3, <3>1 DEF Computes, IInv, Publishing
  <2>7. QED
    BY <2>4, <2>5, <2>6 DEF IInv
<1>8. CASE Stops \/ Ends \/ Dies
  BY <1>2, <1>8 DEF Stops, Ends, Dies
<1>9. CASE Raises
  <2>1. CASE run' = Idle
    BY <1>2, <1>9, <2>1 DEF Raises
  <2>2. CASE run' = NextUnit /\ unit.fails # "ends"
    BY <1>4, <1>9, <2>2, ReaderOfSettings DEF Raises
  <2>3. QED
    BY <1>9, <2>1, <2>2 DEF Raises, AfterError
<1>10. CASE Loads
  <2>1. InUnit /\ unit.gate = 0
    BY <1>10 DEF Loads, Computed, Due
  <2>2. CASE unit.kind = "read"
    <3>1. Pre \in DOMAIN files /\ Complete(Pre)
      BY <1>10, <2>1, <2>2, ReaderOfSettings DEF Loads, Readable
    <3>2. files[Pre] \in AllSettings
      BY <3>1 DEF IInv, HoldSettings, Complete
    <3>3. run' = [step |-> run.step, unit |-> run.unit + 1 + 0, polls |-> 0, writes |-> 0,
                  known |-> files[Pre], content |-> None]
      BY <1>10, <2>1, <2>2, NextUnitIs DEF Loads, Learnt
    <3>4. UNCHANGED <<experiment, files>>
      BY <1>10 DEF Loads
    <3>5. QED
      BY <2>1, <2>2, <3>2, <3>3, <3>4, GoesOn
  <2>3. CASE unit.kind = "mode"
    <3>1. Learnt # Cut
      BY <2>3 DEF Learnt, Cut
    <3>2. run' = [step |-> run.step, unit |-> run.unit + 1 + 0, polls |-> 0, writes |-> 0,
                  known |-> Learnt, content |-> None]
      BY <1>10, NextUnitIs DEF Loads
    <3>3. UNCHANGED <<experiment, files>>
      BY <1>10 DEF Loads
    <3>4. QED
      BY <2>1, <2>3, <3>1, <3>2, <3>3, GoesOn
  <2>4. CASE unit.kind \notin {"read", "mode"}
    <3>1. run' = NextUnit
      BY <1>10, <2>4, NextUnitIs DEF Loads, Learnt
    <3>2. QED
      BY <1>4, <1>10, <2>1, <2>4, <3>1 DEF Loads
  <2>5. QED
    BY <2>2, <2>3, <2>4
<1>11. CASE ToolFails
  <2>1. InUnit /\ unit.fails # "ends" /\ unit.kind # "read"
    BY <1>11, ReaderOfSettings DEF ToolFails, Due
  <2>2. QED
    BY <1>4, <1>11, <2>1 DEF ToolFails
<1>12. QED
  BY <1>1, <1>3, <1>5, <1>6, <1>7, <1>8, <1>9, <1>10, <1>11

-----------------------------------------------------------------------------
(* What is written.                                                                *)

LEMMA UnitIsClean ==
  ASSUME Shape, InUnit, SettlesSettings(experiment)
  PROVE  /\ unit.takes = {}
         /\ ToSet(unit.outs) \cap GridFiles # {} => unit.kind \in {"plain", "grid"}
<1>1. run.step \in DOMAIN Programs[experiment] /\ experiment \in DOMAIN Programs
  BY DEF Shape, InUnit, Running
<1>2. run.unit \in DOMAIN Programs[experiment][run.step]
      /\ unit = Programs[experiment][run.step][run.unit]
  BY UnitObeys DEF Units, UnitsOf
<1>3. GridsAreWhole(experiment)
  BY <1>1, BenchAssumption
<1>4. QED
  BY <1>1, <1>2, <1>3 DEF GridsAreWhole, GridFiles

LEMMA SettingsOfGrids ==
  ASSUME IInv, InUnit, unit.kind = "register", Readable(unit)
  PROVE  Content(unit) \in AllSettings
<1> DEFINE v == [i \in DOMAIN Embeddings |-> files[GridFile(Embeddings[i])][1]]
<1>1. GridFiles \subseteq unit.needs
  BY UnitObeys, RunObeys DEF IInv, InUnit, RegistersBehindGate, GridFiles
<1>2. SettlesSettings(experiment)
  BY UnitObeys DEF IInv, Shape, InUnit, Running, Units, UnitsOf, SettlesSettings
<1>3. ASSUME NEW i \in DOMAIN Embeddings
      PROVE  v[i] \in {"first", "wide", "whole"}
  <2>1. GridFile(Embeddings[i]) \in GridFiles
    BY DEF GridFiles, ToSet
  <2>2. GridFile(Embeddings[i]) \in DOMAIN files /\ Complete(GridFile(Embeddings[i]))
    BY <1>1, <2>1, UnitObeys DEF IInv, FilesOf, Readable
  <2>3. files[GridFile(Embeddings[i])] \in GridValues
    BY <1>2, <2>1, <2>2 DEF IInv, GridsHoldGrids, Complete
  <2>4. \A x \in GridValues : x[1] \in {"first", "wide", "whole"}
    BY DEF GridValues, Whole
  <2>5. QED
    BY <2>3, <2>4
<1>4. v \in [DOMAIN Embeddings -> {"first", "wide", "whole"}]
  BY <1>3
<1>5. Content(unit) = Setting(v)
  BY DEF Content
<1>6. QED
  BY <1>4, <1>5 DEF AllSettings

LEMMA ResultsOfSettings ==
  ASSUME IInv, InUnit, Publishes(unit), Readable(unit)
  PROVE  Content(unit) = files[Pre] /\ files[Pre] \in AllSettings
<1>1. CASE unit.kind = "published"
  <2>1. PICK j \in 1 .. run.unit - 1 : Units[j].kind = "read"
    BY <1>1, UnitObeys, RunObeys DEF IInv, InUnit, PublishesWhatItRead
  <2>2. j \in DOMAIN Units /\ j < run.unit
    BY <2>1, UnitObeys, RunObeys DEF IInv, InUnit
  <2>3. run.known = files[Pre] /\ files[Pre] \in AllSettings
    BY <2>1, <2>2 DEF IInv, ReadIsCurrent, InUnit
  <2>4. QED
    BY <1>1, <2>3 DEF Content
<1>2. CASE unit.kind = "child"
  <2>1. Pre \in unit.needs
    BY <1>2, UnitObeys, RunObeys DEF IInv, InUnit, PublishesWhatItRead
  <2>2. Pre \in DOMAIN files /\ Complete(Pre)
    BY <2>1, UnitObeys DEF IInv, FilesOf, Readable
  <2>3. QED
    BY <1>2, <2>2 DEF Content, IInv, HoldSettings, Complete
<1>3. QED
  BY <1>1, <1>2 DEF Publishes

LEMMA NothingIsCut ==
  ASSUME IInv, InUnit, Readable(unit), unit.outs # <<>>, SettlesSettings(experiment)
  PROVE  /\ Content(unit) # Cut
         /\ ToSet(unit.outs) \cap GridFiles # {} => Content(unit) \in GridValues
<1>1. CASE unit.kind = "grid"
  BY <1>1 DEF Content, Cut, GridValues
<1>2. CASE unit.kind = "register"
  BY <1>2, SettingsOfGrids, SettingsAreSettings, UnitIsClean DEF IInv
<1>3. CASE Publishes(unit)
  BY <1>3, ResultsOfSettings, SettingsAreSettings, UnitIsClean DEF IInv, Publishes
<1>4. CASE unit.kind \in {"measured", "answers", "scored"}
  <2>1. unit.takes = {} /\ unit.needs \subseteq DOMAIN files
    BY UnitIsClean, UnitObeys DEF IInv, FilesOf
  <2>2. ~FromCut(unit)
    BY <2>1 DEF FromCut, Readable, Complete, IInv, GridsHoldGrids
  <2>3. <<"run", starts>> # Cut /\ (\A x, y : <<"answers", x, y>> # Cut)
        /\ \A x, y, z : <<"scored", x, y, z>> # Cut
    BY DEF Cut
  <2>4. Content(unit) # Cut
    BY <1>4, <2>2, <2>3 DEF Content, ThisRun
  <2>5. QED
    BY <1>4, <2>4, UnitIsClean DEF IInv
<1>5. CASE unit.kind = "rescored"
  <2>1. unit.outs[1] \in DOMAIN files
    BY UnitObeys, EmptySeq DEF IInv, WritesItsOwn
  <2>2. files[unit.outs[1]] # Cut /\ <<"mixed">> # Cut
    BY <2>1 DEF IInv, GridsHoldGrids, Cut
  <2>3. QED
    BY <1>5, <2>2, UnitIsClean DEF IInv, Content
<1>6. CASE unit.kind \notin {"grid", "register", "published", "child", "measured",
                            "answers", "scored", "rescored"}
  <2>1. unit.takes = {} /\ unit.needs \subseteq DOMAIN files
    BY UnitIsClean, UnitObeys DEF IInv, FilesOf
  <2>2. ~FromCut(unit)
    BY <2>1 DEF FromCut, Readable, Complete, IInv, GridsHoldGrids
  <2>3. Content(unit) = Whole
    BY <1>6, <2>2 DEF Content
  <2>4. QED
    BY <2>3 DEF Whole, Cut, GridValues
<1>7. QED
  BY <1>1, <1>2, <1>3, <1>4, <1>5, <1>6 DEF Publishes

(* The file of a unit that is being opened or closed.                              *)
Writing == run.writes \div 2 + 1

LEMMA Halves ==
  ASSUME IInv, InUnit, unit.outs # <<>>
  PROVE  /\ Writing \in DOMAIN unit.outs
         /\ run.writes = 0 => Writing = 1
         /\ run.writes = 1 => Writing = 1
         /\ run.writes > 1 => Writing > 1
         /\ run.writes % 2 = 1 => run.writes + 1 = 2 * Writing
<1>1. Len(unit.outs) \in Nat \ {0} /\ DOMAIN unit.outs = 1 .. Len(unit.outs)
  BY UnitObeys, EmptySeq DEF IInv, WritesItsOwn
<1>2. run.writes \in Nat /\ run.writes < 2 * Len(unit.outs)
  BY <1>1 DEF IInv, Shape
<1>3. QED
  BY <1>1, <1>2 DEF Writing

LEMMA WhatIsWritten ==
  ASSUME IInv, InUnit, unit.outs # <<>>
  PROVE  /\ unit.outs[Writing] \in DOMAIN files
         /\ unit.outs[Writing] = Pre => unit.kind = "register" /\ run.writes \in {0, 1}
         /\ unit.outs[Writing] \in AllResults => Publishes(unit) /\ run.writes \in {0, 1}
         /\ unit.kind = "register" => unit.outs[Writing] = Pre /\ run.writes \in {0, 1}
<1>1. Writing \in DOMAIN unit.outs
  BY Halves
<1>2. run.writes \in Nat /\ (run.writes > 1 => Writing > 1)
  BY Halves DEF IInv, Shape
<1>3. unit.kind = "register" => unit.outs = <<Pre>> /\ Writing = 1
  BY <1>1, UnitObeys DEF IInv
<1>4. unit.outs[Writing] = Pre => unit.kind = "register"
  BY <1>1, UnitObeys DEF IInv
<1>5. unit.outs[Writing] \in AllResults => Writing = 1 /\ Publishes(unit)
  BY <1>1, UnitObeys DEF IInv, WritesItsOwn, Publishes
<1>6. QED
  BY <1>1, <1>2, <1>3, <1>4, <1>5, UnitObeys DEF IInv

LEMMA OpensStep ==
  ASSUME IInv, Opens
  PROVE  /\ IInv'
         /\ unit.outs[Writing] = Pre => files[Pre] = None
         /\ unit.outs[Writing] \in AllResults => files[unit.outs[Writing]] = None
<1> DEFINE f == unit.outs[Writing]
           content == IF run.writes = 0 THEN Content(unit) ELSE run.content
<1>1. /\ InUnit /\ unit.gate = 0 /\ run.polls = unit.polls /\ unit.outs # <<>>
      /\ run.writes % 2 = 0 /\ (run.writes = 0 => Readable(unit))
      /\ files' = [files EXCEPT ![f] = Part] /\ UNCHANGED experiment
      /\ run.writes = 0 /\ run.polls = 0 => ~Done(unit)
  BY DEF Opens, Computed, Due, Untouched, Writing, outside
<1>2. run' = [step |-> run.step, unit |-> run.unit, polls |-> run.polls,
              writes |-> run.writes + 1, known |-> run.known,
              content |-> content]
  BY DEF Opens, IInv, Shape, RunIsRecord
<1>3. InUnit' /\ Running' /\ Running /\ Units' = Units /\ unit' = unit
  BY <1>1, <1>2 DEF InUnit, Running, Units, UnitsOf, unit
<1>4. /\ f \in DOMAIN files
      /\ f = Pre => unit.kind = "register" /\ run.writes = 0
      /\ f \in AllResults => Publishes(unit) /\ run.writes = 0
      /\ unit.kind = "register" => f = Pre /\ run.writes = 0
      /\ run.writes \in Nat /\ run.polls \in Nat
  BY <1>1, WhatIsWritten DEF IInv, Shape
<1>5. run.writes = 0 => Writing = 1
  BY <1>1, Halves
<1>6. run.writes + 1 < 2 * Len(unit.outs)
  <2>1. Writing \in DOMAIN unit.outs /\ DOMAIN unit.outs = 1 .. Len(unit.outs) /\ Len(unit.outs) \in Nat
    BY <1>1, Halves, UnitObeys DEF IInv
  <2>2. QED
    BY <1>1, <1>4, <2>1 DEF Writing
<1>7. \A g \in DOMAIN files : files'[g] = IF g = f THEN Part ELSE files[g]
  BY <1>1, <1>4
<1>8. DOMAIN files' = DOMAIN files /\ files' = [g \in DOMAIN files' |-> files'[g]]
  BY <1>1 DEF IInv, Shape
<1>9. Shape'
  <2>1. RunIsRecord'
    BY <1>2 DEF RunIsRecord
  <2>2. QED
    BY <1>1, <1>2, <1>3, <1>4, <1>6, <1>8, <2>1 DEF IInv, Shape
<1>10. HoldSettings'
  BY <1>7, <1>8 DEF IInv, HoldSettings
<1>11. GridsHoldGrids'
  <2>1. SUFFICES ASSUME SettlesSettings(experiment)
                 PROVE  /\ \A g \in DOMAIN files : files'[g] # Cut
                        /\ run.known # Cut /\ content # Cut
                        /\ \A g \in DOMAIN files : g \in GridFiles => files'[g] \in {None, Part} \cup GridValues
                        /\ ToSet(unit.outs) \cap GridFiles # {} => content \in GridValues
    BY <1>1, <1>2, <1>3, <1>8 DEF GridsHoldGrids, SettlesSettings
  <2>2. /\ content # Cut
        /\ ToSet(unit.outs) \cap GridFiles # {} => content \in GridValues
    BY <1>1, <1>4, <2>1, NothingIsCut DEF IInv, GridsHoldGrids
  <2>3. Part # Cut
    BY DEF Part, Cut
  <2>4. QED
    BY <1>7, <2>1, <2>2, <2>3 DEF IInv, GridsHoldGrids
<1>12. GateWasOpen' /\ ReadIsCurrent' /\ (f = Pre => files[Pre] = None)
  <2>1. CASE f = Pre
    <3>1. unit.kind = "register" /\ run.writes = 0 /\ run.unit \in DOMAIN Units
          /\ unit = Units[run.unit]
      BY <1>1, <1>4, <2>1, UnitObeys DEF IInv
    <3>2. PICK j \in 1 .. run.unit - 1 : run.unit <= j + Units[j].gate
      BY <1>3, <3>1, RunObeys DEF IInv, RegistersBehindGate
    <3>3. /\ j \in DOMAIN Units /\ j < run.unit /\ run.unit \in Nat
          /\ DOMAIN Units = 1 .. Len(Units) /\ Len(Units) \in Nat
      BY <1>3, <3>1, <3>2, RunObeys DEF IInv
    <3>4. Units[j].gate # 0
      BY <3>2, <3>3
    <3>5. files[Pre] = None
      BY <1>3, <3>1, <3>3, <3>4 DEF IInv, GateWasOpen
    <3>6. \A i \in DOMAIN Units : Units[i].kind = "register" => i = run.unit
      BY <1>3, <3>1, RunObeys DEF IInv, RegistersBehindGate
    <3>7. GateWasOpen'
      BY <1>2, <1>3, <3>1, <3>6 DEF GateWasOpen
    <3>8. \A i \in DOMAIN Units : Units[i].kind # "read"
      BY <1>3, <3>3, <3>4, RunObeys DEF IInv, PublishesWhatItRead
    <3>9. ReadIsCurrent'
      BY <1>3, <3>8 DEF ReadIsCurrent
    <3>10. QED
      BY <3>5, <3>7, <3>9
  <2>2. CASE f # Pre
    <3>1. files'[Pre] = files[Pre]
      BY <1>1, <2>2 DEF IInv, Shape
    <3>2. GateWasOpen'
      <4>1. SUFFICES ASSUME NEW i \in DOMAIN Units, NEW j \in DOMAIN Units,
                            Units[i].kind = "register", Units[j].gate # 0,
                            j < run.unit, run.unit <= i, run.unit # i
                     PROVE  files[Pre] = None
        BY <1>2, <1>3, <1>4, <3>1 DEF GateWasOpen
      <4>2. QED
        BY <1>3, <4>1 DEF IInv, GateWasOpen
    <3>3. ReadIsCurrent'
      BY <1>2, <1>3, <3>1 DEF IInv, ReadIsCurrent
    <3>4. QED
      BY <2>2, <3>2, <3>3
  <2>3. QED
    BY <2>1, <2>2
<1>13. Registering'
  <2>1. SUFFICES ASSUME unit.kind = "register"
                 PROVE  files'[Pre] = Part /\ content \in AllSettings
    BY <1>2, <1>3 DEF Registering
  <2>2. QED
    BY <1>1, <1>4, <1>7, <2>1, SettingsOfGrids
<1>14. Publishing' /\ (f \in AllResults => files[f] = None)
  <2>1. CASE Publishes(unit) /\ run.writes = 0
    <3>1. f = unit.outs[1] /\ unit.markers = {unit.outs[1]} /\ unit.kind # "grid"
      BY <1>1, <1>5, <2>1, UnitObeys DEF IInv, Publishes
    <3>2. files[f] = None
      <4>1. CASE run.polls = 0
        BY <1>1, <2>1, <3>1, <4>1 DEF Done, Exists, Outdated
      <4>2. CASE run.polls # 0
        BY <1>1, <1>4, <2>1, <3>1, <4>2 DEF IInv, Publishing
      <4>3. QED
        BY <4>1, <4>2
    <3>3. f # Pre
      BY <1>4, <2>1 DEF Publishes
    <3>4. content = files[Pre] /\ files[Pre] \in AllSettings /\ files'[Pre] = files[Pre]
      BY <1>1, <2>1, <3>3, ResultsOfSettings DEF IInv, Shape
    <3>5. files'[f] = Part
      BY <1>4, <1>7
    <3>6. QED
      BY <1>2, <1>3, <2>1, <3>1, <3>2, <3>4, <3>5 DEF Publishing
  <2>2. CASE ~(Publishes(unit) /\ run.writes = 0)
    <3>1. f \notin AllResults
      BY <1>4, <2>2
    <3>2. Publishing'
      BY <1>2, <1>3, <1>4, <2>2 DEF Publishing, Publishes
    <3>3. QED
      BY <3>1, <3>2
  <2>3. QED
    BY <2>1, <2>2
<1>15. QED
  BY <1>9, <1>10, <1>11, <1>12, <1>13, <1>14 DEF IInv

LEMMA ClosesStep ==
  ASSUME IInv, Closes
  PROVE  /\ IInv'
         /\ unit.outs[Writing] \in DOMAIN files
         /\ DOMAIN files' = DOMAIN files
         /\ \A g \in DOMAIN files :
               g \in AllResults \cup {Pre} =>
                 files'[g] = IF g = unit.outs[Writing] THEN run.content ELSE files[g]
         /\ unit.outs[Writing] = Pre =>
               files[Pre] = Part /\ run.content \in AllSettings
         /\ unit.outs[Writing] \in AllResults =>
               /\ files[unit.outs[Writing]] = Part
               /\ run.content = files[Pre] /\ files[Pre] \in AllSettings
               /\ Pre \in DOMAIN files
<1> DEFINE f == unit.outs[Writing]
           last == Writing = Len(unit.outs)
<1>1. PICK gone \in SUBSET unit.unlinks :
          files' = [g \in DOMAIN files |-> IF g \in gone THEN None
                                           ELSE IF g = f THEN run.content ELSE files[g]]
  BY DEF Closes, Writing
<1>2. /\ InUnit /\ unit.gate = 0 /\ run.writes % 2 = 1 /\ UNCHANGED experiment
      /\ run' = IF last THEN NextUnit ELSE [run EXCEPT !.writes = @ + 1]
  BY DEF Closes, Computed, Due, Writing, outside
<1>3. run.writes \in Nat /\ run.writes > 0 /\ unit.outs # <<>>
  <2>1. run.writes \in Nat /\ run.writes > 0
    BY <1>2 DEF IInv, Shape
  <2>2. run.writes < 2 * Len(unit.outs)
    BY <1>2, <2>1 DEF IInv, Shape
  <2>3. QED
    BY <2>1, <2>2, EmptySeq
<1>4. /\ Writing \in DOMAIN unit.outs /\ DOMAIN unit.outs = 1 .. Len(unit.outs)
      /\ Len(unit.outs) \in Nat /\ run.writes + 1 = 2 * Writing
      /\ f \in ToSet(unit.outs)
  BY <1>2, <1>3, Halves, UnitObeys DEF IInv
<1>5. /\ f \in DOMAIN files
      /\ f = Pre => unit.kind = "register" /\ run.writes = 1
      /\ f \in AllResults => Publishes(unit) /\ run.writes = 1
      /\ unit.kind = "register" => f = Pre /\ run.writes = 1
  BY <1>2, <1>3, WhatIsWritten
<1>6. f = Pre => files[Pre] = Part /\ run.content \in AllSettings
  BY <1>2, <1>3, <1>5 DEF IInv, Registering
<1>7. f \in AllResults => /\ files[f] = Part /\ Pre \in DOMAIN files
                           /\ run.content = files[Pre] /\ files[Pre] \in AllSettings
  <2>1. SUFFICES ASSUME f \in AllResults
                 PROVE  /\ files[f] = Part /\ Pre \in DOMAIN files
                        /\ run.content = files[Pre] /\ files[Pre] \in AllSettings
    OBVIOUS
  <2>2. f = unit.outs[1] /\ Publishes(unit) /\ run.writes = 1
    BY <1>2, <1>3, <1>5, <2>1, Halves
  <2>3. Pre \in DOMAIN files
    <3>1. run.unit \in DOMAIN Units /\ unit = Units[run.unit]
          /\ DOMAIN Units = 1 .. Len(Units) /\ Len(Units) \in Nat
      BY <1>2, UnitObeys, RunObeys DEF IInv, InUnit
    <3>2. PICK i \in DOMAIN Units : Pre \in Units[i].needs
      <4>1. CASE unit.kind = "published"
        <5>1. PICK j \in 1 .. run.unit - 1 : Units[j].kind = "read"
          BY <1>2, <3>1, <4>1, RunObeys DEF IInv, InUnit, PublishesWhatItRead
        <5>2. j \in DOMAIN Units
          BY <3>1, <5>1
        <5>3. QED
          BY <1>2, <5>1, <5>2, RunObeys DEF IInv, InUnit, PublishesWhatItRead
      <4>2. CASE unit.kind = "child"
        BY <1>2, <3>1, <4>2, RunObeys DEF IInv, InUnit, PublishesWhatItRead
      <4>3. QED
        BY <2>2, <4>1, <4>2 DEF Publishes
    <3>3. QED
      BY <1>2, <3>2, RunObeys DEF IInv, InUnit, FilesOf
  <2>4. QED
    BY <1>2, <2>2, <2>3 DEF IInv, Publishing
<1>8. gone \cap (AllResults \cup {Pre}) = {}
  BY <1>1, <1>2, UnitObeys DEF IInv, WritesItsOwn
<1>9. DOMAIN files' = DOMAIN files /\ files' = [g \in DOMAIN files' |-> files'[g]]
  BY <1>1
<1>10. \A g \in DOMAIN files : g \in AllResults \cup {Pre} =>
           files'[g] = IF g = f THEN run.content ELSE files[g]
  BY <1>1, <1>8
<1>11. \A g \in DOMAIN files : \/ files'[g] = None \/ files'[g] = files[g]
                               \/ g = f /\ files'[g] = run.content
  BY <1>1
<1>12. /\ run'.step = run.step /\ run'.polls \in Nat /\ run'.known = run.known
       /\ run'.content \in {None, run.content}
       /\ last => run'.unit = run.unit + 1 /\ run'.writes = 0 /\ run'.polls = 0
       /\ ~last => run'.unit = run.unit /\ run'.writes = 2 * Writing
       /\ run'.writes \in Nat /\ run'.unit \in Nat \ {0}
       /\ RunIsRecord'
  <2>1. run.unit \in Nat \ {0} /\ run.polls \in Nat
    BY DEF IInv, Shape
  <2>2. CASE last
    BY <1>2, <2>1, <2>2 DEF RunIsRecord, NextUnit
  <2>3. CASE ~last
    <3>1. run' = [step |-> run.step, unit |-> run.unit, polls |-> run.polls,
                  writes |-> run.writes + 1, known |-> run.known,
                  content |-> run.content]
      BY <1>2, <2>3 DEF IInv, Shape, RunIsRecord
    <3>2. QED
      BY <1>3, <1>4, <2>1, <2>3, <3>1 DEF RunIsRecord
  <2>4. QED
    BY <2>2, <2>3
<1>13. Running /\ Running' /\ Units' = Units /\ (~last => unit' = unit)
  BY <1>2, <1>12 DEF InUnit, Running, Units, UnitsOf, unit
<1>14. Shape'
  BY <1>2, <1>4, <1>9, <1>12, <1>13 DEF IInv, Shape
<1>15. HoldSettings'
  BY <1>6, <1>7, <1>9, <1>10 DEF IInv, HoldSettings
<1>16. GridsHoldGrids'
  <2>1. SUFFICES ASSUME SettlesSettings(experiment)
                 PROVE  /\ \A g \in DOMAIN files : files'[g] # Cut
                        /\ run'.known # Cut /\ run'.content # Cut
                        /\ \A g \in DOMAIN files : g \in GridFiles => files'[g] \in {None, Part} \cup GridValues
                        /\ InUnit' /\ run'.writes > 0 /\ ToSet(unit'.outs) \cap GridFiles # {}
                             => run'.content \in GridValues
    BY <1>2, <1>9 DEF GridsHoldGrids, SettlesSettings
  <2>2. /\ run.content # Cut /\ None # Cut
        /\ ToSet(unit.outs) \cap GridFiles # {} => run.content \in GridValues
    BY <1>2, <1>3, <2>1 DEF IInv, GridsHoldGrids, None, Cut
  <2>3. ~last => run'.content = run.content
    BY <1>2 DEF IInv, Shape, RunIsRecord
  <2>4. \A g \in DOMAIN files : files'[g] # Cut
    BY <1>11, <2>1, <2>2 DEF IInv, GridsHoldGrids
  <2>5. \A g \in DOMAIN files : g \in GridFiles => files'[g] \in {None, Part} \cup GridValues
    BY <1>4, <1>11, <2>1, <2>2 DEF IInv, GridsHoldGrids
  <2>6. QED
    BY <1>12, <1>13, <2>1, <2>2, <2>3, <2>4, <2>5 DEF IInv, GridsHoldGrids
<1>17. GateWasOpen' /\ ReadIsCurrent'
  <2>1. run.unit \in DOMAIN Units /\ unit = Units[run.unit] /\ run.unit \in Nat
        /\ DOMAIN Units = 1 .. Len(Units) /\ Len(Units) \in Nat
    BY <1>2, <1>13, UnitObeys, RunObeys DEF IInv
  <2>2. CASE f = Pre
    <3>1. unit.kind = "register" /\ last
      <4>1. unit.kind = "register" /\ unit.outs = <<Pre>> /\ Len(<<Pre>>) = 1
        BY <1>2, <1>5, <2>2, UnitObeys DEF IInv
      <4>2. QED
        BY <1>4, <4>1
    <3>2. \A i \in DOMAIN Units : Units[i].kind = "register" => i = run.unit
      BY <1>13, <2>1, <3>1, RunObeys DEF IInv, RegistersBehindGate
    <3>3. GateWasOpen'
      BY <1>12, <1>13, <2>1, <3>1, <3>2 DEF GateWasOpen
    <3>4. PICK j \in 1 .. run.unit - 1 : run.unit <= j + Units[j].gate
      BY <1>13, <2>1, <3>1, RunObeys DEF IInv, RegistersBehindGate
    <3>5. j \in DOMAIN Units /\ Units[j].gate # 0
      BY <2>1, <3>4
    <3>6. \A i \in DOMAIN Units : Units[i].kind # "read"
      BY <1>13, <3>5, RunObeys DEF IInv, PublishesWhatItRead
    <3>7. ReadIsCurrent'
      BY <1>13, <3>6 DEF ReadIsCurrent
    <3>8. QED
      BY <3>3, <3>7
  <2>3. CASE f # Pre
    <3>1. Pre \in DOMAIN files => files'[Pre] = files[Pre]
      BY <1>10, <2>3
    <3>2. GateWasOpen'
      <4>1. SUFFICES ASSUME NEW i \in DOMAIN Units, NEW j \in DOMAIN Units,
                            Units[i].kind = "register", Units[j].gate # 0,
                            j < run'.unit, run'.unit <= i
                     PROVE  files'[Pre] = None
        BY <1>13 DEF GateWasOpen
      <4>2. j < run.unit /\ run.unit < i
        <5>1. CASE last
          BY <1>2, <1>12, <2>1, <4>1, <5>1
        <5>2. CASE ~last
          <6>1. i # run.unit
            BY <1>5, <2>1, <2>3, <4>1
          <6>2. QED
            BY <1>12, <2>1, <4>1, <5>2, <6>1
        <5>3. QED
          BY <5>1, <5>2
      <4>3. files[Pre] = None
        BY <1>13, <2>1, <4>1, <4>2 DEF IInv, GateWasOpen
      <4>4. Units[i].outs = <<Pre>> /\ FilesOf(Units[i]) \subseteq DOMAIN files
        BY <1>13, <4>1, RunObeys DEF IInv, RegistersBehindGate
      <4>5. Pre \in DOMAIN files
        BY <4>4 DEF FilesOf, ToSet
      <4>6. QED
        BY <3>1, <4>3, <4>5
    <3>3. ReadIsCurrent'
      <4>1. SUFFICES ASSUME NEW j \in DOMAIN Units, Units[j].kind = "read", j < run'.unit
                     PROVE  run'.known = files'[Pre] /\ files'[Pre] \in AllSettings
        BY <1>13 DEF ReadIsCurrent
      <4>2. unit.kind # "read"
        BY <1>2, <1>3, ReaderOfSettings
      <4>3. j < run.unit
        BY <1>12, <2>1, <4>1, <4>2
      <4>4. Pre \in DOMAIN files
        BY <1>13, <4>1, RunObeys DEF IInv, PublishesWhatItRead, FilesOf
      <4>5. QED
        BY <1>12, <1>13, <3>1, <4>1, <4>3, <4>4 DEF IInv, ReadIsCurrent
    <3>4. QED
      BY <3>2, <3>3
  <2>4. QED
    BY <2>2, <2>3
<1>18. Registering' /\ Publishing'
  <2>1. CASE last
    BY <1>12, <2>1 DEF Registering, Publishing
  <2>2. CASE ~last
    <3>1. unit.kind # "register"
      <4>1. SUFFICES ASSUME unit.kind = "register" PROVE FALSE
        OBVIOUS
      <4>2. unit.outs = <<Pre>> /\ Len(<<Pre>>) = 1
        BY <1>2, <4>1, UnitObeys DEF IInv
      <4>3. QED
        BY <1>4, <2>2, <4>2
    <3>2. run'.writes \notin {0, 1}
      BY <1>4, <1>12, <2>2
    <3>3. QED
      BY <1>13, <2>2, <3>1, <3>2 DEF Registering, Publishing
  <2>3. QED
    BY <2>1, <2>2
<1>19. QED
  BY <1>5, <1>6, <1>7, <1>9, <1>10, <1>14, <1>15, <1>16, <1>17, <1>18 DEF IInv

LEMMA Invariant == Spec => []IInv
<1>1. IInv /\ [Next]_vars => IInv'
  <2> SUFFICES ASSUME IInv, [Next]_vars PROVE IInv'
    OBVIOUS
  <2>1. CASE Next
    BY <2>1, QuietSteps, OpensStep, ClosesStep DEF Next
  <2>2. CASE UNCHANGED vars
    BY <2>2 DEF vars, IInv, Shape, RunIsRecord, HoldSettings, GridsHoldGrids, GateWasOpen,
       ReadIsCurrent, Registering, Publishing, InUnit, Running, Units, UnitsOf, unit
  <2>3. QED
    BY <2>1, <2>2
<1>2. QED
  BY InitInvariant, <1>1, PTL DEF Spec

-----------------------------------------------------------------------------
(* Every step is one of Registry, or changes nothing it sees.                       *)

LEMMA StartsAsRegistry == Init => R!Init
<1> SUFFICES ASSUME Init PROVE R!Init
  OBVIOUS
<1>1. IInv
  BY InitInvariant
<1>2. Registered(Pre) \in AllSettings \cup {None}
  BY <1>1 DEF IInv, HoldSettings, Registered, IsSetting, Part
<1>3. \A f \in AllResults : f \in DOMAIN files => files[f] = None
  BY BenchAssumption DEF Init
<1>4. \A f \in AllResults : Registered(f) = None
  BY <1>3 DEF Registered
<1>5. QED
  BY <1>2, <1>4 DEF R!Init

(* Opening a file that held nothing shows Registry nothing.                          *)
LEMMA OpensUnseen ==
  ASSUME IInv, Opens, NEW g \in AllResults \cup {Pre}
  PROVE  Registered(g)' = Registered(g)
<1> DEFINE f == unit.outs[Writing]
<1>1. files' = [files EXCEPT ![f] = Part] /\ DOMAIN files' = DOMAIN files
  BY DEF Opens, Writing
<1>2. CASE g = f
  <2>1. files[g] = None
    BY <1>2, OpensStep
  <2>2. g \in DOMAIN files => files'[g] = Part
    BY <1>1, <1>2
  <2>3. ~IsSetting(Part) /\ ~IsSetting(None)
    BY DEF IsSetting, Part, None
  <2>4. QED
    BY <1>1, <2>1, <2>2, <2>3 DEF Registered
<1>3. CASE g # f
  BY <1>1, <1>3 DEF Registered
<1>4. QED
  BY <1>2, <1>3

(* Closing one writes the settings down, or publishes a result of them.              *)
LEMMA ClosesAsRegistry ==
  ASSUME IInv, Closes
  PROVE  R!Next \/ UNCHANGED <<Registered(Pre), [f \in AllResults |-> Registered(f)]>>
<1> DEFINE f == unit.outs[Writing]
<1>1. \A g \in AllResults \cup {Pre} : g # f => Registered(g)' = Registered(g)
  BY ClosesStep DEF Registered
<1>2. ~IsSetting(Part) /\ ~IsSetting(None)
  BY DEF IsSetting, Part, None
<1>3. CASE f = Pre
  <2>1. Registered(Pre) = None /\ Registered(Pre)' = run.content /\ run.content \in AllSettings
    BY <1>2, <1>3, ClosesStep, SettingsAreSettings DEF Registered
  <2>2. \A g \in AllResults : Registered(g)' = Registered(g)
    BY <1>1, <1>3, PreIsNoResult
  <2>3. R!Register
    BY <2>1, <2>2 DEF R!Register
  <2>4. QED
    BY <2>3 DEF R!Next
<1>4. CASE f \in AllResults
  <2> PICK g \in AllResults : g = f
    BY <1>4
  <2>1. Registered(g) = None /\ Registered(g)' = files[Pre] /\ files[Pre] \in AllSettings
    BY <1>2, <1>4, ClosesStep, SettingsAreSettings DEF Registered
  <2>2. Pre \in DOMAIN files
    BY <1>4, ClosesStep
  <2>3. Registered(Pre) = files[Pre] /\ Registered(Pre) # None
    BY <2>1, <2>2, SettingsAreSettings DEF Registered
  <2>4. Registered(Pre)' = Registered(Pre) /\ Pre # g
    BY <1>1, PreIsNoResult
  <2>5. \A h \in AllResults : Registered(h)' = IF h = g THEN Registered(Pre) ELSE Registered(h)
    BY <1>1, <2>1, <2>3
  <2>6. R!Publish(g)
    BY <2>1, <2>3, <2>4, <2>5 DEF R!Publish
  <2>7. QED
    BY <2>6 DEF R!Next
<1>5. CASE f \notin AllResults \cup {Pre}
  BY <1>1, <1>5
<1>6. QED
  BY <1>3, <1>4, <1>5

(* SettingsStay: preregister and the units that publish keep the promise of         *)
(* Registry, whatever is stopped, killed and started again.                          *)
THEOREM SettingsAreKept == Spec => SettingsStay
<1>1. IInv /\ [Next]_vars => [R!Next]_(R!vars)
  <2> SUFFICES ASSUME IInv, [Next]_vars PROVE [R!Next]_(R!vars)
    OBVIOUS
  <2>1. CASE Closes
    BY <2>1, ClosesAsRegistry DEF R!vars
  <2>2. CASE Opens
    BY <2>2, OpensUnseen DEF R!vars
  <2>3. CASE UNCHANGED files
    BY <2>3 DEF R!vars, Registered
  <2>4. UNCHANGED vars => UNCHANGED files
    BY DEF vars
  <2>5. QED
    BY <2>1, <2>2, <2>3, <2>4, QuietSteps DEF Next
<1>2. QED
  BY Invariant, StartsAsRegistry, <1>1, PTL DEF Spec, SettingsStay, R!Spec

-----------------------------------------------------------------------------
(* Damage.                                                                         *)

(* A file that is there, or that a unit removed when it was done with it.          *)
There(f) == Exists(f) \/ f \in Removed[experiment]
Parts == {f \in DOMAIN files : files[f] = Part}
Mixed == <<"mixed">>
IsOpen == run.writes % 2 = 1

(* What a run is in the middle of.                                                  *)
InWriting ==
    run.writes > 0 =>
        /\ InUnit /\ unit.gate = 0 /\ run.polls = unit.polls /\ unit.fails # "always"
        /\ run.content \notin {None, Part}
        /\ IsOpen => files[unit.outs[Writing]] = Part
StillReadable == InUnit /\ run.writes = 0 /\ run.polls > 0 => Readable(unit)

(* A mishap leaves the file that was open.                                          *)
PartsAreCounted ==
    /\ IsFiniteSet(Parts)
    /\ Cardinality(Parts) <= mishaps + (IF IsOpen THEN 1 ELSE 0)

(* While nothing died: only the open file is not whole,                              *)
PartIsOpen == \A f \in DOMAIN files : files[f] = Part => IsOpen /\ f = unit.outs[Writing]
NothingIsBad ==
    /\ \A f \in DOMAIN files : files[f] \notin {Cut, Mixed}
    /\ run.content \notin {Cut, Mixed}
(* what a unit has written so far is of one run, and what it read is there,          *)
WrittenSoFar ==
    run.writes > 0 =>
        /\ \A f \in unit.needs : There(f)
        /\ \A m \in DOMAIN unit.outs :
              2 * m - 1 <= run.writes => files[unit.outs[m]] \in {Part, run.content}
(* a result and its text are of one run, unless they are just being written,         *)
Rewrites(u) == run.writes > 0 /\ ToSet(unit.outs) \cap u.needs # {}
OfOneRun(u) ==
    /\ ~Rewrites(u) => \A f, g \in u.needs : files[f] = files[g]
    /\ Rewrites(u) => \/ u.needs \subseteq ToSet(unit.outs)
                      \/ \A f \in u.needs : files[f] \in {Part, run.content}
SameRun == \A u \in WorkOf(experiment) : u.kind = "rescored" => OfOneRun(u)
(* a marker shows the files it vouches for, unless they are being written,           *)
BeingWritten(f) == run.writes > 0 /\ f \in ToSet(unit.outs)
MarkersShow ==
    \A s \in DOMAIN Programs[experiment] : \A i \in DOMAIN UnitsOf(s) :
        \A m \in UnitsOf(s)[i].markers :
            Vouches(experiment, UnitsOf(s), i, m) /\ Exists(m) =>
                \A f \in Shown(UnitsOf(s), i) : There(f) \/ BeingWritten(f)
(* and what a run passed, or a step that ended did, has left its files.              *)
Leaves(u) == u.fails = "ends" /\ u.when = {} /\ ~u.maybe => \A f \in ToSet(u.outs) : There(f)
PassedLeave == Running => \A i \in DOMAIN Units : i < run.unit => Leaves(Units[i])
FinishedLeave ==
    \A s \in finished \cap DOMAIN Programs[experiment] : \A i \in DOMAIN UnitsOf(s) :
        Leaves(UnitsOf(s)[i])

Undamaged ==
    mishaps = 0 =>
        /\ PartIsOpen /\ NothingIsBad /\ WrittenSoFar /\ SameRun /\ MarkersShow
        /\ PassedLeave /\ FinishedLeave

DInv == mishaps \in Nat /\ InWriting /\ StillReadable /\ PartsAreCounted /\ Undamaged

-----------------------------------------------------------------------------
(* What the assumption says of units.                                               *)

LEMMA WorkObeys ==
  ASSUME Shape, NEW u \in WorkOf(experiment)
  PROVE  /\ FilesOf(u) \subseteq DOMAIN files
         /\ u.unlinks \subseteq Removed[experiment]
<1>1. experiment \in DOMAIN Programs
  BY DEF Shape
<1>2. PICK s \in DOMAIN Programs[experiment] : u \in ToSet(Programs[experiment][s])
  BY DEF WorkOf
<1>3. PICK i \in DOMAIN Programs[experiment][s] : u = Programs[experiment][s][i]
  BY <1>2 DEF ToSet
<1>4. FilesOf(u) \subseteq DOMAIN files
  BY <1>1, <1>2, <1>3 DEF AllFiles, Collect, Shape
<1>5. u.unlinks \subseteq Removed[experiment]
  BY <1>1, <1>2, <1>3 DEF Removed, Collect
<1>6. QED
  BY <1>4, <1>5

LEMMA ProgramIsWork ==
  ASSUME Shape, NEW s \in DOMAIN Programs[experiment], NEW i \in DOMAIN UnitsOf(s)
  PROVE  /\ UnitsOf(s)[i] \in WorkOf(experiment)
         /\ UnitsOf(s)[i].gate \in Nat
         /\ i \in Nat
         /\ ToSet(UnitsOf(s)[i].outs) \subseteq Shown(UnitsOf(s), i)
<1>1. experiment \in DOMAIN Programs /\ UnitsOf(s) = Programs[experiment][s]
  BY DEF Shape, UnitsOf
<1>2. UnitsOf(s)[i] \in WorkOf(experiment)
  BY <1>1 DEF WorkOf, ToSet
<1>3. UnitsOf(s) \in Seq(ToSet(UnitsOf(s))) /\ WritesItsOwn(UnitsOf(s)[i])
  BY <1>1, BenchAssumption
<1>4. UnitsOf(s)[i].gate \in Nat /\ i \in Nat
  BY <1>3, LenProperties DEF WritesItsOwn
<1>5. i \in DOMAIN UnitsOf(s) \cap (i .. i + UnitsOf(s)[i].gate)
  BY <1>4
<1>6. QED
  BY <1>2, <1>4, <1>5 DEF Shown

LEMMA UnitIsWork ==
  ASSUME Shape, InUnit
  PROVE  /\ unit \in WorkOf(experiment) /\ Units = UnitsOf(run.step)
         /\ run.step \in DOMAIN Programs[experiment] /\ run.unit \in DOMAIN Units
         /\ unit = UnitsOf(run.step)[run.unit]
         /\ unit.needs \cup unit.takes \cup ToSet(unit.outs) \subseteq DOMAIN files
         /\ unit.unlinks \subseteq Removed[experiment]
<1>1. run.step \in DOMAIN Programs[experiment] /\ Units = UnitsOf(run.step)
  BY DEF Shape, InUnit, Running, Units
<1>2. run.unit \in DOMAIN Units /\ unit = UnitsOf(run.step)[run.unit]
  BY <1>1, RunObeys DEF InUnit, unit
<1>3. unit \in WorkOf(experiment)
  BY <1>1, <1>2, ProgramIsWork
<1>4. QED
  BY <1>1, <1>2, <1>3, WorkObeys DEF FilesOf

LEMMA ShownIsThere ==
  ASSUME Shape, NEW s \in DOMAIN Programs[experiment], NEW i \in DOMAIN UnitsOf(s)
  PROVE  Shown(UnitsOf(s), i) \subseteq DOMAIN files
<1>1. \A k \in DOMAIN UnitsOf(s) : ToSet(UnitsOf(s)[k].outs) \subseteq DOMAIN files
  BY ProgramIsWork, WorkObeys DEF FilesOf
<1>2. QED
  BY <1>1 DEF Shown

LEMMA RescoredIsOne ==
  ASSUME Shape, NEW u \in WorkOf(experiment), u.kind = "rescored"
  PROVE  /\ u.outs # <<>> /\ u.outs[1] \in u.needs
         /\ \A v \in WorkOf(experiment) :
               /\ v.unlinks \cap u.needs = {}
               /\ ToSet(v.outs) \cap u.needs # {} =>
                     \/ u.needs \subseteq ToSet(v.outs)
                     \/ v.kind = "rescored" /\ v.needs = u.needs
BY BenchAssumption DEF Shape, OneHypothesis

LEMMA ValuesDiffer ==
  /\ None # Part /\ None # Cut /\ None # Mixed /\ Part # Cut /\ Part # Mixed
  /\ Whole \notin {None, Part, Cut, Mixed}
  /\ \A v \in AllSettings : v \notin {None, Part, Cut, Mixed}
  /\ \A n : <<"run", n>> \notin {None, Part, Cut, Mixed}
  /\ \A x, y : <<"answers", x, y>> \notin {None, Part, Cut, Mixed}
  /\ \A x, y, z : <<"scored", x, y, z>> \notin {None, Part, Cut, Mixed}
<1>1. /\ None # Part /\ None # Cut /\ None # Mixed /\ Part # Cut /\ Part # Mixed
      /\ Whole \notin {None, Part, Cut, Mixed}
  BY DEF None, Part, Cut, Mixed, Whole
<1>2. ~IsSetting(Mixed)
  BY DEF IsSetting, Mixed
<1>3. ASSUME NEW n
      PROVE  <<"run", n>> \notin {None, Part, Cut, Mixed}
  BY DEF None, Part, Cut, Mixed
<1>4. ASSUME NEW x, NEW y
      PROVE  <<"answers", x, y>> \notin {None, Part, Cut, Mixed}
  BY DEF None, Part, Cut, Mixed
<1>5. ASSUME NEW x, NEW y, NEW z
      PROVE  <<"scored", x, y, z>> \notin {None, Part, Cut, Mixed}
  BY DEF None, Part, Cut, Mixed
<1>6. QED
  BY <1>1, <1>2, <1>3, <1>4, <1>5, SettingsAreSettings

LEMMA InitDamage == Init => DInv
<1> SUFFICES ASSUME Init PROVE DInv
  OBVIOUS
<1>1. IInv /\ Shape
  BY InitInvariant DEF IInv
<1>2. /\ run.writes = 0 /\ run.polls = 0 /\ run.content = None /\ ~Running /\ ~IsOpen
      /\ mishaps = 0 /\ finished = {}
  BY DEF Init, Idle, Running, IsOpen
<1>3. \A f \in DOMAIN files :
          /\ f \notin Given[experiment] => files[f] = None
          /\ f \in Given[experiment] => files[f] \in {Whole} \cup AllSettings
          /\ f \in Given[experiment] \ {Pre} => files[f] = Whole
  BY DEF Init, AllSettings
<1>4. \A f \in DOMAIN files : files[f] \notin {Part, Cut, Mixed}
  BY <1>3, ValuesDiffer
<1>5. InWriting /\ StillReadable
  BY <1>2 DEF InWriting, StillReadable
<1>6. PartsAreCounted
  <2>1. Parts = {}
    BY <1>4 DEF Parts
  <2>2. QED
    BY <1>2, <2>1, FS_EmptySet DEF PartsAreCounted
<1>7. PartIsOpen /\ NothingIsBad /\ WrittenSoFar
  BY <1>2, <1>4, ValuesDiffer DEF PartIsOpen, NothingIsBad, WrittenSoFar
<1>8. SameRun
  <2>1. SUFFICES ASSUME NEW u \in WorkOf(experiment), u.kind = "rescored",
                        NEW f \in u.needs, NEW g \in u.needs
                 PROVE  files[f] = files[g]
    BY <1>2 DEF SameRun, OfOneRun, Rewrites
  <2>2. f \in DOMAIN files /\ g \in DOMAIN files
    BY <1>1, WorkObeys DEF FilesOf
  <2>3. u.needs \subseteq Given[experiment] \ {Pre} \/ u.needs \cap Given[experiment] = {}
    BY <2>1, BenchAssumption DEF Init, OneHypothesis
  <2>4. QED
    BY <1>3, <2>2, <2>3
<1>9. MarkersShow
  <2>1. SUFFICES ASSUME NEW s \in DOMAIN Programs[experiment], NEW i \in DOMAIN UnitsOf(s),
                        NEW m \in UnitsOf(s)[i].markers,
                        Vouches(experiment, UnitsOf(s), i, m), Exists(m),
                        NEW f \in Shown(UnitsOf(s), i)
                 PROVE  Exists(f)
    BY DEF MarkersShow, There
  <2>2. m \in DOMAIN files
    BY <1>1, <2>1, ProgramIsWork, WorkObeys DEF FilesOf
  <2>3. m \in Given[experiment]
    BY <1>3, <2>1, <2>2 DEF Exists
  <2>4. f \in Given[experiment] /\ f \in DOMAIN files
    BY <2>1, <2>3 DEF Vouches, Init
  <2>5. QED
    BY <1>3, <2>4, ValuesDiffer DEF Exists
<1>10. PassedLeave /\ FinishedLeave
  BY <1>2 DEF PassedLeave, FinishedLeave
<1>11. QED
  BY <1>2, <1>5, <1>6, <1>7, <1>8, <1>9, <1>10 DEF DInv, Undamaged

-----------------------------------------------------------------------------
(* Steps that write nothing.                                                       *)

LEMMA OddOrNot ==
  ASSUME Shape
  PROVE  /\ run.writes \in Nat
         /\ IsOpen => run.writes > 0
         /\ run.writes > 0 /\ ~IsOpen => run.writes % 2 = 0 /\ run.writes >= 2
BY DEF Shape, IsOpen

(* A run that writes nothing any more: the file that was open stays as it is.      *)
LEMMA RunMovesOn ==
  ASSUME IInv, DInv, UNCHANGED <<experiment, files>>,
         run'.writes = 0, run'.polls = 0, run'.content = None,
         \/ run.writes = 0 /\ mishaps' = mishaps
         \/ mishaps' = mishaps + 1,
         mishaps' = 0 => PassedLeave' /\ FinishedLeave'
  PROVE  DInv'
<1>1. ~IsOpen' /\ mishaps \in Nat /\ mishaps' \in Nat
  BY DEF IsOpen, DInv
<1>2. InWriting' /\ StillReadable'
  BY DEF InWriting, StillReadable
<1>3. PartsAreCounted'
  <2>1. Parts' = Parts /\ IsFiniteSet(Parts) /\ Cardinality(Parts) \in Nat
        /\ Cardinality(Parts) <= mishaps + (IF IsOpen THEN 1 ELSE 0)
    BY FS_CardinalityType DEF Parts, DInv, PartsAreCounted
  <2>2. CASE run.writes = 0 /\ mishaps' = mishaps
    BY <1>1, <2>1, <2>2 DEF PartsAreCounted, IsOpen
  <2>3. CASE mishaps' = mishaps + 1
    <3>1. Cardinality(Parts) <= mishaps + 1
      BY <1>1, <2>1
    <3>2. QED
      BY <1>1, <2>1, <2>3, <3>1 DEF PartsAreCounted
  <2>4. QED
    BY <2>2, <2>3
<1>4. ASSUME mishaps' = 0
      PROVE  /\ PartIsOpen' /\ NothingIsBad' /\ WrittenSoFar' /\ SameRun' /\ MarkersShow'
             /\ PassedLeave' /\ FinishedLeave'
  <2>1. mishaps = 0 /\ run.writes = 0 /\ ~IsOpen
    BY <1>1, <1>4 DEF IsOpen
  <2>2. /\ PartIsOpen /\ NothingIsBad /\ WrittenSoFar /\ SameRun /\ MarkersShow
    BY <2>1 DEF DInv, Undamaged
  <2>3. PartIsOpen' /\ NothingIsBad' /\ WrittenSoFar'
    BY <2>1, <2>2, ValuesDiffer DEF PartIsOpen, NothingIsBad, WrittenSoFar
  <2>4. SameRun'
    BY <2>1, <2>2 DEF SameRun, OfOneRun, Rewrites
  <2>5. MarkersShow'
    BY <2>1, <2>2 DEF MarkersShow, UnitsOf, Exists, There, BeingWritten
  <2>6. QED
    BY <1>4, <2>3, <2>4, <2>5
<1>5. QED
  BY <1>1, <1>2, <1>3, <1>4 DEF DInv, Undamaged

(* A run goes on over units that have left their files.                             *)
LEMMA RunPasses ==
  ASSUME IInv, DInv, InUnit, UNCHANGED <<experiment, files, finished>>,
         NEW k \in Nat, run'.step = run.step, run'.unit = run.unit + 1 + k,
         run'.writes = 0, run'.polls = 0, run'.content = None,
         \/ run.writes = 0 /\ mishaps' = mishaps
         \/ mishaps' = mishaps + 1,
         mishaps' = 0 =>
             \A i \in DOMAIN Units : i \in run.unit .. run.unit + k => Leaves(Units[i])
  PROVE  DInv'
<1>1. Units' = Units /\ Running
  BY DEF Units, UnitsOf, InUnit
<1>2. ASSUME mishaps' = 0
      PROVE  PassedLeave' /\ FinishedLeave'
  <2>1. mishaps = 0 /\ PassedLeave /\ FinishedLeave
    BY <1>2 DEF DInv, Undamaged
  <2>2. ASSUME NEW i \in DOMAIN Units, i < run'.unit
        PROVE  Leaves(Units[i])
    <3>1. i \in Nat /\ run.unit \in Nat
      BY <1>1, RunObeys DEF IInv, Shape
    <3>2. i < run.unit \/ i \in run.unit .. run.unit + k
      BY <2>2, <3>1
    <3>3. QED
      BY <1>1, <1>2, <2>1, <3>2 DEF PassedLeave
  <2>3. PassedLeave'
    BY <1>1, <2>2 DEF PassedLeave, Leaves, There, Exists
  <2>4. FinishedLeave'
    BY <2>1 DEF FinishedLeave, UnitsOf, Leaves, There, Exists
  <2>5. QED
    BY <2>3, <2>4
<1>3. QED
  BY <1>2, RunMovesOn

(* A run is over.                                                                    *)
LEMMA RunIsOver ==
  ASSUME IInv, DInv, UNCHANGED <<experiment, files, finished>>, run' = Idle,
         \/ run.writes = 0 /\ mishaps' = mishaps
         \/ mishaps' = mishaps + 1
  PROVE  DInv'
<1>1. run'.writes = 0 /\ run'.polls = 0 /\ run'.content = None /\ ~Running'
  BY DEF Idle, Running
<1>2. ASSUME mishaps' = 0
      PROVE  PassedLeave' /\ FinishedLeave'
  <2>1. FinishedLeave
    BY <1>2 DEF DInv, Undamaged
  <2>2. QED
    BY <1>1, <2>1 DEF PassedLeave, FinishedLeave, UnitsOf, Leaves, There, Exists
<1>3. QED
  BY <1>1, <1>2, RunMovesOn

(* A unit that is due has nothing open before all of it is computed.                *)
LEMMA NotWriting ==
  ASSUME IInv, DInv,
         \/ Skips \/ PassesGate \/ Computes \/ Stops \/ Raises \/ Loads \/ Ends
         \/ \E s \in DOMAIN Programs[experiment] : Starts(s)
  PROVE  run.writes = 0
<1>1. run.writes \in Nat
  BY DEF IInv, Shape
<1>2. CASE Skips
  BY <1>2 DEF Skips, Untouched
<1>3. CASE PassesGate
  BY <1>1, <1>3 DEF PassesGate, DInv, InWriting
<1>4. CASE Computes \/ Stops
  BY <1>1, <1>4, UnitObeys DEF Computes, Stops, Polling, Due, DInv, InWriting, IInv, Shape
<1>5. CASE Raises
  BY <1>1, <1>5 DEF Raises, Untouched, DInv, InWriting
<1>6. CASE Loads
  <2>1. InUnit /\ unit.outs = <<>> /\ Len(unit.outs) = 0
    BY <1>6 DEF Loads, Computed, Due
  <2>2. QED
    BY <1>1, <2>1 DEF IInv, Shape
<1>7. CASE Ends
  BY <1>1, <1>7, RunObeys DEF Ends, InUnit, DInv, InWriting, IInv, Shape
<1>8. CASE \E s \in DOMAIN Programs[experiment] : Starts(s)
  BY <1>1, <1>8 DEF Starts, InUnit, DInv, InWriting
<1>9. QED
  BY <1>2, <1>3, <1>4, <1>5, <1>6, <1>7, <1>8

(* A unit whose markers are there has left its files, and so have those it spares.   *)
LEMMA DoneLeaves ==
  ASSUME IInv, DInv, mishaps = 0, run.writes = 0,
         NEW s \in DOMAIN Programs[experiment], NEW i \in DOMAIN UnitsOf(s),
         Done(UnitsOf(s)[i])
  PROVE  \A f \in Shown(UnitsOf(s), i) : There(f)
<1>1. experiment \in DOMAIN Programs /\ UnitsOf(s) = Programs[experiment][s]
  BY DEF IInv, Shape, UnitsOf
<1>2. UnitsOf(s)[i].markers # {} /\ \A m \in UnitsOf(s)[i].markers : Exists(m)
  BY DEF Done
<1>3. PICK m \in UnitsOf(s)[i].markers : Vouches(experiment, UnitsOf(s), i, m)
  BY <1>1, <1>2, BenchAssumption DEF MarkersVouch
<1>4. MarkersShow
  BY DEF DInv, Undamaged
<1>5. QED
  BY <1>2, <1>3, <1>4 DEF MarkersShow, BeingWritten

LEMMA SeesNothing ==
  ASSUME DInv, UNCHANGED <<experiment, files, run, mishaps, finished>>
  PROVE  DInv'
<1> USE DEF InUnit, Running, Units, UnitsOf, unit, Writing, IsOpen, There, Exists
<1>1. InWriting' /\ StillReadable' /\ mishaps' \in Nat
  BY DEF DInv, InWriting, StillReadable, Readable, Replays, Complete
<1>2. PartsAreCounted'
  BY DEF DInv, PartsAreCounted, Parts
<1>3. ASSUME mishaps = 0
      PROVE  /\ PartIsOpen' /\ NothingIsBad' /\ WrittenSoFar' /\ SameRun' /\ MarkersShow'
             /\ PassedLeave' /\ FinishedLeave'
  <2>1. /\ PartIsOpen /\ NothingIsBad /\ WrittenSoFar /\ SameRun /\ MarkersShow
        /\ PassedLeave /\ FinishedLeave
    BY <1>3 DEF DInv, Undamaged
  <2>2. PartIsOpen' /\ NothingIsBad' /\ WrittenSoFar'
    BY <2>1 DEF PartIsOpen, NothingIsBad, WrittenSoFar
  <2>3. SameRun'
    BY <2>1 DEF SameRun, OfOneRun, Rewrites
  <2>4. MarkersShow'
    BY <2>1 DEF MarkersShow, BeingWritten
  <2>5. PassedLeave' /\ FinishedLeave'
    BY <2>1 DEF PassedLeave, FinishedLeave, Leaves
  <2>6. QED
    BY <2>2, <2>3, <2>4, <2>5
<1>4. QED
  BY <1>1, <1>2, <1>3 DEF DInv, Undamaged

LEMMA QuietDamage ==
  ASSUME IInv, DInv,
         \/ \E s \in DOMAIN Programs[experiment] : Starts(s)
         \/ Widens \/ Skips \/ PassesGate \/ Computes \/ Stops \/ Raises \/ Loads
         \/ Ends \/ Dies \/ ToolFails
  PROVE  DInv'
<1> USE DEF outside
<1>1. Shape /\ run.writes \in Nat /\ run.unit \in Nat
  BY DEF IInv, Shape
<1>2. ASSUME NEW s \in DOMAIN Programs[experiment], Starts(s)
      PROVE  DInv'
  <2>1. run' = [step |-> s, unit |-> 1, polls |-> 0, writes |-> 0, known |-> None,
                content |-> None]
        /\ UNCHANGED <<experiment, files, finished, mishaps>>
    BY <1>2 DEF Starts, Idle
  <2>2. DOMAIN Units' \subseteq Nat \ {0}
    <3>1. Units' = UnitsOf(s) /\ UnitsOf(s) = Programs[experiment][s]
      BY <2>1 DEF Units, UnitsOf
    <3>2. QED
      BY <1>1, <3>1, BenchAssumption, LenProperties DEF Shape
  <2>3. PassedLeave'
    BY <2>1, <2>2 DEF PassedLeave
  <2>4. ASSUME mishaps' = 0 PROVE FinishedLeave'
    BY <2>1, <2>4 DEF DInv, Undamaged, FinishedLeave, UnitsOf, Leaves, There, Exists
  <2>5. QED
    BY <1>2, <2>1, <2>3, <2>4, RunMovesOn, NotWriting
<1>3. CASE Widens
  BY <1>3, SeesNothing DEF Widens
<1>4. ASSUME InUnit, UNCHANGED <<experiment, files, finished>>, run' = NextUnit,
             \/ run.writes = 0 /\ mishaps' = mishaps
             \/ mishaps' = mishaps + 1,
             mishaps' = 0 => Leaves(unit)
      PROVE  DInv'
  <2>1. unit = Units[run.unit]
    BY DEF unit
  <2>2. run.unit + 0 = run.unit /\ run.unit + 1 + 0 = run.unit + 1
    BY <1>1
  <2>3. /\ run'.step = run.step /\ run'.unit = run.unit + 1 + 0
        /\ run'.writes = 0 /\ run'.polls = 0 /\ run'.content = None
    BY <1>4, <2>2 DEF NextUnit
  <2>4. mishaps' = 0 =>
          \A i \in DOMAIN Units : i \in run.unit .. run.unit + 0 => Leaves(Units[i])
    BY <1>1, <1>4, <2>1, <2>2
  <2>5. QED
    BY <1>4, <2>3, <2>4, RunPasses
<1>5. CASE Skips
  <2>1. /\ InUnit /\ run.writes = 0 /\ unit.gate \in Nat
        /\ UNCHANGED <<experiment, files, finished, mishaps>>
    BY <1>1, <1>5, UnitObeys DEF Skips, Untouched
  <2>2. /\ run'.step = run.step /\ run'.unit = run.unit + 1 + unit.gate
        /\ run'.writes = 0 /\ run'.polls = 0 /\ run'.content = None
    BY <1>5 DEF Skips, NextUnit
  <2>3. ASSUME mishaps = 0, NEW i \in DOMAIN Units, i \in run.unit .. run.unit + unit.gate
        PROVE  Leaves(Units[i])
    <3>1. CASE Done(unit)
      <4>1. ToSet(Units[i].outs) \subseteq Shown(Units, run.unit)
        BY <2>3 DEF Shown, unit
      <4>2. \A f \in Shown(Units, run.unit) : There(f)
        BY <1>1, <2>1, <2>3, <3>1, UnitIsWork, DoneLeaves
      <4>3. QED
        BY <4>1, <4>2 DEF Leaves
    <3>2. CASE Absent(unit)
      <4>1. unit.when # {} /\ unit.gate = 0
        BY <1>1, <2>1, <3>2, UnitObeys DEF Absent, WritesItsOwn
      <4>2. i = run.unit
        BY <1>1, <2>3, <4>1
      <4>3. QED
        BY <4>1, <4>2 DEF Leaves, unit
    <3>3. CASE unit.maybe
      <4>1. unit.gate = 0
        BY <1>1, <2>1, <3>3, UnitObeys DEF WritesItsOwn
      <4>2. i = run.unit
        BY <1>1, <2>3, <4>1
      <4>3. QED
        BY <3>3, <4>2 DEF Leaves, unit
    <3>4. QED
      BY <1>5, <3>1, <3>2, <3>3 DEF Skips
  <2>4. QED
    BY <2>1, <2>2, <2>3, RunPasses
<1>6. CASE PassesGate
  <2>1. InUnit /\ unit.gate \in Nat /\ unit.gate # 0 /\ run' = NextUnit
        /\ UNCHANGED <<experiment, files, finished, mishaps>>
    BY <1>1, <1>6, UnitObeys DEF PassesGate
  <2>2. unit.outs = <<>>
    BY <1>1, <2>1, UnitObeys DEF WritesItsOwn
  <2>3. Leaves(unit)
    BY <2>2 DEF Leaves, ToSet
  <2>4. QED
    BY <1>4, <1>6, <2>1, <2>3, NotWriting
<1>7. CASE Computes
  <2>1. run.writes = 0
    BY <1>7, NotWriting
  <2>2. run' = [step |-> run.step, unit |-> run.unit, polls |-> run.polls + 1,
                writes |-> run.writes, known |-> run.known,
                content |-> run.content]
    BY <1>7 DEF Computes, IInv, Shape, RunIsRecord
  <2>3. /\ UNCHANGED <<experiment, files, mishaps, finished>>
        /\ Units' = Units /\ unit' = unit /\ (Running' <=> Running) /\ Readable(unit)
    BY <1>7, <2>2 DEF Computes, Running, Units, UnitsOf, unit
  <2>4. InWriting' /\ StillReadable'
    <3>1. Readable(unit)'
      BY <2>2, <2>3 DEF Readable, Replays, Complete, Exists
    <3>2. QED
      BY <2>1, <2>2, <2>3, <3>1 DEF InWriting, StillReadable
  <2>5. PartsAreCounted'
    BY <2>2, <2>3 DEF DInv, PartsAreCounted, Parts, IsOpen
  <2>6. Undamaged'
    <3>1. ASSUME mishaps = 0
          PROVE  /\ PartIsOpen' /\ NothingIsBad' /\ WrittenSoFar' /\ SameRun'
                 /\ MarkersShow' /\ PassedLeave' /\ FinishedLeave'
      <4>1. /\ PartIsOpen /\ NothingIsBad /\ SameRun /\ MarkersShow
            /\ PassedLeave /\ FinishedLeave
        BY <3>1 DEF DInv, Undamaged
      <4>2. PartIsOpen' /\ NothingIsBad' /\ WrittenSoFar'
        BY <2>1, <2>2, <2>3, <4>1
           DEF PartIsOpen, NothingIsBad, WrittenSoFar, IsOpen, Writing
      <4>3. SameRun'
        BY <2>1, <2>2, <2>3, <4>1 DEF SameRun, OfOneRun, Rewrites
      <4>4. MarkersShow'
        BY <2>1, <2>2, <2>3, <4>1 DEF MarkersShow, UnitsOf, Exists, There, BeingWritten
      <4>5. PassedLeave' /\ FinishedLeave'
        BY <2>2, <2>3, <4>1 DEF PassedLeave, FinishedLeave, UnitsOf, Leaves, There, Exists
      <4>6. QED
        BY <4>2, <4>3, <4>4, <4>5
    <3>2. QED
      BY <2>3, <3>1 DEF Undamaged
  <2>7. QED
    BY <2>3, <2>4, <2>5, <2>6 DEF DInv
<1>8. CASE Stops
  <2>1. run' = Idle /\ UNCHANGED <<experiment, files, finished, mishaps>>
    BY <1>8 DEF Stops
  <2>2. QED
    BY <1>8, <2>1, NotWriting, RunIsOver
<1>9. CASE Raises
  <2>1. /\ InUnit /\ run.writes = 0 /\ UNCHANGED <<experiment, files, finished, mishaps>>
        /\ run' = AfterError
    BY <1>9, NotWriting DEF Raises
  <2>2. CASE unit.fails = "goes on"
    BY <1>4, <2>1, <2>2 DEF AfterError, Leaves
  <2>3. CASE unit.fails # "goes on"
    BY <2>1, <2>3, RunIsOver DEF AfterError
  <2>4. QED
    BY <2>2, <2>3
<1>10. CASE Loads
  <2>1. /\ InUnit /\ run.writes = 0 /\ unit.outs = <<>>
        /\ UNCHANGED <<experiment, files, finished, mishaps>>
    BY <1>10, NotWriting DEF Loads, Computed, Due
  <2>2. /\ run'.step = run.step /\ run'.unit = run.unit + 1 + 0
        /\ run'.writes = 0 /\ run'.polls = 0 /\ run'.content = None
    BY <1>1, <1>10 DEF Loads, NextUnit
  <2>3. Leaves(unit) /\ unit = Units[run.unit]
    BY <2>1 DEF Leaves, ToSet, unit
  <2>4. \A i \in DOMAIN Units : i \in run.unit .. run.unit + 0 => Leaves(Units[i])
    BY <1>1, <2>3
  <2>5. QED
    BY <2>1, <2>2, <2>4, RunPasses
<1>11. CASE Ends
  <2>1. /\ run' = Idle /\ run.writes = 0 /\ UNCHANGED <<experiment, files, mishaps>>
        /\ finished' = finished \cup {run.step} /\ Running /\ run.unit > Len(Units)
    BY <1>11, NotWriting DEF Ends
  <2>2. run'.writes = 0 /\ run'.polls = 0 /\ run'.content = None /\ ~Running'
    BY <2>1 DEF Idle, Running
  <2>3. ASSUME mishaps' = 0 PROVE PassedLeave' /\ FinishedLeave'
    <3>1. PassedLeave /\ FinishedLeave
      BY <2>1, <2>3 DEF DInv, Undamaged
    <3>2. \A i \in DOMAIN UnitsOf(run.step) : Leaves(UnitsOf(run.step)[i])
      BY <1>1, <2>1, <3>1, RunObeys DEF PassedLeave, Units
    <3>3. QED
      BY <2>1, <2>2, <3>1, <3>2
         DEF PassedLeave, FinishedLeave, UnitsOf, Leaves, There, Exists
  <2>4. QED
    BY <2>1, <2>2, <2>3, RunMovesOn
<1>12. CASE Dies
  BY <1>12, RunIsOver DEF Dies
<1>13. CASE ToolFails
  <2>1. /\ InUnit /\ run' = NextUnit /\ UNCHANGED <<experiment, files, finished>>
        /\ mishaps' = mishaps + 1
    BY <1>13 DEF ToolFails, Due
  <2>2. mishaps' # 0
    BY <2>1 DEF DInv
  <2>3. QED
    BY <1>4, <2>1, <2>2
<1>14. QED
  BY <1>2, <1>3, <1>5, <1>6, <1>7, <1>8, <1>9, <1>10, <1>11, <1>12, <1>13

-----------------------------------------------------------------------------
(* What is written.                                                                 *)

LEMMA ContentIsWhole ==
  ASSUME IInv, DInv, InUnit, run.writes = 0, Readable(unit), unit.outs # <<>>
  PROVE  /\ Content(unit) \notin {None, Part}
         /\ mishaps = 0 =>
              /\ Content(unit) \notin {Cut, Mixed}
              /\ unit.kind = "rescored" => Content(unit) = files[unit.outs[1]]
<1>1. Shape /\ unit \in WorkOf(experiment)
  BY UnitIsWork DEF IInv
<1>2. CASE unit.kind = "grid"
  BY <1>2 DEF Content, None, Part, Cut, Mixed
<1>3. CASE unit.kind = "register"
  BY <1>3, SettingsOfGrids, ValuesDiffer
<1>4. CASE Publishes(unit)
  BY <1>4, ResultsOfSettings, ValuesDiffer DEF Publishes
<1>5. CASE unit.kind = "scored"
  BY <1>5, ValuesDiffer DEF Content
<1>6. CASE unit.kind = "rescored"
  <2>1. unit.outs[1] \in unit.needs /\ unit.needs \subseteq DOMAIN files
    BY <1>1, <1>6, RescoredIsOne, UnitIsWork
  <2>2. files[unit.outs[1]] \notin {None, Part} /\ Mixed \notin {None, Part}
    BY <2>1, ValuesDiffer DEF Readable, Complete
  <2>3. ASSUME mishaps = 0
        PROVE  /\ Cardinality({files[f] : f \in unit.needs}) = 1
               /\ files[unit.outs[1]] \notin {Cut, Mixed}
    <3>1. SameRun /\ NothingIsBad
      BY <2>3 DEF DInv, Undamaged
    <3>2. \A f, g \in unit.needs : files[f] = files[g]
      BY <1>1, <1>6, <3>1 DEF SameRun, OfOneRun, Rewrites
    <3>3. {files[f] : f \in unit.needs} = {files[unit.outs[1]]}
      BY <2>1, <3>2
    <3>4. Cardinality({files[unit.outs[1]]}) = 1
      BY FS_Singleton
    <3>5. QED
      BY <2>1, <3>1, <3>3, <3>4 DEF NothingIsBad
  <2>4. Content(unit) = IF Cardinality({files[f] : f \in unit.needs}) = 1
                        THEN files[unit.outs[1]] ELSE Mixed
    BY <1>6 DEF Content, Mixed
  <2>5. QED
    BY <1>6, <2>2, <2>3, <2>4
<1>7. CASE unit.kind \notin {"grid", "register", "published", "child", "scored", "rescored"}
  <2>1. \/ Content(unit) = IF FromCut(unit) THEN Cut ELSE Whole
        \/ Content(unit) = IF FromCut(unit) THEN Cut ELSE <<"run", starts>>
        \/ Content(unit) = <<"answers", ThisRun(unit), files[Transcript]>>
    BY <1>7 DEF Content, ThisRun
  <2>2. ASSUME mishaps = 0 PROVE ~FromCut(unit)
    <3>1. PartIsOpen /\ NothingIsBad /\ ~IsOpen
      BY <2>2 DEF DInv, Undamaged, IsOpen
    <3>2. unit.needs \cup unit.takes \subseteq DOMAIN files
      BY <1>1, UnitIsWork
    <3>3. QED
      BY <3>1, <3>2 DEF FromCut, PartIsOpen, NothingIsBad
  <2>3. QED
    BY <1>7, <2>1, <2>2, ValuesDiffer
<1>8. QED
  BY <1>2, <1>3, <1>4, <1>5, <1>6, <1>7 DEF Publishes

(* What is there stays there, or is removed for good.                               *)
LEMMA LeavesStay ==
  ASSUME Shape, UNCHANGED <<experiment, finished>>,
         \A f \in DOMAIN files : There(f) => There(f)',
         FinishedLeave
  PROVE  /\ FinishedLeave'
         /\ \A u \in WorkOf(experiment) : Leaves(u) => Leaves(u)'
<1>1. ASSUME NEW u \in WorkOf(experiment), Leaves(u)
      PROVE  Leaves(u)'
  <2>1. ToSet(u.outs) \subseteq DOMAIN files
    BY WorkObeys DEF FilesOf
  <2>2. QED
    BY <1>1, <2>1 DEF Leaves
<1>2. FinishedLeave'
  <2>1. SUFFICES ASSUME NEW s \in finished \cap DOMAIN Programs[experiment],
                        NEW i \in DOMAIN UnitsOf(s)
                 PROVE  Leaves(UnitsOf(s)[i])'
    BY DEF FinishedLeave, UnitsOf
  <2>2. PICK u \in WorkOf(experiment) : u = UnitsOf(s)[i]
    BY ProgramIsWork
  <2>3. Leaves(u)'
    BY <1>1, <2>1, <2>2 DEF FinishedLeave
  <2>4. u = UnitsOf(s)'[i]
    BY <2>2 DEF UnitsOf
  <2>5. QED
    BY <2>3, <2>4
<1>3. QED
  BY <1>1, <1>2

LEMMA OpensDamage ==
  ASSUME IInv, DInv, Opens
  PROVE  DInv'
<1> DEFINE f == unit.outs[Writing]
           content == IF run.writes = 0 THEN Content(unit) ELSE run.content
<1>1. /\ InUnit /\ unit.gate = 0 /\ run.polls = unit.polls /\ unit.outs # <<>>
      /\ run.writes % 2 = 0 /\ unit.fails # "always"
      /\ run.writes = 0 => Readable(unit)
      /\ files' = [files EXCEPT ![f] = Part] /\ UNCHANGED <<experiment, mishaps, finished>>
  BY DEF Opens, Computed, Due, Writing, outside
<1>2. run' = [step |-> run.step, unit |-> run.unit, polls |-> run.polls,
              writes |-> run.writes + 1, known |-> run.known,
              content |-> content]
  BY DEF Opens, IInv, Shape, RunIsRecord
<1>3. InUnit' /\ Running' /\ Running /\ Units' = Units /\ unit' = unit
  BY <1>1, <1>2 DEF InUnit, Running, Units, UnitsOf, unit
<1>4. /\ Shape /\ run.writes \in Nat /\ ~IsOpen /\ IsOpen' /\ Writing' = Writing
      /\ run'.writes > 0 /\ run.writes + 1 = 2 * Writing - 1
  <2>1. Shape /\ run.writes \in Nat
    BY DEF IInv, Shape
  <2>2. QED
    BY <1>1, <1>2, <2>1 DEF IsOpen, Writing
<1>5. /\ f \in DOMAIN files /\ DOMAIN files' = DOMAIN files
      /\ \A g \in DOMAIN files : files'[g] = IF g = f THEN Part ELSE files[g]
  BY <1>1, WhatIsWritten
<1>6. /\ content \notin {None, Part}
      /\ mishaps = 0 => content \notin {Cut, Mixed}
  BY <1>1, <1>4, ContentIsWhole DEF DInv, InWriting, Undamaged, NothingIsBad
<1>7. InWriting' /\ StillReadable'
  BY <1>1, <1>2, <1>3, <1>4, <1>5, <1>6 DEF InWriting, StillReadable
<1>8. PartsAreCounted'
  <2>1. IsFiniteSet(Parts) /\ Cardinality(Parts) \in Nat /\ Cardinality(Parts) <= mishaps
        /\ mishaps \in Nat
    BY <1>4, FS_CardinalityType DEF DInv, PartsAreCounted
  <2>2. Parts' = Parts \cup {f}
    BY <1>5 DEF Parts
  <2>3. /\ IsFiniteSet(Parts \cup {f})
        /\ Cardinality(Parts \cup {f}) = IF f \in Parts THEN Cardinality(Parts)
                                         ELSE Cardinality(Parts) + 1
    BY <2>1, FS_AddElement
  <2>4. QED
    BY <1>1, <1>4, <2>1, <2>2, <2>3 DEF PartsAreCounted
<1>9. ASSUME mishaps = 0
      PROVE  /\ PartIsOpen' /\ NothingIsBad' /\ WrittenSoFar' /\ SameRun' /\ MarkersShow'
             /\ PassedLeave' /\ FinishedLeave'
  <2>1. /\ PartIsOpen /\ NothingIsBad /\ WrittenSoFar /\ SameRun /\ MarkersShow
        /\ PassedLeave /\ FinishedLeave
    BY <1>9 DEF DInv, Undamaged
  <2>2. \A g \in DOMAIN files : There(g) => There(g)'
    BY <1>1, <1>5, ValuesDiffer DEF There, Exists
  <2>3. PartIsOpen'
    BY <1>3, <1>4, <1>5, <2>1 DEF PartIsOpen
  <2>4. NothingIsBad'
    BY <1>2, <1>5, <1>6, <1>9, <2>1, ValuesDiffer DEF NothingIsBad
  <2>5. \A g \in unit.needs : There(g)'
    <3>1. unit.needs \subseteq DOMAIN files
      BY <1>1, <1>4, UnitIsWork
    <3>2. \A g \in unit.needs : There(g)
      BY <1>1, <1>4, <2>1 DEF WrittenSoFar, Readable, Complete, There, Exists
    <3>3. QED
      BY <2>2, <3>1, <3>2
  <2>6. ASSUME NEW m \in DOMAIN unit.outs, 2 * m - 1 <= run.writes + 1
        PROVE  files'[unit.outs[m]] \in {Part, content}
    <3>1. m \in Nat \ {0} /\ unit.outs[m] \in DOMAIN files
      BY <1>1, <1>4, UnitObeys
    <3>2. CASE m = Writing
      BY <1>5, <3>2
    <3>3. CASE m # Writing
      <4>1. Writing \in Nat
        BY <1>4 DEF Writing
      <4>2. 2 * m - 1 <= run.writes /\ run.writes > 0
        BY <1>4, <2>6, <3>1, <3>3, <4>1
      <4>3. files[unit.outs[m]] \in {Part, run.content} /\ content = run.content
        BY <2>1, <4>2 DEF WrittenSoFar
      <4>4. QED
        BY <1>5, <3>1, <4>3
    <3>4. QED
      BY <3>2, <3>3
  <2>7. WrittenSoFar'
    BY <1>2, <1>3, <2>5, <2>6 DEF WrittenSoFar
  <2>8. SameRun'
    <3>1. SUFFICES ASSUME NEW u \in WorkOf(experiment), u.kind = "rescored"
                   PROVE  OfOneRun(u)'
      BY <1>1 DEF SameRun
    <3>2. u.needs \subseteq DOMAIN files /\ OfOneRun(u)
      BY <1>4, <2>1, <3>1, WorkObeys DEF SameRun, FilesOf
    <3>3. Rewrites(u)' <=> ToSet(unit.outs) \cap u.needs # {}
      BY <1>3, <1>4 DEF Rewrites
    <3>4. CASE ToSet(unit.outs) \cap u.needs = {}
      <4>1. f \notin u.needs
        BY <1>1, <1>4, <3>4, Halves, UnitObeys
      <4>2. \A g \in u.needs : files'[g] = files[g]
        BY <1>5, <3>2, <4>1
      <4>3. \A g, h \in u.needs : files[g] = files[h]
        BY <3>2, <3>4 DEF OfOneRun, Rewrites
      <4>4. QED
        BY <3>3, <3>4, <4>2, <4>3 DEF OfOneRun
    <3>5. CASE u.needs \subseteq ToSet(unit.outs) /\ ToSet(unit.outs) \cap u.needs # {}
      BY <1>3, <3>3, <3>5 DEF OfOneRun
    <3>6. CASE ToSet(unit.outs) \cap u.needs # {} /\ ~(u.needs \subseteq ToSet(unit.outs))
      <4>1. unit.kind = "rescored" /\ unit.needs = u.needs /\ unit.outs[1] \in u.needs
        BY <1>1, <1>4, <3>1, <3>6, RescoredIsOne, UnitIsWork
      <4>2. ASSUME NEW g \in u.needs
            PROVE  files[g] \in {Part, content}
        <5>1. CASE run.writes = 0
          <6>1. content = files[unit.outs[1]]
            BY <1>1, <1>9, <4>1, <5>1, ContentIsWhole
          <6>2. files[g] = files[unit.outs[1]]
            BY <3>2, <4>1, <5>1 DEF OfOneRun, Rewrites
          <6>3. QED
            BY <6>1, <6>2
        <5>2. CASE run.writes # 0
          BY <1>4, <3>2, <3>6, <5>2 DEF OfOneRun, Rewrites
        <5>3. QED
          BY <5>1, <5>2
      <4>3. \A g \in u.needs : files'[g] \in {Part, run'.content}
        BY <1>2, <1>5, <3>2, <4>2
      <4>4. QED
        BY <3>3, <3>6, <4>3 DEF OfOneRun
    <3>7. QED
      BY <3>4, <3>5, <3>6
  <2>9. MarkersShow'
    <3>1. SUFFICES ASSUME NEW s \in DOMAIN Programs[experiment],
                          NEW i \in DOMAIN UnitsOf(s),
                          NEW m \in UnitsOf(s)[i].markers,
                          Vouches(experiment, UnitsOf(s), i, m), Exists(m)',
                          NEW g \in Shown(UnitsOf(s), i)
                   PROVE  There(g)' \/ g \in ToSet(unit.outs)
      BY <1>1, <1>3, <1>4 DEF MarkersShow, UnitsOf, BeingWritten
    <3>2. CASE m = f
      <4>1. m \in ToSet(unit.outs) /\ unit \in WorkOf(experiment)
        BY <1>1, <1>4, <3>2, Halves, UnitObeys, UnitIsWork
      <4>2. g \in ToSet(unit.outs) \cup unit.needs
        BY <3>1, <4>1 DEF Vouches
      <4>3. QED
        BY <2>5, <4>2
    <3>3. CASE m # f
      <4>1. m \in DOMAIN files /\ g \in DOMAIN files
        BY <1>4, <3>1, ProgramIsWork, WorkObeys, ShownIsThere DEF FilesOf
      <4>2. Exists(m)
        BY <1>5, <3>1, <3>3, <4>1 DEF Exists
      <4>3. There(g) \/ BeingWritten(g)
        BY <2>1, <3>1, <4>2 DEF MarkersShow
      <4>4. QED
        BY <2>2, <4>1, <4>3 DEF BeingWritten
    <3>4. QED
      BY <3>2, <3>3
  <2>10. FinishedLeave' /\ \A u \in WorkOf(experiment) : Leaves(u) => Leaves(u)'
    BY <1>1, <1>4, <2>1, <2>2, LeavesStay
  <2>11. PassedLeave'
    <3>1. \A i \in DOMAIN Units : i < run.unit => Leaves(Units[i])
      BY <1>3, <2>1 DEF PassedLeave
    <3>2. \A i \in DOMAIN Units : Units[i] \in WorkOf(experiment)
      BY <1>1, <1>4, UnitIsWork, ProgramIsWork
    <3>3. QED
      BY <1>2, <1>3, <2>10, <3>1, <3>2 DEF PassedLeave
  <2>12. QED
    BY <2>3, <2>4, <2>7, <2>8, <2>9, <2>10, <2>11
<1>10. QED
  BY <1>1, <1>7, <1>8, <1>9 DEF DInv, Undamaged

LEMMA ClosesDamage ==
  ASSUME IInv, DInv, Closes
  PROVE  DInv'
<1> DEFINE g == unit.outs[Writing]
           last == Writing = Len(unit.outs)
<1>1. PICK gone \in IF last THEN SUBSET unit.unlinks ELSE {{}} :
          files' = [f \in DOMAIN files |-> IF f \in gone THEN None
                                           ELSE IF f = g THEN run.content ELSE files[f]]
  BY DEF Closes, Writing
<1>2. /\ InUnit /\ unit.gate = 0 /\ IsOpen /\ run.polls = unit.polls
      /\ UNCHANGED <<experiment, mishaps, finished>>
      /\ run' = IF last THEN NextUnit ELSE [run EXCEPT !.writes = @ + 1]
  BY DEF Closes, Computed, Due, Writing, outside, IsOpen
<1>3. /\ Shape /\ run.writes \in Nat /\ run.writes > 0 /\ run.unit \in Nat
      /\ run.writes = 2 * Writing - 1 /\ Writing \in Nat /\ unit.outs # <<>>
  <2>1. Shape /\ run.writes \in Nat /\ run.unit \in Nat
    BY DEF IInv, Shape
  <2>2. run.writes > 0 /\ run.writes = 2 * Writing - 1 /\ Writing \in Nat
    BY <1>2, <2>1 DEF IsOpen, Writing
  <2>3. run.writes < 2 * Len(unit.outs)
    BY <1>2, <2>2 DEF IInv, Shape
  <2>4. QED
    BY <2>1, <2>2, <2>3, EmptySeq
<1>4. /\ Writing \in DOMAIN unit.outs /\ DOMAIN unit.outs = 1 .. Len(unit.outs)
      /\ Len(unit.outs) \in Nat /\ ToSet(unit.outs) \subseteq DOMAIN files
      /\ unit \in WorkOf(experiment) /\ g \in DOMAIN files /\ g \in ToSet(unit.outs)
  BY <1>2, <1>3, Halves, UnitObeys, UnitIsWork DEF IInv
<1>5. /\ run.content \notin {None, Part} /\ files[g] = Part /\ unit.fails # "always"
  BY <1>2, <1>3 DEF DInv, InWriting
<1>6. /\ gone \subseteq unit.unlinks /\ gone \subseteq Removed[experiment]
      /\ ~last => gone = {}
  BY <1>1, <1>2, <1>3, UnitIsWork
<1>7. /\ DOMAIN files' = DOMAIN files
      /\ \A f \in DOMAIN files :
            /\ f \in gone => files'[f] = None
            /\ f \notin gone => files'[f] = IF f = g THEN run.content ELSE files[f]
  BY <1>1
<1>8. /\ ~last => run' = [step |-> run.step, unit |-> run.unit, polls |-> run.polls,
                          writes |-> run.writes + 1, known |-> run.known,
                          content |-> run.content]
      /\ last => /\ run'.step = run.step /\ run'.unit = run.unit + 1 /\ run'.polls = 0
                 /\ run'.writes = 0 /\ run'.content = None
  BY <1>2 DEF IInv, Shape, RunIsRecord, NextUnit
<1>9. /\ Units' = Units /\ Running /\ Running' /\ ~IsOpen'
      /\ ~last => InUnit' /\ unit' = unit /\ run'.writes > 0
  <2>1. run'.step = run.step /\ Running /\ Running' /\ Units' = Units
    BY <1>2, <1>8 DEF InUnit, Running, Units, UnitsOf
  <2>2. ~IsOpen'
    BY <1>3, <1>8 DEF IsOpen
  <2>3. QED
    BY <1>2, <1>3, <1>8, <2>1, <2>2 DEF InUnit, unit
<1>10. InWriting' /\ StillReadable'
  BY <1>2, <1>3, <1>5, <1>8, <1>9 DEF InWriting, StillReadable
<1>11. PartsAreCounted'
  <2>1. /\ IsFiniteSet(Parts) /\ Cardinality(Parts) \in Nat
        /\ Cardinality(Parts) <= mishaps + 1 /\ mishaps \in Nat /\ g \in Parts
    BY <1>2, <1>4, <1>5, FS_CardinalityType DEF DInv, PartsAreCounted, Parts
  <2>2. Parts' \subseteq Parts \ {g}
    BY <1>5, <1>7, ValuesDiffer DEF Parts
  <2>3. /\ IsFiniteSet(Parts \ {g})
        /\ Cardinality(Parts \ {g}) = Cardinality(Parts) - 1
    BY <2>1, FS_RemoveElement
  <2>4. /\ IsFiniteSet(Parts') /\ Cardinality(Parts') <= Cardinality(Parts \ {g})
        /\ Cardinality(Parts') \in Nat
    BY <2>2, <2>3, FS_Subset, FS_CardinalityType
  <2>5. QED
    BY <1>2, <1>9, <2>1, <2>3, <2>4 DEF PartsAreCounted
<1>12. ASSUME mishaps = 0
       PROVE  /\ PartIsOpen' /\ NothingIsBad' /\ WrittenSoFar' /\ SameRun' /\ MarkersShow'
              /\ PassedLeave' /\ FinishedLeave'
  <2>1. /\ PartIsOpen /\ NothingIsBad /\ WrittenSoFar /\ SameRun /\ MarkersShow
        /\ PassedLeave /\ FinishedLeave
    BY <1>12 DEF DInv, Undamaged
  <2>2. \A f \in DOMAIN files : There(f) => There(f)'
    BY <1>2, <1>5, <1>6, <1>7 DEF There, Exists
  <2>3. PartIsOpen'
    BY <1>5, <1>7, <2>1, ValuesDiffer DEF PartIsOpen
  <2>4. NothingIsBad'
    BY <1>7, <1>8, <2>1, ValuesDiffer DEF NothingIsBad
  <2>5. \A f \in ToSet(unit.outs) :
            last => (files[f] = run.content \/ f = g) /\ There(f)'
    <3>1. SUFFICES ASSUME NEW f \in ToSet(unit.outs), last
                   PROVE  (files[f] = run.content \/ f = g) /\ There(f)'
      OBVIOUS
    <3>2. PICK m \in DOMAIN unit.outs : f = unit.outs[m]
      BY DEF ToSet
    <3>3. 2 * m - 1 <= run.writes /\ f \in DOMAIN files
      BY <1>3, <1>4, <3>1, <3>2
    <3>4. files[f] \in {Part, run.content}
      BY <1>3, <2>1, <3>2, <3>3 DEF WrittenSoFar
    <3>5. files[f] = run.content \/ f = g
      BY <2>1, <3>3, <3>4 DEF PartIsOpen
    <3>6. There(f)
      BY <1>5, <3>4, ValuesDiffer DEF There, Exists
    <3>7. QED
      BY <2>2, <3>3, <3>5, <3>6
  <2>6. WrittenSoFar'
    <3>1. CASE last
      BY <1>8, <3>1 DEF WrittenSoFar
    <3>2. CASE ~last
      <4>1. unit.needs \subseteq DOMAIN files
        BY <1>2, <1>3, UnitIsWork
      <4>2. \A f \in unit.needs : There(f)'
        BY <1>3, <2>1, <2>2, <4>1 DEF WrittenSoFar
      <4>3. ASSUME NEW m \in DOMAIN unit.outs, 2 * m - 1 <= run.writes + 1
            PROVE  files'[unit.outs[m]] \in {Part, run.content}
        <5>1. m \in Nat /\ unit.outs[m] \in DOMAIN files
          BY <1>2, <1>3, <1>4, UnitObeys
        <5>2. 2 * m - 1 <= run.writes
          BY <1>3, <4>3, <5>1
        <5>3. files[unit.outs[m]] \in {Part, run.content}
          BY <1>3, <2>1, <5>2 DEF WrittenSoFar
        <5>4. QED
          BY <1>6, <1>7, <3>2, <5>1, <5>3
      <4>4. QED
        BY <1>8, <1>9, <3>2, <4>2, <4>3 DEF WrittenSoFar
    <3>3. QED
      BY <3>1, <3>2
  <2>7. SameRun'
    <3>1. SUFFICES ASSUME NEW u \in WorkOf(experiment), u.kind = "rescored"
                   PROVE  OfOneRun(u)'
      BY <1>2 DEF SameRun
    <3>2. u.needs \subseteq DOMAIN files /\ OfOneRun(u) /\ u.needs \cap gone = {}
      BY <1>3, <1>4, <1>6, <2>1, <3>1, WorkObeys, RescoredIsOne DEF SameRun, FilesOf
    <3>3. \A f \in u.needs : files'[f] = IF f = g THEN run.content ELSE files[f]
      BY <1>7, <3>2
    <3>4. CASE ToSet(unit.outs) \cap u.needs = {}
      <4>1. \A f, h \in u.needs : files'[f] = files'[h]
        BY <1>4, <3>2, <3>3, <3>4 DEF OfOneRun, Rewrites
      <4>2. ~Rewrites(u)'
        BY <1>8, <1>9, <3>4 DEF Rewrites
      <4>3. QED
        BY <4>1, <4>2 DEF OfOneRun
    <3>5. CASE ToSet(unit.outs) \cap u.needs # {} /\ last
      <4>1. \/ u.needs \subseteq ToSet(unit.outs)
            \/ \A f \in u.needs : files[f] \in {Part, run.content}
        BY <1>3, <3>2, <3>5 DEF OfOneRun, Rewrites
      <4>2. \A f \in u.needs : files[f] = run.content \/ f = g
        BY <2>1, <2>5, <3>2, <3>5, <4>1 DEF PartIsOpen
      <4>3. \A f \in u.needs : files'[f] = run.content
        BY <3>3, <4>2
      <4>4. ~Rewrites(u)'
        BY <1>8, <3>5 DEF Rewrites
      <4>5. QED
        BY <4>3, <4>4 DEF OfOneRun
    <3>6. CASE ToSet(unit.outs) \cap u.needs # {} /\ ~last
      <4>1. \/ u.needs \subseteq ToSet(unit.outs)
            \/ \A f \in u.needs : files[f] \in {Part, run.content}
        BY <1>3, <3>2, <3>6 DEF OfOneRun, Rewrites
      <4>2. Rewrites(u)' /\ run'.content = run.content /\ unit' = unit
        BY <1>8, <1>9, <3>6 DEF Rewrites
      <4>3. \/ u.needs \subseteq ToSet(unit'.outs)
            \/ \A f \in u.needs : files'[f] \in {Part, run'.content}
        BY <3>3, <4>1, <4>2
      <4>4. QED
        BY <4>2, <4>3 DEF OfOneRun
    <3>7. QED
      BY <3>4, <3>5, <3>6
  <2>8. MarkersShow'
    <3>1. SUFFICES ASSUME NEW s \in DOMAIN Programs[experiment],
                          NEW i \in DOMAIN UnitsOf(s),
                          NEW m \in UnitsOf(s)[i].markers,
                          Vouches(experiment, UnitsOf(s), i, m), Exists(m)',
                          NEW f \in Shown(UnitsOf(s), i)
                   PROVE  There(f)' \/ BeingWritten(f)'
      BY <1>2 DEF MarkersShow, UnitsOf
    <3>2. m \in DOMAIN files /\ f \in DOMAIN files
      BY <1>3, <3>1, ProgramIsWork, WorkObeys, ShownIsThere DEF FilesOf
    <3>3. Exists(m)
      BY <1>5, <1>7, <3>1, <3>2, ValuesDiffer DEF Exists
    <3>4. There(f) \/ f \in ToSet(unit.outs)
      BY <2>1, <3>1, <3>3 DEF MarkersShow, BeingWritten
    <3>5. CASE There(f)
      BY <2>2, <3>2, <3>5
    <3>6. CASE f \in ToSet(unit.outs) /\ last
      BY <2>5, <3>6
    <3>7. CASE f \in ToSet(unit.outs) /\ ~last
      BY <1>9, <3>7 DEF BeingWritten
    <3>8. QED
      BY <3>4, <3>5, <3>6, <3>7
  <2>9. FinishedLeave' /\ \A u \in WorkOf(experiment) : Leaves(u) => Leaves(u)'
    BY <1>2, <1>3, <2>1, <2>2, LeavesStay
  <2>10. PassedLeave'
    <3>1. \A i \in DOMAIN Units : i < run.unit => Leaves(Units[i])
      BY <1>9, <2>1 DEF PassedLeave
    <3>2. \A i \in DOMAIN Units : Units[i] \in WorkOf(experiment) /\ i \in Nat
      BY <1>2, <1>3, UnitIsWork, ProgramIsWork
    <3>3. SUFFICES ASSUME NEW i \in DOMAIN Units, i < run'.unit,
                          NEW u \in WorkOf(experiment), u = Units[i]
                   PROVE  Leaves(u)'
      BY <1>9, <3>2 DEF PassedLeave
    <3>4. CASE i < run.unit
      BY <2>9, <3>1, <3>3, <3>4
    <3>5. CASE ~(i < run.unit)
      <4>1. last /\ u = unit
        BY <1>3, <1>8, <3>2, <3>3, <3>5 DEF unit
      <4>2. QED
        BY <2>5, <4>1 DEF Leaves
    <3>6. QED
      BY <3>4, <3>5
  <2>11. QED
    BY <2>3, <2>4, <2>6, <2>7, <2>8, <2>9, <2>10
<1>13. QED
  BY <1>2, <1>10, <1>11, <1>12 DEF DInv, Undamaged

LEMMA DamageInvariant == Spec => []DInv
<1>1. IInv /\ DInv /\ [Next]_vars => DInv'
  <2> SUFFICES ASSUME IInv, DInv, [Next]_vars PROVE DInv'
    OBVIOUS
  <2>1. CASE Next
    BY <2>1, QuietDamage, OpensDamage, ClosesDamage DEF Next
  <2>2. CASE UNCHANGED vars
    BY <2>2, SeesNothing DEF vars
  <2>3. QED
    BY <2>1, <2>2
<1>2. QED
  BY Invariant, InitDamage, <1>1, PTL DEF Spec

(* A step that is not running has nothing open.                                     *)
LEMMA RestsClosed == IInv /\ DInv /\ ~Running => run.writes = 0 /\ ~IsOpen
<1> SUFFICES ASSUME IInv, DInv, ~Running PROVE run.writes = 0 /\ ~IsOpen
  OBVIOUS
<1>1. run.writes = 0
  BY DEF IInv, Shape, DInv, InWriting, InUnit
<1>2. QED
  BY <1>1 DEF IsOpen

LEMMA UndamagedHolds == IInv /\ DInv => UndamagedUnlessKilled
<1> SUFFICES ASSUME IInv, DInv, mishaps = 0
             PROVE  /\ \A f \in DOMAIN files :
                         /\ files[f] \notin {Cut, <<"mixed">>}
                         /\ files[f] = Part => InUnit /\ f \in ToSet(unit.outs)
                    /\ ~Running =>
                         \A s \in DOMAIN Programs[experiment] : \A i \in DOMAIN UnitsOf(s) :
                           LET u == UnitsOf(s)[i]
                           IN  Done(u) \/ (/\ s \in finished
                                           /\ u.fails = "ends" /\ u.when = {} /\ ~u.maybe)
                                 => \A f \in ToSet(u.outs) : Kept(f)
  BY DEF UndamagedUnlessKilled
<1>1. PartIsOpen /\ NothingIsBad /\ FinishedLeave /\ Shape
  BY DEF DInv, Undamaged, IInv
<1>2. ASSUME NEW f \in DOMAIN files
      PROVE  /\ files[f] \notin {Cut, <<"mixed">>}
             /\ files[f] = Part => InUnit /\ f \in ToSet(unit.outs)
  <2>1. files[f] \notin {Cut, <<"mixed">>}
    BY <1>1 DEF NothingIsBad, Mixed
  <2>2. ASSUME files[f] = Part PROVE InUnit /\ f \in ToSet(unit.outs)
    <3>1. IsOpen /\ f = unit.outs[Writing]
      BY <1>1, <2>2 DEF PartIsOpen
    <3>2. run.writes > 0 /\ InUnit
      BY <1>1, <3>1, OddOrNot DEF DInv, InWriting
    <3>3. unit.outs # <<>>
      <4>1. run.writes < 2 * Len(unit.outs)
        BY <1>1, <3>2 DEF Shape
      <4>2. QED
        BY <1>1, <3>2, <4>1, OddOrNot, EmptySeq
    <3>4. QED
      BY <1>1, <3>1, <3>2, <3>3, Halves, UnitObeys
  <2>3. QED
    BY <2>1, <2>2
<1>3. ASSUME ~Running, NEW s \in DOMAIN Programs[experiment], NEW i \in DOMAIN UnitsOf(s),
             \/ Done(UnitsOf(s)[i])
             \/ /\ s \in finished
                /\ UnitsOf(s)[i].fails = "ends" /\ UnitsOf(s)[i].when = {}
                /\ ~UnitsOf(s)[i].maybe,
             NEW f \in ToSet(UnitsOf(s)[i].outs)
      PROVE  Kept(f)
  <2>1. run.writes = 0 /\ ~IsOpen
    BY <1>3, RestsClosed
  <2>2. There(f)
    <3>1. CASE Done(UnitsOf(s)[i])
      BY <1>1, <1>3, <2>1, <3>1, DoneLeaves, ProgramIsWork
    <3>2. CASE /\ s \in finished
               /\ UnitsOf(s)[i].fails = "ends" /\ UnitsOf(s)[i].when = {}
               /\ ~UnitsOf(s)[i].maybe
      BY <1>1, <1>3, <3>2 DEF FinishedLeave, Leaves
    <3>3. QED
      BY <1>3, <3>1, <3>2
  <2>3. f \in DOMAIN files
    BY <1>1, <1>3, ProgramIsWork, WorkObeys DEF FilesOf
  <2>4. files[f] # Part
    BY <1>1, <2>1, <2>3 DEF PartIsOpen
  <2>5. QED
    BY <2>2, <2>4 DEF Kept, Complete, There, Exists
<1>4. QED
  BY <1>2, <1>3

(* The parts of DamageIsBounded that hold of any programs: without a mishap every    *)
(* file is whole and made of whole files, what is rescored is of one run, and what    *)
(* is marked as done is there; each mishap leaves one file cut at the most.           *)
THEOREM DamageStaysBounded == Spec => [](UndamagedUnlessKilled /\ OneFilePerMishap)
<1>1. IInv /\ DInv => OneFilePerMishap
  BY DEF DInv, PartsAreCounted, Parts, IsOpen, OneFilePerMishap
<1>2. IInv /\ DInv => UndamagedUnlessKilled /\ OneFilePerMishap
  BY <1>1, UndamagedHolds
<1>3. QED
  BY Invariant, DamageInvariant, <1>2, PTL

-----------------------------------------------------------------------------
(* What a stop loses.                                                               *)

NoResultLost == unsaved \cap AllResults = {}

(* What a run drops when it is stopped or fails: no result, if it computed nothing  *)
(* or always fails before it saves.                                                  *)
LEMMA DropsNoResult ==
  ASSUME Shape, InUnit, NoResultLost, run.polls > 0 => ~Publishes(unit)
  PROVE  Dropped \cap AllResults = {}
<1>1. WritesItsOwn(unit)
  BY UnitObeys
<1>2. unit.holds \cap AllResults = {}
  BY <1>1 DEF WritesItsOwn
<1>3. run.polls > 0 => ToSet(unit.outs) \cap AllResults = {}
  <2>1. SUFFICES ASSUME run.polls > 0, NEW f \in ToSet(unit.outs), f \in AllResults
                 PROVE  FALSE
    OBVIOUS
  <2>2. PICK n \in DOMAIN unit.outs : f = unit.outs[n]
    BY <2>1 DEF ToSet
  <2>3. QED
    BY <1>1, <2>1, <2>2 DEF WritesItsOwn, Publishes
<1>4. QED
  BY <1>2, <1>3 DEF Dropped, NoResultLost

(* A result of the tests is never computed and thrown away: its unit looks for STOP  *)
(* before it computes and not again, and what it has begun to compute it can read to *)
(* the end, since nobody takes its files away meanwhile.                             *)
THEOREM NoResultIsLost == Spec => []NoResultLost
<1>1. Init => NoResultLost
  BY DEF Init, NoResultLost
<1>2. IInv /\ DInv /\ NoResultLost /\ [Next]_vars => NoResultLost'
  <2> SUFFICES ASSUME IInv, DInv, NoResultLost, [Next]_vars PROVE NoResultLost'
    OBVIOUS
  <2>1. CASE UNCHANGED unsaved
    BY <2>1 DEF NoResultLost, AllResults
  <2>2. CASE unsaved' = {}
    BY <2>2 DEF NoResultLost
  <2>3. InUnit => Shape /\ run.polls \in Nat /\ unit.polls \in Nat
    BY UnitObeys DEF IInv, Shape
  <2>4. InUnit /\ Publishes(unit) => unit.polls <= 1 /\ unit.fails # "always"
    BY <2>3, UnitObeys, RunObeys DEF InUnit, PublishesWhatItRead, Publishes
  <2>5. CASE Stops
    <3>1. InUnit /\ run.polls < unit.polls /\ unsaved' = Dropped
      BY <2>5 DEF Stops, Polling, Due
    <3>2. run.polls > 0 => ~Publishes(unit)
      BY <2>3, <2>4, <3>1
    <3>3. QED
      BY <2>3, <3>1, <3>2, DropsNoResult DEF NoResultLost, AllResults
  <2>6. CASE Raises
    <3>1. InUnit /\ unsaved' = Dropped
      BY <2>6 DEF Raises
    <3>2. run.polls > 0 => unit.fails = "always"
      BY <2>3, <2>6 DEF Raises, Untouched, DInv, StillReadable
    <3>3. QED
      BY <2>3, <2>4, <3>1, <3>2, DropsNoResult DEF NoResultLost, AllResults
  <2>7. QED
    BY <2>1, <2>2, <2>5, <2>6 DEF Next, vars, Starts, Widens, Skips, PassesGate, Computes,
       Loads, Opens, Closes, Ends, Dies, ToolFails
<1>3. QED
  BY Invariant, DamageInvariant, <1>1, <1>2, PTL DEF Spec
=============================================================================
