----------------------------- MODULE BenchSteps -----------------------------
(* The experiment programs of bench/: which steps each offers, and what every  *)
(* step does, unit by unit, to the files it leaves behind.  A unit (Work) is   *)
(* the longest piece the program cannot take up in the middle: the files that  *)
(* show it was done already, how often it looks for the STOP file while it     *)
(* computes, the files it reads and the files it writes, in order.  What is    *)
(* computed is left to Diarization and others; BenchRuns runs the units.       *)
EXTENDS Integers, Sequences, SequencesExt

CONSTANTS
    Embeddings,     \* the speaker embeddings compared, in the order of the code
    Thresholds,     \* how many thresholds a grid tries
    DevMeetings     \* how many dev meetings a grid is scored on

None  == <<>>           \* no such file
Part  == <<"part">>     \* the file is there, its end is not
Whole == <<"whole">>
Cut   == <<"cut">>      \* whole, and made from a file that was not

(* What one unit does.  markers: if all of these exist it was done; reads:     *)
(* they are read back then; gate: how many units after it they spare, too;      *)
(* polls: looks for STOP, each before a piece of                                *)
(* computing; when: without these there is nothing to do; needs: parsed, so    *)
(* they must be whole; takes: raw data, used as far as it goes; holds: made    *)
(* before, in memory only; unlinks: what may be removed at the end; maybe: it  *)
(* may have nothing to write; kind: what is written; fails: what comes of an   *)
(* error.                                                                       *)
Work(markers, polls, needs, outs) ==
    [markers |-> markers, reads |-> FALSE, gate |-> 0, polls |-> polls, when |-> {},
     needs |-> needs, takes |-> {}, holds |-> {}, outs |-> outs, unlinks |-> {},
     maybe |-> FALSE, kind |-> "plain", fails |-> "ends"]

(* Files read before anything else: the program ends if one is not there.       *)
Reads(needs) == Work({}, 0, needs, <<>>)

ForEach(Units(_)) == FlattenSeq([i \in DOMAIN Embeddings |-> Units(Embeddings[i])])
First == Embeddings[1]

(* A result and the hypothesis it was scored on, in the order save writes them. *)
Result(set, e, system) == <<"result", set, e, system>>
Saved(set, e, system, needs) ==
    Work({Result(set, e, system)}, 1, needs,
         <<Result(set, e, system), <<"rttm", set, e, system>> >>)

-----------------------------------------------------------------------------
(* run_diar.py: thresholds tuned on dev meetings, and what they score.          *)
TuneFile(e) == <<"tune", e>>
Tune == ForEach(LAMBDA e : <<[Work({TuneFile(e)}, Thresholds, {}, <<TuneFile(e)>>)
                                EXCEPT !.reads = TRUE]>>)
ReadsThresholds == Reads({TuneFile(e) : e \in ToSet(Embeddings)})

Evaluate(set) ==
    <<ReadsThresholds>>
      \o ForEach(LAMBDA e : <<Saved(set, e, "th", {})>>
                              \o IF e = First THEN <<Saved(set, e, "oracle", {})>> ELSE <<>>)

(* The whole-meeting pass the links are compared with is made by every run that  *)
(* still has a link to score.  It is never saved: a stop at any link's look     *)
(* loses it.                                                                     *)
After(set) == <<"after", set>>
Links == <<"online0.4", "online0.5">>
Online(set) == <<Work({Result(set, First, Links[i]) : i \in DOMAIN Links}, 1, {}, <<>>)>>
                 \o [i \in DOMAIN Links |->
                       [Saved(set, First, Links[i], {}) EXCEPT !.holds = {After(set)}]]
EvaluateOnline == <<ReadsThresholds>> \o Online("korean") \o Online("ami")

AbsorbFile == <<"tune", First, "absorb">>
TuneAbsorb == <<[Work({AbsorbFile}, Thresholds, {}, <<AbsorbFile>>) EXCEPT !.reads = TRUE]>>
EvaluateAbsorb(set) == TuneAbsorb \o <<Saved(set, First, "absorb", {})>>

(* Each threshold of the 30-minute tuning has a file of its own.  evaluate30    *)
(* reads two names it never binds (run_diar.py:510): it computes a unit and     *)
(* ends with a NameError before it is saved.                                    *)
PointFile(e, i) == <<"tune30", e, i>>
Tune30 == ForEach(LAMBDA e : [i \in 1..Thresholds |->
              [Work({PointFile(e, i)}, 1, {}, <<PointFile(e, i)>>) EXCEPT !.reads = TRUE]])
Evaluate30(set) ==
    Tune30 \o <<Work({}, 0, {}, <<<<"tune30", "best">> >>)>>
      \o ForEach(LAMBDA e : <<[Saved(set, e, "th30", {}) EXCEPT !.fails = "always"]>>)

(* The embeddings of a meeting, stored once, and what the grid makes of them.   *)
Store(set, e) == <<"store", set, e>>
StoreMeta(set, e) == <<"store", set, e, "json">>
ExtractSet(set) == ForEach(LAMBDA e :
    <<Work({Store(set, e)}, 1, {}, <<Store(set, e), StoreMeta(set, e)>>)>>)

Verify == <<Work({}, DevMeetings * Len(Embeddings),
                 {Store("dev30", e) : e \in ToSet(Embeddings)}, <<<<"verify">> >>)>>

GridFile(e) == <<"grid", e>>
Grid(e) == <<[Work({GridFile(e)}, DevMeetings, {Store("dev30", e)}, <<GridFile(e)>>)
                EXCEPT !.reads = TRUE, !.kind = "grid"]>>

(* The settings the test sets will get.  A file that is there is read and never *)
(* written again.                                                               *)
Pre == <<"preregistered">>
Gated(units) ==
    <<[Work({Pre}, 0, {}, <<>>) EXCEPT !.reads = TRUE, !.gate = Len(units)]>> \o units

Registers(needs) == [Work({}, 0, needs, <<Pre>>) EXCEPT !.kind = "register"]
Preregister == Gated(ForEach(Grid) \o <<Registers({GridFile(e) : e \in ToSet(Embeddings)})>>)

ReadsRegistered == [Reads({Pre}) EXCEPT !.kind = "read"]
Published(work) == [work EXCEPT !.kind = "published"]
EvaluatePipe(set, system) ==
    <<ReadsRegistered>>
      \o ForEach(LAMBDA e : <<Published(Saved(set, e, system,
                                              {Store(set, e), StoreMeta(set, e)}))>>)

(* Four hours: the meeting is made without a look at STOP; a child process that *)
(* fails is printed and left.                                                   *)
LongWav == <<"long", "wav">>
LongRef == <<"long", "rttm">>
LongMeeting ==
    <<Work({LongWav}, 0, {}, <<LongWav, LongRef>>), ReadsThresholds>>
      \o ForEach(LAMBDA e : <<[Saved("long", e, "th", {LongRef})
                                 EXCEPT !.fails = "goes on", !.takes = {LongWav}]>>)

-----------------------------------------------------------------------------
(* run_chunk.py: meetings built for chunked diarization, its grid and one       *)
(* widening, and the test.  meta.json is a meeting's last file and its marker.  *)
Tracks(split, scene) == IF scene = "room" THEN <<"audio">>
                        ELSE <<"system", "mic">> \o IF split = "test" THEN <<"mix", "mic-bleed">> ELSE <<>>
Embedded(track) == track \notin {"mic", "mic-bleed"}
Wav(split, s, track) == <<split, s, track, "wav">>
Ref(split, s)  == <<split, s, "ref">>
Meta(split, s) == <<split, s, "meta">>
Build(split, s) ==
    <<Work({Meta(split, s)}, 1, {},
           [i \in DOMAIN Tracks(split, s) |-> Wav(split, s, Tracks(split, s)[i])]
             \o <<Ref(split, s), Meta(split, s)>>)>>

TrackStore(split, s, track, e) == <<split, s, track, IF Embedded(track) THEN e ELSE "labels">>
ExtractTrack(split, s, track, e) ==
    LET store == TrackStore(split, s, track, e)
    IN  <<Work({store}, 1, {Wav(split, s, track)}, <<store, store \o <<"json">> >>)>>
ExtractChunk(split, s) ==
    FlattenSeq([i \in DOMAIN Tracks(split, s) |->
        LET track == Tracks(split, s)[i]
        IN  IF Embedded(track) THEN ForEach(LAMBDA e : ExtractTrack(split, s, track, e))
            ELSE ExtractTrack(split, s, track, First)])

(* What a setting is scored on: the reference, the store it clusters and, on a  *)
(* call, the voice of the microphone.                                           *)
MeetingFiles(split, s, track, mic, e) ==
    {Ref(split, s), Meta(split, s), TrackStore(split, s, track, e)}
      \cup IF s = "call" /\ track = "system" THEN {TrackStore(split, s, mic, e)} ELSE {}
MainTrack(s) == IF s = "room" THEN "audio" ELSE "system"

GridChunk(s) == ForEach(LAMBDA e :
    <<Work({GridFile(e)}, 1, MeetingFiles("dev", s, MainTrack(s), "mic", e), <<GridFile(e)>>)>>)
WidenFile(e) == <<"widen", e>>
Widen(s) == ForEach(LAMBDA e :
    <<Work({WidenFile(e)}, 1, {GridFile(e)} \cup MeetingFiles("dev", s, MainTrack(s), "mic", e),
           <<WidenFile(e)>>)>>)

DiarPre == <<"diar", "preregistered">>
PreregisterChunk ==
    Gated(<<Registers({DiarPre} \cup {GridFile(e) : e \in ToSet(Embeddings)}
                        \cup {WidenFile(e) : e \in ToSet(Embeddings)})>>)

(* A setting whose clustering needs more memory than there is is left out; a     *)
(* file that cannot be read ends the run.                                        *)
PipeUnit(s, e, system, track, mic) ==
    <<[Published(Saved("test", e, system,
          MeetingFiles("test", s, track, mic, e)
            \cup IF system = "chunk-bleed-echo" THEN {Wav("test", s, mic), Wav("test", s, "system")} ELSE {}))
         EXCEPT !.fails = "left out"]>>
Pipe(s) ==
    <<ReadsRegistered>>
      \o ForEach(LAMBDA e :
           PipeUnit(s, e, "chunk", MainTrack(s), "mic") \o PipeUnit(s, e, "whole", MainTrack(s), "mic")
             \o IF s = "room" THEN <<>>
                ELSE PipeUnit(s, e, "chunk-bleed", "system", "mic-bleed")
                       \o PipeUnit(s, e, "chunk-bleed-echo", "system", "mic-bleed")
                       \o PipeUnit(s, e, "chunk-onetrack", "mix", "mic"))
Ami == <<ReadsRegistered>>
         \o ForEach(LAMBDA e : <<Published(Saved("ami", e, "chunk", {Store("ami", e)}))>>)

(* The child reads the settings itself; its parent prints what it said.         *)
LongRuns(set, s) == ForEach(LAMBDA e :
    <<[Saved(set, e, "chunk-process",
             {Pre, Ref("test", s), Meta("test", s), Wav("test", s, MainTrack(s))}
               \cup IF s = "call" THEN {Wav("test", s, "mic")} ELSE {})
         EXCEPT !.fails = "goes on", !.kind = "child"]>>)

-----------------------------------------------------------------------------
(* The other programs that leave files for a later run to find.                 *)

(* run_aec.py: the meeting is read again on every run, whatever is done.        *)
AecFile(condition, method) == <<"aec", condition, method>>
Aec ==
    <<ReadsRegistered,
      Reads(MeetingFiles("test", "call", "system", "mic", First)
              \cup {Wav("test", "call", "mic"), Wav("test", "call", "system")})>>
      \o [i \in 1..3 |->
            LET file == << AecFile("none", "raw"), AecFile("bleed", "raw"), AecFile("bleed", "sonora") >>[i]
            IN  Published(Work({file}, 1, {}, <<file>>))]

(* llm_models.py: a model is built when the manifest names it and its file is   *)
(* there; a failed build is printed and the next model's turn comes.            *)
Manifest == <<"manifest">>
Gguf == <<"gguf">>
BuildModel == <<Reads({Manifest}),
                [Work({Gguf}, 0, {}, <<Gguf, Manifest>>) EXCEPT !.fails = "goes on"]>>

(* asr_meetings.py: a recording left by --keep-audio is heard again, however    *)
(* long it is; the transcript is made anew by every run.                         *)
Pcm == <<"pcm">>
Transcript == <<"transcript">>
RecordMeeting == <<Work({Pcm}, 0, {}, <<Pcm>>),
                   [Work({}, 0, {}, <<Transcript>>)
                      EXCEPT !.takes = {Pcm}, !.unlinks = {Pcm}, !.kind = "measured"]>>

(* app_summary.py: answers that are there when a run starts are replayed, of     *)
(* whatever transcript they are; else the model is run and its answers are kept. *)
(* An error of the example is part of the result.  A replay takes no time: the   *)
(* result it replaces is read, and its time goes on with the new score.          *)
Answers == <<"answers">>
AppOut == <<"answers", "out">>
AppResult == <<"result", "app">>
Summarise ==
    <<Reads({Manifest}), [Reads({}) EXCEPT !.kind = "mode"],
      [Work({Answers}, 0, {Gguf, Transcript}, <<Answers>>)
         EXCEPT !.fails = "goes on", !.kind = "answers"],
      Work({}, 0, {}, <<AppOut>>),
      [Work({}, 0, {Transcript}, <<AppResult>>) EXCEPT !.kind = "scored"]>>

(* run_utterances.py, run_stream.py, run_longform.py measure an engine and write*)
(* the result, then what it heard and, of the long form, what the engine        *)
(* dropped, if it did: else what an earlier run dropped stays beside the result. *)
(* rescore.py computes the error rate of every result there is from what was    *)
(* heard.                                                                        *)
Measured(x) == <<"measured", x>>
Heard(x) == <<"heard", x>>
LeftOut(x) == <<"dropped", x>>
Measure(x) ==
    <<[Work({}, 0, {}, <<Measured(x), Heard(x)>>) EXCEPT !.kind = "measured"]>>
      \o IF x = "longform"
         THEN <<[Work({}, 0, {}, <<LeftOut(x)>>) EXCEPT !.maybe = TRUE, !.kind = "measured"]>>
         ELSE <<>>
Rescore(names) ==
    [i \in DOMAIN names |->
        [Work({}, 0, {Measured(names[i]), Heard(names[i])}, <<Measured(names[i])>>)
           EXCEPT !.when = {Measured(names[i])}, !.kind = "rescored"]]
=============================================================================
