---------------------------- MODULE MCBenchRuns ----------------------------
(* Twelve small experiments: two embeddings, two thresholds and two dev meetings;  *)
(* of run_chunk.py's meetings one room and one call, each a world of its own.    *)
EXTENDS BenchRuns, TLC

TheEmbeddings == <<"campplus", "eres2netv2">>

Tuning ==
    ("tune" :> Tune) @@ ("korean" :> Evaluate("korean")) @@ ("ami" :> Evaluate("ami"))
      @@ ("long" :> LongMeeting)
Linking ==
    ("tune" :> Tune) @@ ("online" :> EvaluateOnline)
      @@ ("absorb" :> TuneAbsorb \o EvaluateAbsorb("korean") \o EvaluateAbsorb("ami"))
Retuning ==
    ("tune30" :> Tune30) @@ ("korean30" :> Evaluate30("korean")) @@ ("ami30" :> Evaluate30("ami"))
Piping ==
    ("extract-dev" :> ExtractSet("dev30")) @@ ("verify" :> Verify)
      @@ ("grid" :> ForEach(Grid)) @@ ("preregister" :> Preregister)
      @@ ("all of dev" :> ExtractSet("dev30") \o Verify \o ForEach(Grid) \o Preregister)
      @@ ("extract-test" :> ExtractSet("korean"))
      @@ ("pipe" :> EvaluatePipe("korean", "pipe") \o EvaluatePipe("korean", "pipe-scene"))
ChunkDev(s) ==
    LET dev == Build("dev", s) \o ExtractChunk("dev", s)
    IN  ("build-dev extract-dev" :> dev) @@ ("grid" :> GridChunk(s)) @@ ("widen" :> Widen(s))
          @@ ("preregister" :> PreregisterChunk)
          @@ ("all of dev" :> dev \o GridChunk(s) \o Widen(s) \o PreregisterChunk)
ChunkTest(s) ==
    ("build-test" :> Build("test", s)) @@ ("extract-test" :> ExtractChunk("test", s))
Testing(s) == ("pipe" :> Pipe(s)) @@ ("long" :> LongRuns("long", s))
TestFiles(s) ==
    {Ref("test", s), Meta("test", s)}
      \cup {Wav("test", s, t) : t \in ToSet(Tracks("test", s))}
      \cup {TrackStore("test", s, t, e) : t \in ToSet(Tracks("test", s)), e \in ToSet(TheEmbeddings)}
Others ==
    ("aec" :> Aec) @@ ("llm_models" :> BuildModel) @@ ("asr_meetings" :> RecordMeeting)
      @@ ("app_summary" :> Summarise) @@ ("run_stream" :> Measure("stream"))
      @@ ("run_longform" :> Measure("longform")) @@ ("rescore" :> Rescore(<<"longform", "stream">>))
(* The app's summary again and again, over transcripts that are made anew.         *)
Summaries == ("asr_meetings" :> RecordMeeting) @@ ("app_summary" :> Summarise)

TheExperiments ==
    ("tuning" :> Tuning) @@ ("linking" :> Linking) @@ ("retuning" :> Retuning) @@ ("piping" :> Piping)
      @@ ("room-dev" :> ChunkDev("room")) @@ ("call-dev" :> ChunkDev("call"))
      @@ ("room-test" :> ChunkTest("room")) @@ ("call-test" :> ChunkTest("call"))
      @@ ("room-pipe" :> (Testing("room") @@ ("ami" :> Ami))) @@ ("call-pipe" :> Testing("call"))
      @@ ("others" :> Others) @@ ("summaries" :> Summaries)

AmiStores == {Store("ami", e) : e \in ToSet(TheEmbeddings)}
TheGiven ==
    [x \in {"tuning", "linking", "retuning", "piping"} |-> {}]
      @@ [x \in {"room-dev", "call-dev"} |-> {DiarPre}]
      @@ [x \in {"room-test", "call-test"} |-> {}]
      @@ ("room-pipe" :> {Pre} \cup AmiStores \cup TestFiles("room"))
      @@ ("call-pipe" :> {Pre} \cup AmiStores \cup TestFiles("call"))
      @@ ("others" :> {Pre, Manifest, Wav("test", "call", "mic"), Wav("test", "call", "system")}
                        \cup MeetingFiles("test", "call", "system", "mic", First))
      @@ ("summaries" :> {Manifest, Gguf, Transcript})
=============================================================================
