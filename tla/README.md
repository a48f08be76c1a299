# A TLA+ model of MeetButler (ghostmeet)

The repository holds two products. MeetButler (`crates/`, `app/`) is a desktop app in Rust
that records a meeting on two channels, captions it while it runs, transcribes it again with
a larger model when it is over, and summarises it in a process of its own. ghostmeet 0.1
(`legacy/`) is a Chrome extension and a Python backend that does the same for a browser tab.
This directory models the parts of both in which several threads, tasks or processes meet:
what is written when, who waits for whom, what a crash, a quit or a failing call leaves
behind. `bench/` holds the programs that chose the products' models: what they compute
(diarization, its score, made-up meetings and the score of their summaries) and how they
keep what they computed are modelled too, since the numbers of the documentation rest on
them.

The modules are checked with TLC on small instances, and the central properties of
`Recorder`, `Transcriber`, `AppLifecycle`, `Summary`, `LegacyBackend`, `BenchRuns`,
`MeetingGen` and `Assign` are proved with TLAPS for every value of the constants.
`PROJECT.json` lists components, runs, findings, hazards and theorems, and says for each
definition which lines it models.

## Inventory

| component | state it keeps | operations | talks to | what is hard, what makes it correct |
|---|---|---|---|---|
| session store (`store.rs`) | tables sessions, segments, summaries; one connection under a mutex | save, rename, delete, recover, add and replace segments, save summary | called by recorder and app | each call is a transaction, a sequence of calls is not; a transcript is of one pass, whole rows are written back by whoever copied them |
| recorder (`recorder.rs`, `pipeline.rs`) | map of live sessions, one worker and one audio store per channel | start, sink, stop, finalize, rename, delete, set_vocabulary | store, transcribers, app | stop joins workers that still deliver; delete, rename and the final pass meet it; crash anywhere; a stopped session has all that was said, and everything started ends |
| incremental transcriber (`incremental.rs`) | cursor, blind cut, end of what was emitted, transcript | step | audio file, decoder | a window is cut where speech goes on and read again; nothing twice, nothing lost, no standstill |
| audio file (`pcm_store.rs`) | file, published length | append, read, close | capture, transcriber | a write that fails half way |
| span decoder, filters (`span_decoder.rs`, `spans.rs`, `blocklist.rs`, `vocabulary.rs`) | none | cut speech into spans, drop echoes and hallucinations | models | boundaries of spans |
| model cache (`model_cache.rs`) | map of loaded models under a lock | get or load, evict, clear | app | two large models in memory at once |
| speech models (`whisper.rs`, `silero.rs`) | network weights | decode | | bindings |
| app lifecycle (`app/src-tauri/src/lib.rs`) | current meeting, after-meeting thread, quit and cancel flags, cached models | start, stop, summarize, cancel, shutdown | recorder, summary, cache | blocking calls under locks on two kinds of threads, flags set and cleared by different ones; one meeting, one thread after it, no missed quit, no deadlock |
| summary (`summary.rs`, `merge.rs`) | none between calls | one generation per chunk, one overall | sidecar | cancel between and in generations, one retry |
| summarizer sidecar (`client.rs`, `server.rs`, `protocol.rs`) | queue, cancel flags, loaded model | generate, cancel, end | pipes to the app | a cancel races its request, the end of input, the death of either side |
| language model (`llama.rs`) | network weights | generate | | binding |
| capture (`crates/meetbutler-audio`) | streams, clocks | open, supervise, rebuild, fill gaps | recorder's sink | a stream is rebuilt while the old one still reports |
| resampling, markdown, windows | | | | signal processing, formatting, user interface |
| legacy backend (`legacy/backend`) | sessions, pipelines, subscribers; one worker task, executor and decoder per capture; SQLite | websocket of audio, of captions, transcript, summary | extension | tasks and threads; a task is cancelled while its thread goes on; an id is used again |
| legacy extension (`legacy/extension`) | active capture, recorder, socket, side panel | start, stop, complete | backend | messages of an earlier capture meet a later one |
| bench runs (`run_diar.py`, `run_chunk.py` and seven more) | result files, a STOP file | the steps of each experiment | the programs below, other tools | a run is stopped or dies anywhere and is started again; what exists is taken for done; settings written down once, before any result |
| diarization (`diar_pipe.py`, `diar_chunk.py`) | labels, embeddings, pieces, candidates | extract, cluster, join, link, floor, reconstruct | models | floors with nobody above them, overlaps that join what must stay apart, votes counted in blocks |
| diarization score (`der.py`) | prices and the matching | score, assign, segment accuracy | run_diar, run_chunk | a slip gives a plausible number |
| mock meetings (`meeting_gen.py`) | answer key, values drawn | one item after the other, or taken back | run_summary | an item taken back leaves nothing; values do not repeat |
| summary score (`summary_score.py`, `run_summary.py`, `app_summary.py`) | chunks, merged lists | generate, merge, score | sidecar | a chunk ends inside an item; a wrong number must not count as right |
| other benchmarks (`engines.py`, `report.py`, `common.py`, ...) | none | adapters, tables, text and signal processing | | |

## Modules

| module | models | abstract or detailed |
|---|---|---|
| `SessionStore` | the writes of `store.rs` as operators on three tables | used by `Recorder` |
| `Recorder` | `recorder.rs` and the worker of `pipeline.rs`, with the app's after-meeting thread | extends `SessionStore`; what a pass decodes is abstract here |
| `Transcriber` | `incremental.rs`, one channel, sample by sample, and the drain of `pipeline.rs` | what `Recorder` abstracts |
| `AppLifecycle` | `lib.rs`: start, stop, shutdown and the threads they meet | `Recorder`'s stop and finalize are single steps here |
| `Sidecar` | `server.rs`: reader, loop, cancel flags, both pipes | used by `Summary` |
| `Summary` | `summary.rs` and `client.rs` over the sidecar | extends `Sidecar` |
| `LegacyBackend` | `legacy/backend`: handler, pipeline, executor, decoder, tables | |
| `BenchSteps` | the steps of the nine programs: units, files read and written, looks for STOP | used by `BenchRuns` |
| `BenchRuns` | one experiment, its files, a run that stops, dies or is started again | extends `BenchSteps`; refines `Registry` |
| `Registry` | settings registered once, results published once | what `preregister` promises |
| `Der`, `Assign` | `der.py`: turns, the frames that are scored, the matching | operators, and the loops of `assign` as steps |
| `DiarPipe` | `diar_pipe.py` | operators |
| `Diarization` | `diar_chunk.py` and the way from the models to a score | extends `DiarPipe`, `Assign` |
| `MeetingGen` | `meeting_gen.py` | used by the next two |
| `SummaryScore` | `summary_score.py` | extends `MeetingGen` |
| `MeetingSummary` | `run_summary.py`, `app_summary.py`, the cut and merge of `summary.rs` and `merge.rs`: a meeting summarised and scored | extends `SummaryScore` |
| `RecorderProofs`, `TranscriberProofs`, `AppLifecycleProofs`, `SummaryProofs`, `LegacyBackendProofs`, `BenchRunsProofs`, `DiarizationProofs` | the theorems | each extends its module |
| `MeetingGenProofs` | the theorem about the answer key | extends `MeetingSummary`, whose specification it is about |
| `MC...` | model values of the instances | |

An operator whose comment begins with `Slip:` is no part of the model. It is the definition
after it with a mistake somebody could make (a guard left out, a step in the wrong place),
and stands beside it because some property must reject it: each property is known to fail
when the definition is replaced by its slip.

### SessionStore and Recorder

`rows`, `segments` and `summaries` are the tables, per session; a segment is a channel, an
utterance and the kind of pass it came from. `live` is the map of running recordings with
the in-memory copy of the row; `recorded`, `open`, `length` the audio stores; `worker`,
`stopping`, `cursor`, `batch` the pipeline worker of each channel, `memory` the transcript
the pipelines of a session keep themselves. `Recorder::stop` is `StopBegin` (the session
leaves the map), `StopMark` (saved as transcribing), `StopChannel` (audio closed, worker
told), `JoinChannel`, `StopCount` (the transcript is counted) and `StopClose` (saved as
stopped), a step wherever the code locks, calls the store or waits. A worker decodes
(`Decode`: the segments are in `memory` at once), stores (`Deliver`) and shows (`Notify`),
so that a caption can be cut off between any two. `View` is what `get_transcript` answers:
`memory` while the session is live, the table afterwards. `finalize` is `FinalizeBegin` to
`FinalizeReturns` in the same way, with `FinalizeFail` for a pass or a store call that
fails, and `FinalizeSettle` for one that is cancelled. `DeleteBegin`, `DeleteRows` and
`DeleteFiles` are the main thread. `Crash` ends the process anywhere and runs
`recover_interrupted`. History variables (`missed`, `captions`, `named`, `deleted`) are only
read by properties.

Abstractions. An utterance is what a pass makes one segment of; a pass decodes as many as it
likes, at least one when it drains, which is what `Transcriber` is about. A decode that
fails and a drain that gives up are counted as faults. Timestamps, languages, durations and
the vocabulary are left out: no decision of the code depends on them. `set_vocabulary` is
left out with its load-and-save of a stored row, because the app calls it only on a live
session. The status `error` is never written by the code.

### Transcriber

`captured` grows by units of time, `voiced` says which are speech. `PassBegins` reads the
length and the window (`WindowStart`, `WindowEnd`) as `step` does, `PassDecodes` is the rest
of `step`: what was heard (`Hearings`), what may be committed before the hold-back margin
(`Committable`), a blind cut when a full window is nothing but speech (`Full`), what is
accepted because its midpoint is past what was emitted (`Accepted`), where the cursor goes
(`Resume`). Capture goes on between the two. `PassFails` moves past the window, `WorkerEnds`
ends the drain. `cuts` remembers where the cursor was put without a pause of the speech
there: blind cuts and ends of failed windows.

The decoder hears all the speech of a window, in disjoint segments that it cuts wherever it
likes. Its padding, the filters and blank texts are left out. Units stand for samples, at
any scale: all comparisons of the code are between sums of the four parameters. Midpoints
are compared doubled.

### AppLifecycle

`meeting` is what each meeting is doing, `current`, `slot` (the field `finalizing`),
`quitting` and `cancel` are the fields of `AppState`. Calls of `start_recording` and
`stop_recording` run on threads of their own (`startAt`, `stopAt`), `summarize` and
`shutdown` on the main thread (`mainAt`), final passes and summaries on after-meeting
threads (`workAt`). A step is what happens under one lock or between two blocking calls.
Where the code holds a lock over a blocking call, so does the model: `start_recording` opens
the recorder and sets the menu bar icon with the lock of `current`, and both `summarize` and
`shutdown` join the after-meeting thread with the lock of `finalizing` (the guard is a
temporary of the statement that joins). The main thread takes a call only when it is idle;
so it does the menu bar calls of other threads, which wait for it (`TrayServed`, external:
that is how tauri's tray and menu items work; the four calls of `set_tray` are one). The
command `recording` is the main thread's other use of `current`. Recording, draining and the
final pass themselves are `Recorder`'s and single steps here.

### Sidecar and Summary

Lines in `stdin` are requests and cancels, events in `stdout` answers; the pipe and the
channel behind it are one queue. The reader thread (`ReadsGenerate`, `ReadsCancel`,
`ReadsEnd`) and the loop (`LoopTakes` to `LoopClears`) share `Cancels`, which has one lock,
so that each use of it is a step. The loop's last look at the flag (`LoopLooks`) and the
event it then writes (`LoopAnswers`) are two: a cancel that comes between them is lost, as
in the code. `inTime` records whether the cancel had been taken in at that look. `Summary`
is `summarise` with its check of the flag before each generation, its one retry when a
prompt does not fit, the event callback that asks for a cancel once, and `Drop`.
`CancelsElsewhere` is the `Canceller`, `Dies` the end of the process anywhere, `AppDies`
that of the app. Texts, chunks and merging are left out; a line that is no request and the
shutdown line are left out as no client sends them.

### LegacyBackend

The handler of `/ws/audio` (`at`), its worker task and the drain (`stage`), the executor and
the decoder thread, for captures that use one session id; captures of different ids share
nothing. What happens between two awaits is one step: `Accepts` is everything up to the
greeting, `StopReceived` runs from the client's stop to the first wait with the worker
cancelled, `Finishes` from the end of the drain to the complete notice, the row and the
removal of the file included. `PassBegins` and `PassEnds` are `transcriber.step` on the
executor; a pass whose task was cancelled goes on. `file` is whose audio is under the path
all captures of the id share. As in `Recorder`, a chunk is one utterance. A forced pass
moves on or, in the middle of the audio, does not: after a blind cut a full window may begin
with the echo of what was emitted, which is refused, and end in speech that is held back
(`PassHoldsBack`; the case `Transcriber` follows sample by sample in the Rust port of this
code). Each such pass is one of the `MaxDrain` of the drain. The subscriptions of side
panels (one panel listens) and the summary endpoint are left out. `Restart` is a crash or an
orderly shutdown, which saves nothing more.

### BenchSteps, BenchRuns and Registry

A step of a program is a sequence of units (`Work`), the pieces it cannot take up in the
middle: the files that show it was done (`markers`), the looks for the STOP file (`polls`,
each `unit_boundary` of the code and the computing after it), what it reads (`needs`, parsed
and so whole; `takes`, raw and used as far as it goes), what it holds from before in memory
only (`holds`) and what it writes in order (`outs`), or does not (`maybe`). `BenchRuns` runs
them: `Skips`, `PassesGate` (a marker that spares several units), `Computes`, `Stops`,
`Opens` (a file opened for writing is empty), `Closes`, `Raises` (a file that is not there
or does not parse), `Loads`, `Ends`, and from outside `Starts` in any order, `Widens` (the
source gets more thresholds), `Dies` and `ToolFails`. A file holds that it is whole, cut
short, made from one that was, or which settings or run it is of. A summary scored by
`app_summary.py` holds whose time it bears, of which answers and which transcript it is: a
run that finds answers replays them (`mode`, `Replays`), reads the result it replaces and
keeps its time (`Timed`). The values measured are left out.

`Registry` is what the docstring of `preregister` promises. `SettingsStay` is its
specification under the mapping in `BenchRuns`: `registered` is what the file of settings
says once it is whole, `published` what each result says. A step of `BenchRuns` registers,
publishes or stutters.

### Der, Assign, DiarPipe and Diarization

A meeting is what the segmentation says of it: chunk, frame, local speakers. The embeddings
themselves, their distances and the linkage are left out, and with them every number a model
gives: `ClustersWhole` and `ClustersPiece` take any partition, `LinksPieces` any that
respects cannot-links, a cluster under a floor joins any of the big ones. What the code does
around those choices is kept: which pairs get an embedding, which piece owns one and which
only hears it, numbering by first appearance, the must-links of overlaps and their
transitive joins, both floors, the votes of `reconstruct` in blocks with ties to the lower
cluster, runs merged and filtered, the microphone of a call as one voice without its echo.
Times are frames; `Der` counts in them, as `der.py` does after rounding. `Assign` is the
Hungarian method, one row (`Insert`), one column (`Grow`) or one step back (`Augment`) at a
time. `Diarization` also scores pairs of turns as they are (`Rescored`), so that the score
meets turns no diarizer of the instance would give.

### MeetingGen, SummaryScore and MeetingSummary

A line, or an entry of a summary, is the set of the words that matter in it: a feature, a
date, a number with its unit, a topic. Each `item_*` of the generator is an operator of what
it draws; its key words and its lines are those of the source. `Plants` is one turn of
`generate`'s loop: item, draw, roll-back of all lists and values when a fact has the shape
of an earlier one, the deck and the items left out. The words that carry no fact
(discussion, replies, small talk) are one empty line.

`Score` is `score`, key by key. `AnswersWhole`, `AnswersChunk`, `Merges`, `Refuses`, `Fails`
are `summarise` with `Sidecar.generate`. The app's own summary (`app_summary.py` runs
`summary.rs`) is cut, asked for and joined in the same way and ends in `AppMerges`:
`merge.rs` gives each item the line of its own chunk that says it best (`Evidence`), where
the pairs of letters shared are a number for each kind of word (`Pairs`) and numbers count
as in the source; then a decision may go when a later one looks like it and has other values
of the same kinds (`Replaceable`; whether the wording makes two subjects the same is left
open, so any of them may go). Keywords are found as `has_all` finds them, in the letters of
a word: a number is in every number with its unit whose digits end in its own, and in the
day of a date (`Has`); `Unsupported` compares numbers whole. Deferrals and the chair's
rulings of `merge.rs` do not occur in made-up meetings. The language model is external:
`Reading` is what a faithful reader lists of the lines it is shown, `Misreadings` the same
with one number of a decision changed, `Unreadable` an answer not in the format.

## Runs

| run | instance | question |
|---|---|---|
| `recorder` | 1 session, 2 channels, 1 utterance each, 1 failing call or crash | do live map, row, transcript and screen agree, wherever a call fails or the process dies; does stop return, does a final pass close its session, is a row ever left with nobody to move it on |

| `transcriber` | window 4, overlap 2, hold-back 1, 6 units of every pattern of speech, failing passes | repeats, losses, the way of the cursor, the end of the drain |
| `app` | 2 meetings, 2 stops, 1 summary asked for, a quit | one recording, one thread after it, no missed quit, no deadlock but the one of `quit_hangs` |
| `summary` | 1 chunk and the overall summary, a retry of each, 1 progress event each | order of answers, aim and effect of cancels, the end of both sides |
| `legacy` | 2 captures of one id, 2 chunks, 1 failing call or restart | order and place of what is stored, completeness, the end of a stop |
| `bench_runs` | twelve small experiments, 2 embeddings, 2 thresholds, 2 dev meetings; 3 starts, 1 mishap | do settings and results stay, what does a death spoil, what does STOP lose |
| `diarization` | 3 chunks of 3 frames, 2 local speakers, 6 settings; 3 reference turns against 4 by up to 3 speakers | labels, turns, the matching, the score |
| `meetings` | 3 items of 13, 2 people, features and days, ranges of 1 and 2 numbers, 1 unfaithful answer | the key, what a faithful summary loses, what a changed number does |
| `rename_lost`, `deleted_comes_back`, `quit_hangs`, `full_window_stalls` | the smallest that shows it | one claim of the documentation each, which the code does not keep |

### What they show

* `recorder`. A live session and its row agree (`LiveIsRecording`); a transcript never mixes
  live and final segments or outlives its row (`OneTranscript`); a stopped session's row
  counts what is stored, and its transcript has all that was said, but for what a failed
  call lost (`StoppedIsComplete`); no step takes part of a transcript away
  (`TranscriptNeverShrinks`). `CaptionsArePersisted` is about both ways to the screen: a
  caption that was pushed is stored, and what the panel pulls of a live session is what is
  stored, what is on its way through a sink, and the batches whose write failed.
  `StopReturns` holds whatever fails. `MidFlightHasOwner` (a row that says recording,
  transcribing or finalizing has a thread that works on it) and `PassEnds` hold as long as
  no call has failed, through crashes: a save or an open that fails makes `start`, `stop`
  and `finalize` leave the row as it is until the next start of the app.
* `transcriber`. Two segments share at most one overlap, and less than half of the longer
  one (`RepeatsAreShort`); speech that was read and is in no segment lies in a failed pass
  or within one overlap after a blind cut or the end of a failed window (`LossIsAtCuts`);
  `NeverBack`; the worker returns (`DrainEnds`).
* `app`. `current` names the meeting that is being recorded (`RecordingIsCurrent`);
  after-meeting threads run one at a time (`OneAtATime`); once shutdown has set its flags a
  running summary has its flag up (`QuitIsSeen`); the final model is cached only in a pass
  (`FinalModelOnlyInPass`); the main thread gets on with whatever it does, shutdown
  included, unless it wants the lock of `current` from a start that waits for it
  (`MainGoesOn`), and a meeting that stopped and told the menu bar gets its pass
  (`StoppedIsFinalized`).
* `summary`. One answer to each request, in order (`AnsweredInOrder`); a late cancel does
  not hit the next request (`CancelHitsItsRequest`); a cancel taken in before the loop's
  last look at the flag is obeyed (`CancelIsObeyed`; one that is taken in after it, before
  the answer is written, is not); after the user's cancel at most the request on its way and
  its retry are sent (`CancelEndsRequests`); neither side waits for a dead other
  (`SummaryEnds`, `SidecarEnds`).
* `legacy`. A session reported complete has all that was said in its transcript, but for
  what a failed pass or a slow decoder lost and what lies behind the cursor of a drain that
  gave up (`CompleteMeansAll`), which is stored but for the pass a stop ran into
  (`LossIsAtStop`), in order and once (`StoredInOrder`) and before it is shown
  (`CaptionsAreStored`); every stop ends, even when another capture has taken the file away
  (`StopEnds`).
* `bench_runs`. `SettingsStay`: through stops, deaths and new thresholds the settings are
  written once, before any result, and every result is of them. `DamageIsBounded`: as long
  as nothing dies every file is whole, a rescored result has time and error rate of one run,
  a marker stands for all its files, and a summary scored again bears the time of the
  answers it is scored on; each mishap leaves at most one file half written. Two things are
  not promised because the code does not keep them: the answers replayed may be of another
  transcript than the score, and what an earlier run of the long form dropped stays beside
  the result of a later one that dropped nothing. `StopLosesOneTable`: what STOP makes a run
  compute again is one table kept in memory (tuning, comparison, grid) or one whole-meeting
  pass of the online step; the 30-minute results are computed and never saved, for
  `evaluate30` uses a name it does not bind (`run_diar.py:510`).
* `diarization`. `LabelsAreSound`: numbered by first appearance, nobody under a floor beside
  somebody else, must-links kept. Two candidates of one piece that both fall into one of the
  next are joined in spite of `cannot_link` ("two candidates of one piece are never
  joined", `diar_chunk.py:15`); the invariant says that nothing else joins them.
  `TurnsAreTheMostVoted`: a frame's clusters are the most voted of all, for every size of
  block. `BestSoFar`: after each row no other placing of the rows inserted weighs more.
  `ScoresAreRight`: no matching leaves a smaller error.
* `meetings`. `KeyIsSound`: deadlines and shapes are unique, the key's numbers are the ones
  said, what was taken back left nothing. `LossIsAtCuts`: a faithful summary has full marks
  but for decisions a chunk boundary cuts, in the app's summary decisions taken for an
  earlier word on a later one that looks alike, and withdrawn proposals that are cut, or
  whose text what was decided contains: the same number, when those of a small range ran out
  (`meeting_gen.py:222`; "every planted fact is unique", `meeting_gen.py:188`), or one that
  ends in it. A decision the app lists whole has evidence that says its value; of actions
  nothing is claimed, since with a weekday for a deadline the line that settles the item may
  say as much as the one that gives the task, and the replies between them are not modelled.
  `MisreadIsCaught`: a decision with a changed number is not found unless the new text
  contains the right one (`12시간` for `2시간`: `has_all` compares letters); if not, and if the
  app's merge did not drop it, it counts as a wrong value when its topic is there; it is
  marked unless its own chunk says that number too, if only as the day of a date.

### Findings

Four claims of the documentation do not hold; `PROJECT.json` quotes each with its line.

* `rename_lost`: a title given while a session is stopped or finalized is overwritten by the
  row that stop or finalize copied before.
* `deleted_comes_back`: a summary that runs while its session is deleted is stored
  afterwards.
* `quit_hangs`: a start that sets the menu bar icon holds the lock shutdown needs, and waits
  for the thread shutdown runs on; the app never exits. A window that opens in that moment
  hangs it in the same way.
* `full_window_stalls`: a full window that begins with the echo of emitted speech and ends
  in speech is read again for ever; the captions of the channel end there.

More disagreements have no run of their own, because a property that holds is stated around
them. "Persist first" (`recorder.rs:219`; "persist them, then show them", `pipeline.rs:40`)
is true of what is pushed: what the panel pulls of a live session comes from the pipelines'
memory, where segments are before the sink is called and stay when it fails
(`pipeline.rs:161`), until the session stops and the table is shown: `CaptionsArePersisted`.
A quit while `stop_recording` drains does not wait for it (`lib.rs:111` against
`lib.rs:124`): hazard without a property. Speech that goes on over a blind cut and pauses
within one overlap after it is dropped by the midpoint rule (`incremental.rs:241` against
`incremental.rs:12`): `Transcriber.LossIsAtCuts` allows that and no other loss. A stop that
comes while a pass runs leaves the segments of that pass out of the database
(`legacy/backend/pipeline.py:68` against `app.py:168`): `LegacyBackend.LossIsAtStop` in the
same way. A drain is to "catch up on any backlog" (`legacy/backend/pipeline.py:88`), but a
forced pass over a full window may not move (`legacy/backend/incremental.py:154`), the drain
gives up after its bound, and the session is stored as stopped and reported complete without
its end: `LegacyBackend.CompleteMeansAll` excepts it. Overlaps join candidates of one piece
(`diar_chunk.py:184`): `LabelsAreSound`. A step that is stopped is to carry on where it
stopped, a unit being one threshold of one embedding when tuning (`run_diar.py:26`), but the
thresholds of `tune`, the meetings of `grid` and `verify` and the whole-meeting pass of
`online` (`run_diar.py:336`) are in memory until the table is whole or the last link saved,
and computed again; `evaluate30` never gets anywhere: `StopLosesOneTable`. "The same prompts
get the same answers" (`app_summary.py:8`) is what replaying rests on, but the answers on
disk are replayed for whatever transcript is there (`app_summary.py:50`): `TimesOfAnswers`
says what is true of the time alone. "Look-alike items about different things … are kept
apart" (`merge.rs:10`): not when a large enough part of the words is the same; the decisions
`언어 설정 외주 예산을 300만 원으로 확정` and `알림 설정 외주 예산을 550만 원으로 확정`, both of `meeting_gen.py`, count
as one subject and the earlier is removed: `MeetingSummary.LossIsAtCuts` excepts it.

### Bounds

* `Recorder`: two channels are needed for one that is joined while the other delivers, one
  mishap for a failing call at each step and for a recovery that meets every state. Sessions
  share no variable but the after-meeting thread, which takes one at a time. A transcript of
  several utterances and a crash after a failure are not in the instance; the invariants of
  this run are proved for any number of both, and only its two liveness properties rest on
  the instance alone.
* `Transcriber`: window 4, overlap 2 and hold-back 1 with 6 units are the smallest with a
  full window, a blind cut, a rewind, a pause after the cut within one overlap, and a tail.
  `MaxDrain` is 2 so that the drain also gives up. Failing passes are not bounded.
* `AppLifecycle`: two meetings and two stops are the smallest with a drain while the next
  meeting starts and a pass that waits for a pass; one request comes in between.
  `quit_hangs` needs one of each.
* `Summary`: one chunk and the overall summary are a generation and a next one, for a late
  cancel; each may be retried once, as in the code.
* `LegacyBackend`: two captures are one that uses an id again, before or after the first is
  over; two chunks are one a pass has and one it has not. `MaxDrain` is 3, more than the
  passes an undisturbed drain needs, so that only one gives up that has lost its file or
  stands still; restarts count as faults.

* `BenchRuns`: a result needs two starts to be from two runs, and a third to be rescored;
  one mishap is what spoils a file or makes a cut recording, and `OneFilePerMishap` counts
  them. A summary needs three starts to be scored, its transcript made anew, and scored
  again: an experiment of its own starts with model and transcript there. Two embeddings and
  two thresholds are one done and one to do.
* `Diarization`: three chunks are two pieces with an overlap, or three without; the stores
  are every pair of four kinds of chunk before a fixed third, and eight candidates' worth of
  partitions; matchings are up to three by three speakers, the smallest with a path of more
  than one column.
* `MeetingSummary`: three items (`MaxBlocks`) are a first one, one that repeats it or not,
  and one after; `MaxMisses` is 2 in place of 10 so that an item is left out; each range of
  numbers runs out by the third, and 2 is in 12 and in both dates; `Agendas` gives three to
  five of the items at a time, so that one to three are of the kind of the meeting, and each
  item is in at least one. Seven lines to a chunk (`ChunkLines`) cut some items and not
  others: two timelines fit, a budget does not. One unfaithful answer (`MaxUnfaithful`)
  changes one number. `Pairs` has the proportions of the source's texts, where a feature has
  more letters than a topic. People and features are interchangeable and used as symmetry.

Deadlock checking is on for `diarization` and `meetings`, whose work must come to a score or
an error, and off in the other runs: a system in which every meeting is over, and every
bound spent, rests. That nobody waits for ever is stated by the liveness properties instead.

### Fairness

Weak fairness of threads, and of nothing else: the thread in `stop`, the workers, the
after-meeting thread and the main thread in `Recorder`; the worker in `Transcriber`; calls
that were begun, after-meeting threads and the main thread in `AppLifecycle`, whose event
loop also runs a menu bar call if it is idle again and again (strong fairness of `TrayStep`:
events are handled in order); both ends of the pipes in `Summary`, where a generation ends
as it is at most `max_tokens` long; in `LegacyBackend` the tasks and threads of a capture
that is being stopped. A mutex is held for bounded work, or for a join that is modelled.
Users, capture, quits, crashes, failing calls and dying processes are under no fairness.

## Proofs

Each proof goes by an inductive invariant, `IInv`, which was first checked by TLC.

* `RecorderProofs`: `TypeCorrect`, `LiveMatchesStore`, `TranscriptIsOfOnePass`,
  `TranscriptKept`. That a transcript is of one pass is not inductive: a worker that
  delivers to a session whose final pass is over would break it. `IInv` adds that a thread
  in `stop` owns its session alone (`OneOwner`), that workers exist only while their session
  is live or being stopped (`WorkersOwned`), that a pass has read the row the session still
  has (`PassConsistent`), that an id nobody started has left no trace (`FreshIds`), and that
  transcripts are finite.
* `TranscriberProofs`: `TypeCorrect`, `NothingIsEmittedTwice`, `CursorNeverGoesBack`, for
  every window, overlap, hold-back and decoder. `IInv` adds that what was emitted is behind
  the cursor (`EmittedIsBehind`), that a running pass reads from where the cursor sent it
  and past the cursor (`PassIsAhead`), and that no segment ends after what was emitted
  (`SegmentsAreCovered`). `SpeechIsLostOnlyAtCuts` is `LossIsAtCuts`. A segment that is
  refused has its midpoint in what was emitted, and reaches past the cursor only if a cut
  lies inside it: a pause there would have ended it. The proof takes the last unit that was
  not transcribed, and the first of the segment it was heard in, both least elements of sets
  of numbers. In the first form of the property only blind cuts were excuses; it fails when
  the overlap is longer than the new audio, since a failed window then ends in speech that
  the next pass rewinds over.
* `AppLifecycleProofs`: `TypeCorrect`, `OneRecording`, `OneThread`, `QuitReachesSummary`,
  `FinalModelLetGo`, for any number of meetings, stops and requests. `IInv` adds who holds
  the lock of `current`, through the menu bar calls too, and who the lock of the slot
  (`OneOpener`, `SlotLocked`), that a handle is kept until it is joined (`HandleKept`), and
  in which order shutdown sets its flags (`Quits`).

* `RecorderProofs`, second half, rests on that invariant. `CaptionsAreKept`: what was shown
  is stored as long as the transcript is the live one, and so is the batch a worker is about
  to show (`ShownIsStored`); the rest is that whoever writes a row writes the transcript the
  row had when it was read. Its other half is `ViewIsStored`: a batch is in the pipelines'
  memory from its decode on, and leaves `Delivering` either for the table or for `missed`.
  `NobodyIsStuck` is about behaviours in which no call has returned an error so far (crashes
  are allowed) and needs that `finalize` starts from a closed row and keeps a copy of it
  (`PassFromClosed`). `NothingIsLost` is `StoppedIsComplete`, calls that fail included.
  `CompleteInv` follows an utterance from the audio to the row that counts it: it is still
  to be read, in the batch, in the table, or one that a failed call lost (`Covered`), until
  the drain is over and the first of these is empty (`Accounted`, `Drained`, `StopIsSound`);
  then the row is closed with the number that is there (`RowIsComplete`), and a final pass
  replaces a whole transcript by a whole one (`PassIsComplete`). It needs that nobody else
  touches a session between those steps: what is stored of a deleted one is gone
  (`DeletedFirst`), audio is open only while a session is recorded (`OpenIsRecording`), and
  stop closes the channels before it counts (`StopOrder`).
* `SummaryProofs`: `TypeCorrect`, `OneAnswerEach`, `CancelHits`, `CancelObeyed`,
  `CancelEnds`, for any number of chunks and progress events. `IInv` says where the request
  on its way is: in stdin, the queue, the loop or stdout, in one of them, once (`Owed`),
  numbered after all earlier ones (`InTurn`, `Numbered`); that `Cancels` knows of a request
  from its beginning to its end (`RunningIsTaken`); that a cancel in the pipe is one that
  was asked for (`CancelsAreSent`), and that one that was taken in is kept for its request
  (`HeardIsKept`) and seen at the look (`LookedInTime`); and how many requests a generation
  has sent (`RequestsCounted`, `SentCounted`).
* `LegacyBackendProofs`: `CompleteHasAll`, `AudioIsItsOwn`, for any number of captures of an
  id. `IInv` says that captures at work at the same time overlap (`Exclusive`), that a
  capture nobody overlapped has its own audio at the path (`OwnsFile`), and, for each such
  capture, that its transcript has all up to the cursor and its pass the rest of the window,
  and that the decoder is done before the drain begins (`CaptureInv`). `CompleteHasAll`
  assumes nothing of the drain's bound: what a drain leaves that used up its passes is the
  exception the property names. `PersistFirst` is `CaptionsAreStored`, `TableIsInOrder` is
  `StoredInOrder` and `StoreMissesOnlyTheStop` is `LossIsAtStop`: the batch of a capture
  (`Batch`) is what its pass heard in order, and goes from the transcript to the table
  whole, unless the stop cancels the task between the two.
* `BenchRunsProofs`: `SettingsAreKept` is the refinement of `Registry`. It is proved for all
  programs that obey `BenchAssumption`: the settings are written behind a gate that their
  file closes, results by units that have read them, nothing else touches either, and grids
  are made of whole files. TLC evaluates that for the programs of `BenchSteps` as they are.
  `IInv` adds that a program behind the open gate has still found no settings
  (`GateWasOpen`), that what a run has read is what is there (`ReadIsCurrent`), that grids
  hold thresholds (`GridsHoldGrids`), and what a file that is being written will hold
  (`Registering`, `Publishing`). `OpensStep` and `ClosesStep` say what a write does;
  `StartsAsRegistry`, `OpensUnseen` and `ClosesAsRegistry` map it. `DamageStaysBounded` (the
  first two parts of `DamageIsBounded`) and `NoResultIsLost` (no stop and no error throws
  away a computed result of the tests) rest on `DInv`: the only file that is not whole is
  the one being written (`PartIsOpen`) or one that a death or a tool left
  (`PartsAreCounted`), what a run has written or passed by shows in its markers
  (`WrittenSoFar`, `MarkersShow`, `PassedLeave`, `FinishedLeave`), and all of it is of the
  run at work while nothing has died (`SameRun`, `Undamaged`, `NothingIsBad`). They assume
  more of the programs: a marker is written by the unit that did the work it stands for or
  that has read all of it (`Vouches`), the settings and their text are written by one unit
  (`OneHypothesis`), and a unit that publishes a result looks for STOP once, before it
  computes (`PublishesWhatItRead`); that what it then computes is saved follows from its
  files staying readable (`StillReadable`). The times of `app_summary.py` (`TimesOfAnswers`)
  and the names of the tables a stop loses are of the programs at hand and left to TLC.
* `MeetingGenProofs`: `TheKeyIsSound` is `KeyIsSound`, for all people, features, days and
  ranges of numbers, and however often an item is taken back. `GenInv` follows the deck
  while a meeting is built: the items left are some of the kind's (`Decks`), the lists of
  the key are lists (`Lists`), deadlines and shapes are told apart (`OneDeadlineEach`,
  `OneShapeEach`), numbers and dates are those said so far (`ValuesAreSaid`), so are the
  keywords (`FactsAreSaid`), and owners attend without leading (`OwnersAttend`). A lemma
  for each of the thirteen items (`Honest`) shows that its facts and its lines agree about
  the values drawn for it; the step that plants an item, or takes it back, needs no more
  than that.
* `DiarizationProofs`: `MatchingIsBest` is `BestSoFar`: after each row, the matching of
  `Assign` weighs at least as much as any other of the same rows, for matrices of every size
  and weights of every number. The argument is the one by prices. In `HInv` no pair costs
  less than the prices of its row and its column (`Prices`), each row so far has one place
  and a matched pair costs its prices exactly, while a free column has none (`Matched`);
  hence any other way to place the rows costs at least the sum of the prices, which is what
  the matching costs (`BestAtRest`). While a row is on its way, the columns the search has
  settled lead back to it along pairs that cost their prices (`Searching`), each by one
  settled earlier (`Follows`), and the way back shifts rows along them (`Returning`). The
  proof also shows that the cheapest column is below `INF`, which in the model is a number:
  a free column has price 0, so no price of a column is below the largest cost. What is
  matched is the overlap of two lists of turns. That they are turns, with whole numbers in
  them, is an invariant too (`TurnsListed`): those given are by assumption, and those
  written down of a meeting because the frames kept fall into finitely many runs, a
  speaker's apart, and what the echo leaves of the microphone's one voice into pieces that
  start at different frames (`WrittenAreTurns`).

  `LabelsStaySound` is `LabelsAreSound`, for every recording, partition, link and setting.
  `LInv` says that each stage has made what the next relies on: pairs in the order of their
  chunks (`HasEmbeddings`; `EarlierOrders` shows that `Ordered` gives a list of what it
  orders), one labelled piece after another (`Pieced`), one root for candidates that an
  overlap joins (`RootsAreOne`; `RootsJoin` follows `Joined` through the fold over all
  must-links: who shares a root keeps sharing it), one label for the embeddings of a node
  and different ones for nodes apart (`LinksAreSound`). Then the lemmas do the rest: every
  embedding is of a piece that exists and holds it (`OwnersOwn`), numbering by first
  appearance keeps who is alike and does nothing twice (`FirstSeenIsLabels`,
  `FirstSeenOnce`), a partition is numbered that way (`PartitionsLabel`), and folding
  clusters away leaves all of a big one in each that stays (`FoldedKeeps`), whose weight is
  at least that one's (`FloorHolds`). With no cluster big, the one that stays takes all.

  `TurnsStayTheMostVoted` is `TurnsAreTheMostVoted`, for blocks of one frame, of three and
  of the whole recording. The labels are those of `LInv`; numbered by first appearance they
  are all the numbers up to the highest (`NumbersAreFull`), so a speaker's number is a row
  of the table of votes. A block asks only for the clusters with a vote in it and fills up
  with the lowest numbers; that this changes nothing is `CandidatesSuffice`: whoever is
  among the first k of all has a vote, or is one of the k lowest numbers (`TopsAgree`). For
  the turns, `merge_and_filter` is followed span by span (`MergesStepByStep`): after each,
  the spans so far are in order and more than `MinOff` apart (`MergedKeeps`), and dropping
  the short ones moves none (`LongSpansAreKept`).

  `ScoresStayRight` is `ScoresAreRight`, for every reference and hypothesis. Three
  computations are shown to agree. The spans `_spans` merges are followed one by one
  (`FusesStepByStep`): they stay apart and cover the frames of the turns (`FusedKeeps`), so
  a frame is in one span of a speaker who has it, and in none of another (`OneSpan`); hence
  the matrix that is matched holds the frames each pair of speakers shares
  (`OverlapIsShared`). What `assign` keeps of the matching, without pairs of no weight, is
  one to one and weighs as much as any pairs that are one to one, also those that leave
  speakers out (`KeptWeighMost`, from `BestSoFar` with all rows inserted; `PlacesExtend`
  completes such pairs to a placing of all rows), and stays so when the matrix was turned
  and the places are speakers again (`MatchedShareMost`). The score, last, counts frames,
  the matching pairs: the right speakers summed over the frames are the shared frames
  summed over the pairs (`CountedTwice`, `RightIsShared`), and in every frame missed, false
  alarm and confusion add up to the louder side less who is right (`FrameParts`,
  `FramesAddUp`). So the error is what the voices sum to less what the best pairs share
  (`BestScoreIsRight`). The invariants are `TurnsListed`, `HInv` and that the weights are
  those of the turns as long as they are matched (`Weighed`).

The assumptions are those on the constants (`StoreAssumption`, `RecorderAssumption`,
`TranscriberAssumption`, `AppAssumption`, `SidecarAssumption`, `SummaryAssumption`,
`LegacyAssumption`, `BenchAssumption`, `GenAssumption`, `DiarAssumption`): values that stand
for nobody are none of the ids, channels are finitely many, bounds are natural numbers, a
window is longer than its overlap, the programs of `bench/` keep the discipline above, an
item of a meeting has a range for each number it says, and the settings of a diarizer are
whole numbers, its pieces not empty, a frame longer than nothing, and turns given from
outside lists of turns. 

Sums, folds and flattened lists are recursive functions. The library's induction theorems
take an operator and cannot be cited, so the proofs induct in first-order form: over a set
of numbers without a least counterexample (`NatIsReached`), or over subsets by their size
(`BySize`).

Only model-checked, on the instances of the runs: everything that is liveness (`PassEnds`
and its like need fairness and ENABLED, which the prover does not have); of `BenchRuns`,
`TimesOfAnswers` and `StopLosesOneTable`; of `MeetingSummary`, which facts its chunks may
lose (`LossIsAtCuts`) and that a misread number is caught (`MisreadIsCaught`). Both compare
the marks of a summary with the meeting it was made from, through the chunks, the merge and
the marking, a chain of folds with no lemmas yet; the second also holds only of one misread
fact at a time, which is a bound of the instance (`MaxUnfaithful`): two errors may make up
for each other.

## Not modelled

* Neural models, bindings, resampling, user interface, markdown: no state or no decision of
  their own.
* Schema migrations, timestamps, languages, durations.
* Failures inside `Recorder::open`; a `finalize` of an interrupted session that fails closes
  it as stopped with the count of before.
* `pcm_store.rs`: a write that fails half way leaves the file longer than its published
  length (`pcm_store.rs:62`). Capture (`supervise.rs`, `gap.rs`): streams rebuilt while the
  old one still reports, holes measured on two clocks; platform callbacks whose order the
  repository does not fix. Both are hazards the runs do not reach.
* Pure decisions on floating-point samples or on wording: `spans.rs`, `blocklist.rs`,
  `vocabulary.rs`, the deferrals and rulings of `merge.rs`, the linkage of `diar_pipe.py`,
  the text normalisation of `common.py`.
* The panels of the legacy extension: what is stored between loading the transcript and
  subscribing is never shown (`sidepanel.js:112`).
* `MeetingGen`: `date` draws until it finds one not used; with every date used (89) it would
  draw for ever. Meetings of the lengths the program makes do not get there, and the
  instance draws only dates that are left.
* `run_summary.py --rescore`, and a sidecar that does not exit within a minute of its end of
  input, which ends the program.

## Plan

Done, in this order: `SessionStore`, `Recorder`, `Transcriber`, `AppLifecycle`, `Sidecar`,
`Summary`, `LegacyBackend` and the proofs about `Recorder` with its store, `Transcriber` and
`AppLifecycle`; then `bench/`: `BenchSteps` and `BenchRuns` over `Registry`, `Der`, `Assign`
and `DiarPipe` composed by `Diarization`, `MeetingGen` and `SummaryScore` composed by
`MeetingSummary`; then the proofs about `Summary`, `LegacyBackend`, what `Recorder` promises
its user, and the refinement of `Registry`; then the proofs of what is lost and when
(`NothingIsLost`, `SpeechIsLostOnlyAtCuts`, `StoreMissesOnlyTheStop`, `DamageStaysBounded`,
`NoResultIsLost`), and of two computations: the answer key of a made-up meeting
(`TheKeyIsSound`) and the matching of speakers (`MatchingIsBest`); then the labels of a
diarized meeting (`LabelsStaySound`), its turns (`TurnsStayTheMostVoted`) and its score
(`ScoresStayRight`).

Left, where the project would grow next:

1. `Capture` with `PcmStore` (`supervise.rs`, `gap.rs`, `pcm_store.rs`): a stream rebuilt
   while the old one reports, clocks and holes, a write that fails half way.
2. The spans of `spans.rs` and the filters, against a reference definition over bounded
   inputs.
3. `Extension` (`background.js`, `offscreen.js`, `sidepanel.js`) over an abstract backend.
4. An abstract specification of a session's life (recorded, transcribed, final, deleted,
   never back), implemented by `Recorder` under a refinement mapping.
5. Theorems: `MisreadIsCaught`, for one misread fact, and `LossIsAtCuts`.
