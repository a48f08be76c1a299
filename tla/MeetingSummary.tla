--------------------------- MODULE MeetingSummary ---------------------------
(* run_summary.py and app_summary.py: a made-up meeting summarised whole, in       *)
(* chunks, or by the app itself, and the summary scored.  The model that answers    *)
(* reads what its prompt says: faithfully, or with one number of a decision          *)
(* changed, or not in the format.                                                     *)
EXTENDS SummaryScore

CONSTANTS
    ChunkLines,     \* lines to a chunk
    Misheard,       \* numbers a model may write in place of the one said
    MaxUnfaithful,  \* bound: answers of a summary that are not faithful
    Pairs           \* kind of word |-> the pairs of letters in one

VARIABLES
    stage,
    mode,           \* "single", "chunked" or "app"
    attempt,        \* of the prompt that is asked
    answers,        \* what was answered, chunk by chunk
    merged,         \* the summary so far
    score
vars == <<generator, stage, mode, attempt, answers, merged, score>>

(* The chunks, as spans of lines: full ones and the rest; summary.rs:104 cuts as          *)
(* run_summary.py does.                                                                   *)
\* Slip: the rest is not summarised.
FullChunks(n) ==
    [k \in 1..n \div ChunkLines |-> <<(k - 1) * ChunkLines + 1, k * ChunkLines>>]

Chunks(n) ==
    [k \in 1..(n + ChunkLines - 1) \div ChunkLines |-> <<(k - 1) * ChunkLines + 1, Min({k * ChunkLines, n})>>]

Spans == IF mode = "single" THEN << <<1, Len(Lines)>> >> ELSE Chunks(Len(Lines))

-----------------------------------------------------------------------------
(* What a faithful reader makes of the lines of a span: a fact is listed where it is    *)
(* settled, the last line that says all of it or else its value, in the words the span   *)
(* has for it; a proposal also, when the span does not hold that it was taken back.        *)
First(i) == 2 + FoldLeft(LAMBDA sum, block : sum + Len(Spoken(block)), 0, SubSeq(blocks, 1, i - 1))
InSpan(i, span) ==
    LET before == First(i) - 1
    IN  {k \in DOMAIN Spoken(blocks[i]) : before + k \in span[1]..span[2]}
Words(i, span) == UNION {Spoken(blocks[i])[k] : k \in InSpan(i, span)}
SettledAt(i, fact) ==
    LET says(words) == {k \in DOMAIN Spoken(blocks[i]) : words \subseteq Spoken(blocks[i])[k]}
    IN  Max(IF says(fact.keywords) # {} THEN says(fact.keywords) ELSE says(Needed(fact)))
Settled(i, facts, span) == SelectSeq(facts, LAMBDA fact : SettledAt(i, fact) \in InSpan(i, span))
Standing(i, span) ==
    SelectSeq(blocks[i].facts.withdrawn, LAMBDA fact :
        TakenBack \notin Words(i, span) /\ Needed(fact) \subseteq Words(i, span))
Listed(i, facts, span) == [k \in DOMAIN facts |-> facts[k].keywords \cap Words(i, span)]
OfBlocks(Of(_)) == FlattenSeq([i \in DOMAIN blocks |-> Of(i)])

Reading(span) ==
    [decisions |-> OfBlocks(LAMBDA i : Listed(i, Settled(i, blocks[i].facts.decisions, span) \o Standing(i, span), span)),
     action_items |-> OfBlocks(LAMBDA i :
        LET mine == Settled(i, blocks[i].facts.actions, span)
        IN  [k \in DOMAIN mine |-> [owner |-> mine[k].owner, due |-> {T(mine[k].due)},
                                    task |-> mine[k].keywords \ {T(mine[k].due)}]]),
     open_questions |-> OfBlocks(LAMBDA i : Listed(i, Settled(i, blocks[i].facts.open_questions, span), span))]

Changed(entry, word, n) == (entry \ {word}) \cup {N(n, word[3])}
Misreadings(span) ==
    LET faithful == Reading(span)
    IN  {[faithful EXCEPT !.decisions[x[1]] = Changed(@, x[2], x[3])] :
           x \in {y \in (DOMAIN faithful.decisions) \X Said \X Misheard :
                    y[2] \in faithful.decisions[y[1]] /\ y[2][1] = "number" /\ y[3] # y[2][2]}}
Unfaithful == {k \in DOMAIN answers : answers[k] # Reading(Spans[k])}
Answerable(span) ==
    {Reading(span)} \cup
        IF Cardinality(Unfaithful) < MaxUnfaithful THEN {Unreadable} \cup Misreadings(span) ELSE {}

-----------------------------------------------------------------------------
Empty == [decisions |-> <<>>, action_items |-> <<>>, open_questions |-> <<>>, unverified |-> {}]

Init ==
    /\ GenInit
    /\ stage = "generating" /\ mode = "none" /\ attempt = 1
    /\ answers = <<>> /\ merged = Empty /\ score = <<>>

Generates == stage = "generating" /\ Plants /\ UNCHANGED <<stage, mode, attempt, answers, merged, score>>

Starts ==
    /\ stage = "generating" /\ LongEnough
    /\ mode' \in {"single", "chunked", "app"}
    /\ stage' = "asking"
    /\ UNCHANGED <<generator, attempt, answers, merged, score>>

(* generate: a prompt that does not fit is asked once more with the size reported; any   *)
(* other error, or the end of the sidecar, is the end of this summary.                     *)
Refuses ==
    /\ stage \in {"asking", "merging"}
    /\ IF attempt = 1 THEN attempt' = 2 /\ UNCHANGED stage ELSE stage' = "failed" /\ UNCHANGED attempt
    /\ UNCHANGED <<generator, mode, answers, merged, score>>

Fails ==
    /\ stage \in {"asking", "merging"}
    /\ stage' = "failed"
    /\ UNCHANGED <<generator, mode, attempt, answers, merged, score>>

(* unverified: decisions with a number their own stretch of transcript never says.        *)
Unverified(answer, span) ==
    {entry \in Range(answer.decisions) : Unsupported(entry, UNION Range(SubSeq(Lines, span[1], span[2]))) # {}}
Joined(some, more) ==
    FoldLeft(LAMBDA out, x : IF x \in Range(out) THEN out ELSE Append(out, x), some, more)

AnswersWhole ==
    /\ stage = "asking" /\ mode = "single"
    /\ \E answer \in Answerable(Spans[1]) :
         /\ answers' = <<answer>>
         /\ merged' = IF answer = Unreadable THEN answer
                      ELSE answer @@ [unverified |-> Unverified(answer, Spans[1])]
    /\ stage' = "answered"
    /\ UNCHANGED <<generator, mode, attempt, score>>

(* A chunk that broke the format loses its items (summary.rs:249 for the app, whose lists     *)
(* join in the same way and mark nothing).                                                      *)
AnswersChunk ==
    /\ stage = "asking" /\ mode # "single"
    /\ LET span == Spans[Len(answers) + 1]
       IN  \E answer \in Answerable(span) :
             /\ answers' = Append(answers, answer)
             /\ merged' = IF answer = Unreadable THEN merged ELSE
                  [unverified     |-> IF mode = "app" THEN {} ELSE merged.unverified \cup Unverified(answer, span),
                   decisions      |-> Joined(merged.decisions, answer.decisions),
                   action_items   |-> Joined(merged.action_items, answer.action_items),
                   open_questions |-> Joined(merged.open_questions, answer.open_questions)]
    /\ attempt' = 1
    /\ stage' = IF Len(answers) + 1 = Len(Spans) THEN "merging" ELSE stage
    /\ UNCHANGED <<generator, mode, score>>

(* One more prompt writes the overall summary of the parts.                                  *)
Merges ==
    /\ stage = "merging" /\ mode = "chunked"
    /\ stage' = "answered"
    /\ UNCHANGED <<generator, mode, attempt, answers, merged, score>>

(* merge.rs, at summary.rs:259, and the prompt for the overall summary.  The line of its own  *)
(* chunk that says an item best, by the pairs of letters they share and three for each of its    *)
(* numbers in the line; a tie goes to the later line.                                              *)
Shared(text, line) ==
    MapThenSumSet(LAMBDA word : Pairs[word[1]], {word \in text : Has(line, word)})
      + 3 * Cardinality({part \in PartsOf(text) : Within(part, line)})
Evidence(text, span) ==
    LET lines == Lines
        shared == [i \in span[1]..span[2] |-> Shared(text, lines[i])]
        most == Max(Range(shared))
    IN  IF most = 0 THEN NoLine ELSE Max({i \in DOMAIN shared : shared[i] = most})
FirstSaid(x, list) == Min({k \in DOMAIN answers : answers[k] # Unreadable /\ x \in Range(answers[k][list])})

(* The last word wins: a decision goes when a later one on the same subject has other values     *)
(* of the same kinds.  Whether two subjects are the same depends on the wording; with other       *)
(* words than names of features between them they never are.                                        *)
KindOf(unit) ==
    CASE unit \in {"won", "each"} -> "money" [] unit \in {"month", "days"} -> "date"
      [] unit \in {"heads", "bugs"} -> "count" [] OTHER -> "other"
Kinds(entry) == {KindOf(part[2]) : part \in PartsOf(entry)}
LookAlike(earlier, later) ==
    /\ Kinds(earlier) = Kinds(later) /\ Kinds(later) # {}
    /\ {word \in earlier : word[1] = "word"} = {word \in later : word[1] = "word"}
Replaceable(entries) ==
    {i \in DOMAIN entries : \E j \in i+1..Len(entries) :
        LookAlike(entries[i], entries[j]) /\ PartsOf(entries[i]) # PartsOf(entries[j])}

AppMerges ==
    /\ stage = "merging" /\ mode = "app"
    /\ \E replaced \in SUBSET Replaceable(merged.decisions) :
         LET kept == SelectSeq(merged.decisions, LAMBDA entry : entry \notin {merged.decisions[i] : i \in replaced})
             at(x, text, list) == Evidence(text, Spans[FirstSaid(x, list)])
         IN  merged' = [merged EXCEPT !.decisions = kept] @@
               [evidence |->
                 [decisions    |-> [i \in DOMAIN kept |-> at(kept[i], kept[i], "decisions")],
                  action_items |-> [i \in DOMAIN merged.action_items |->
                     at(merged.action_items[i], ActionWords(merged.action_items[i]), "action_items")]]]
    /\ stage' = "answered"
    /\ UNCHANGED <<generator, mode, attempt, answers, score>>

Scores ==
    /\ stage = "answered"
    /\ score' = Score(merged, Lines)
    /\ stage' = "scored"
    /\ UNCHANGED <<generator, mode, attempt, answers, merged>>

(* A summary is scored, or reported with its error.                                           *)
Ended == stage \in {"scored", "failed"} /\ UNCHANGED vars

Next ==
    \/ Generates \/ Starts \/ Refuses \/ Fails
    \/ AnswersWhole \/ AnswersChunk \/ Merges \/ AppMerges \/ Scores \/ Ended
Spec == Init /\ [][Next]_vars
-----------------------------------------------------------------------------
(* A model that reads every prompt faithfully scores full marks: every action and open       *)
(* question found with owner and deadline, nothing invented or marked, and in the app's summary *)
(* good evidence for each decision found.  A decision is missed only when a chunk ends inside     *)
(* its item, or when the app took it for an earlier word on a later decision that looks like it;   *)
(* a withdrawn proposal is listed only at such a cut, or when what was decided contains it.          *)
Faithful == Unfaithful = {}
IsCut(i) == \E k \in DOMAIN Spans : InSpan(i, Spans[k]) \notin {{}, DOMAIN Spoken(blocks[i])}
Contradictions ==
    {w \in Range(key.withdrawn) : \E d \in Range(key.decisions) : HasAll(d.keywords, w.keywords)}
CutBlocks == {i \in DOMAIN blocks : IsCut(i)}
InCut(list(_)) == MapThenSumSet(LAMBDA i : Len(list(i)), CutBlocks)
LookAlikes ==
    {i \in DOMAIN key.decisions : mode = "app" /\
        \E j \in i+1..Len(key.decisions) : LookAlike(key.decisions[i].keywords, key.decisions[j].keywords)}
LossIsAtCuts ==
    stage = "scored" /\ Faithful =>
      /\ score.actions_found = score.actions_total
      /\ score.actions_owner_ok = score.actions_total /\ score.actions_due_ok = score.actions_total
      /\ score.open_questions_found = score.open_questions_total
      /\ score.unknown_owners + score.invented_people + score.invented_numbers + score.decisions_flagged = 0
      /\ score.decisions_total - score.decisions_found
           <= InCut(LAMBDA i : blocks[i].facts.decisions) + Cardinality(LookAlikes)
      /\ score.decisions_wrong_value <= score.decisions_total - score.decisions_found
      /\ score.withdrawn_listed <= InCut(LAMBDA i : blocks[i].facts.withdrawn) + Cardinality(Contradictions)
      /\ mode = "app" => score.decisions_evidence_ok = score.decisions_found

(* A decision whose number the model changed is not counted as found, unless the new text      *)
(* contains the right one ("12시간" for "2시간").  Then, in a summary the app did not merge, it    *)
(* is counted as a wrong value when its topic is beside the number, and marked unless its own       *)
(* chunk says the new number too, if only as the day of a date.                                        *)
MisreadIn(k) == {j \in DOMAIN answers[k].decisions : answers[k].decisions[j] # Reading(Spans[k]).decisions[j]}
MisreadIsCaught ==
    stage = "scored" /\ Unreadable \notin Range(answers) =>
      \A k \in DOMAIN answers : \A j \in MisreadIn(k) :
        LET entry == Reading(Spans[k]).decisions[j]
            new == answers[k].decisions[j]
            topic == {word \in entry : ~HasDigit(word)}
            said == UNION Range(SubSeq(Lines, Spans[k][1], Spans[k][2]))
        IN  \A fact \in Range(key.decisions) : entry = fact.keywords =>
              /\ ~HasAll(new, fact.keywords) => score.decisions_found < score.decisions_total
              /\ mode # "app" =>
                   /\ topic # {} /\ ~HasAll(new, fact.keywords) => score.decisions_wrong_value >= 1
                   /\ score.decisions_flagged >= 1 \/ PartsOf(new \ entry) \subseteq PartsOf(said)
=============================================================================
