---------------------------- MODULE SummaryScore ----------------------------
(* summary_score.py: a summary held against the answer key of its meeting.  An     *)
(* entry of a list is the set of its words; a summary that does not parse is        *)
(* Unreadable.                                                                       *)
EXTENDS MeetingGen

(* A deadline with a number in it is a month, all of two digits, and a day.          *)
ASSUME ScoreAssumption == Days \subseteq (10..12) \X (1..28)

(* The numbers in a word, each with its unit.  One is in another's text when the       *)
(* digits of the other end in its own and the unit is the same: "2일" in "11월 12일".   *)
Parts(word) ==
    IF word[1] = "number" THEN {<<word[2], word[3]>>}
    ELSE IF HasDigit(word) THEN {<<word[2][1], "month">>, <<word[2][2], "days">>} ELSE {}
PartsOf(text) == UNION {Parts(word) : word \in text}
EndsIn(m, n) == \E digits \in 1..4 : m % 10 ^ digits = n
Within(part, text) == \E p \in PartsOf(text) : p[2] = part[2] /\ EndsIn(p[1], part[1])

(* has_all: a text contains keywords, each as a stretch of its letters.                 *)
Has(text, word) == word \in text \/ (word[1] = "number" /\ \A part \in Parts(word) : Within(part, text))
HasAll(text, keywords) == \A word \in keywords : Has(text, word)

Unreadable == [broken |-> TRUE]

(* The numbers of an entry that the source never says; here the digits must begin,      *)
(* too, but the day of a date is a number said.                                           *)
Unsupported(entry, said) == PartsOf(entry) \ PartsOf(said)

(* For each item the first entry not used yet with all its keywords, 0 for none.     *)
Missed == 0
Places(places) == IF places = {} THEN Missed ELSE Min(places)
\* Slip: the values are not looked at.
MatchByTopic(facts, entries) ==
    FoldLeft(LAMBDA hits, fact : Append(hits, Places({i \in DOMAIN entries \ Range(hits) :
        \A word \in fact.keywords : word \in entries[i] \/ HasDigit(word)})), <<>>, facts)

Match(facts, entries) ==
    FoldLeft(LAMBDA hits, fact : Append(hits, Places({i \in DOMAIN entries \ Range(hits) :
        HasAll(entries[i], fact.keywords)})), <<>>, facts)

(* Of the entries left, the ones with a missed item's topic and some number.          *)
WrongValues(facts, hits, entries) ==
    LET values(fact) == {word \in fact.keywords : HasDigit(word)}
        asked == {k \in DOMAIN facts : /\ hits[k] = Missed
                                       /\ values(facts[k]) \notin {{}, facts[k].keywords}}
        wrong(used, k) == {i \in DOMAIN entries \ used : /\ HasAll(entries[i], facts[k].keywords \ values(facts[k]))
                                                        /\ \E word \in entries[i] : HasDigit(word)}
    IN  FoldLeft(LAMBDA out, k :
            IF k \in asked /\ wrong(out \cup Range(hits), k) # {} THEN out \cup {Min(wrong(out \cup Range(hits), k))} ELSE out,
            {}, [k \in DOMAIN facts |-> k])

NoLine == 0
(* The items found whose line of evidence, with the ones beside it, says their value.  *)
Needed(fact) ==
    LET values == {word \in fact.keywords : HasDigit(word)}
    IN  IF values = {} THEN fact.keywords ELSE values
EvidenceOk(facts, hits, at, lines) ==
    LET near(i) == UNION {lines[j] : j \in DOMAIN lines \cap (i - 1..i + 1)}
    IN  Cardinality({k \in DOMAIN facts : /\ hits[k] \in DOMAIN at /\ at[hits[k]] # NoLine
                                          /\ HasAll(near(at[hits[k]]), Needed(facts[k]))})

(* Facts planted twice are asked for once.                                               *)
Unique(facts) ==
    FoldLeft(LAMBDA out, fact : IF fact \in Range(out) THEN out ELSE Append(out, fact), <<>>, facts)

ActionWords(entry) == {W(entry.owner)} \cup entry.task \cup entry.due
Found(hits) == Cardinality({k \in DOMAIN hits : hits[k] # Missed})
Once(facts) == {k \in DOMAIN facts : \A other \in DOMAIN facts : facts[other].shape = facts[k].shape => other = k}

Score(output, lines) ==
    LET decisions == Unique(key.decisions)
        questions == Unique(key.open_questions)
        withdrawn == Unique(key.withdrawn)
        foundD == Match(decisions, output.decisions)
        foundA == Match(key.actions, [i \in DOMAIN output.action_items |-> ActionWords(output.action_items[i])])
        wrong == WrongValues(decisions, foundD, output.decisions)
        flagged == {i \in DOMAIN output.decisions : output.decisions[i] \in output.unverified}
        right(ok(_, _)) == Cardinality({k \in DOMAIN foundA :
                              foundA[k] # Missed /\ ok(key.actions[k], output.action_items[foundA[k]])})
        owners == {a.owner : a \in Range(output.action_items)}
        everything == UNION (Range(output.decisions) \cup Range(output.open_questions)
                               \cup {ActionWords(a) : a \in Range(output.action_items)})
        numbers(words) == {part[1] : part \in PartsOf(words)}
        totals == [decisions_total |-> Len(decisions), actions_total |-> Len(key.actions),
                   open_questions_total |-> Len(questions), withdrawn_total |-> Len(withdrawn),
                   decisions_once_total |-> Cardinality(Once(decisions))]
    IN  IF output = Unreadable THEN [format_ok |-> FALSE] @@ totals
        ELSE totals @@
         [format_ok             |-> TRUE,
          decisions_found       |-> Found(foundD),
          decisions_wrong_value |-> Cardinality(wrong),
          decisions_once_found  |-> Cardinality({k \in Once(decisions) : foundD[k] # Missed}),
          decisions_flagged     |-> Cardinality(flagged),
          flagged_wrong_value   |-> Cardinality(flagged \cap wrong),
          actions_found         |-> Found(foundA),
          actions_owner_ok      |-> right(LAMBDA want, got : want.owner = got.owner),
          actions_due_ok        |-> right(LAMBDA want, got : HasAll(got.due, {T(want.due)})),
          open_questions_found  |-> Found(Match(questions, output.open_questions)),
          withdrawn_listed      |-> Cardinality({k \in DOMAIN withdrawn : \E entry \in Range(output.decisions) :
                                       HasAll(entry, withdrawn[k].keywords) /\ TakenBack \notin entry}),
          invented_people       |-> Cardinality({p \in People \ participants : p \in owners}),
          unknown_owners        |-> Cardinality(owners \ participants),
          invented_numbers      |-> Cardinality(numbers(everything) \ numbers(UNION Range(lines)))]
         @@ (IF "evidence" \notin DOMAIN output THEN <<>> ELSE
              [decisions_evidence_ok |-> EvidenceOk(decisions, foundD, output.evidence.decisions, lines),
               actions_evidence_ok   |-> EvidenceOk(key.actions, foundA, output.evidence.action_items, lines)])
=============================================================================
