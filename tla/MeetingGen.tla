----------------------------- MODULE MeetingGen -----------------------------
(* meeting_gen.py: a made-up meeting with its answer key.  Items are planted one   *)
(* by one, each with values not drawn before; one that comes out like an earlier    *)
(* one is taken back.  A line is the set of words that matter in it: the opening,    *)
(* the talk, the replies and the small talk say none.                                *)
EXTENDS Integers, Sequences, FiniteSets, SequencesExt, FiniteSetsExt, Functions

CONSTANTS
    Agendas,        \* bound: the items considered, of those a kind of meeting has
    People,
    Attendees,      \* kind |-> how many take part
    Features,
    Days, Weekdays, \* deadlines: with a number in them, and without
    Ranges,         \* item |-> the ranges its numbers are drawn from
    MaxMisses,      \* an item taken back as often is left out
    MaxBlocks       \* bound: items in a meeting, in place of its length

F(f) == <<"feature", f>>
T(date) == <<"date", date>>
W(word) == <<"word", word>>
N(n, unit) == <<"number", n, unit>>
HasDigit(word) == word[1] = "number" \/ (word[1] = "date" /\ word[2] \in Days)

(* A fact's text is its shape, the words that stay when the digits are replaced,     *)
(* and its values.                                                                    *)
Shape(date) == IF date \in Weekdays THEN date ELSE "#"
Fact(shape, keywords) == [shape |-> shape, keywords |-> keywords]
Action(owner, date, word) == [owner |-> owner, due |-> date, keywords |-> {T(date), W(word)}]
TakenBack == W("taken_back")

Nothing == [decisions |-> <<>>, actions |-> <<>>, open_questions |-> <<>>, withdrawn |-> <<>>, numbers |-> <<>>]
Item(facts, lines) ==
    [facts |-> [f \in DOMAIN Nothing |-> IF f \in DOMAIN facts THEN facts[f] ELSE Nothing[f]],
     lines |-> lines]

-----------------------------------------------------------------------------
(* The items, of what is drawn for them.                                             *)
Release(d) == Item(
    [decisions |-> << Fact(<<"release", d.feature, Shape(d.date)>>, {F(d.feature), T(d.date)}) >>,
     actions   |-> << Action(d.owner, d.date, "checklist") >>,
     numbers   |-> << d.numbers[1] >>],
    << {F(d.feature), N(d.numbers[1], "bugs")}, {N(d.numbers[1], "bugs")}, {},
       {F(d.feature), T(d.date)}, {W("checklist"), T(d.date)}, {} >>)

Budget(d) == Item(
    [withdrawn |-> << Fact(<<"budget", d.feature>>, {F(d.feature), N(d.numbers[1], "won")}) >>,
     decisions |-> << Fact(<<"budget", d.feature>>, {F(d.feature), N(d.numbers[2], "won")}) >>,
     actions   |-> << Action(d.owner, d.date, "quote") >>,
     numbers   |-> d.numbers],
    << {F(d.feature), N(d.numbers[1], "won")}, {N(d.numbers[1], "won")}, {}, {TakenBack},
       {N(d.numbers[1], "won"), TakenBack, N(d.numbers[2], "won")}, {W("quote"), T(d.date)}, {} >>)

Metrics(d) == Item(
    [decisions |-> << Fact(<<"metrics", d.feature>>, {F(d.feature), W("keep")}) >>,
     numbers   |-> d.numbers],
    << {F(d.feature), N(d.numbers[1], "percent"), N(d.numbers[2], "percent")}, {}, {}, {F(d.feature), W("keep")} >>)

Question(d) == Item(
    [open_questions |-> << Fact(<<"question", d.feature>>, {F(d.feature), W("retention")}) >>],
    << {F(d.feature), W("retention")}, {}, {}, {W("retention")} >>)

Hiring(d) == Item(
    [decisions |-> << Fact(<<"hiring">>, {W("hiring"), N(d.numbers[1], "heads")}) >>,
     actions   |-> << Action(d.owner, d.date, "job_post") >>,
     numbers   |-> d.numbers],
    << {}, {}, {N(d.numbers[1], "heads")}, {W("hiring"), N(d.numbers[1], "heads")}, {W("job_post"), T(d.date)}, {} >>)

Incident(d) == Item(
    [decisions |-> << Fact(<<"incident", d.feature>>, {F(d.feature), W("alarm")}) >>,
     actions   |-> << Action(d.owner, d.date, "report") >>,
     numbers   |-> d.numbers],
    << {F(d.feature), N(d.numbers[1], "minutes")}, {}, {}, {F(d.feature), W("alarm")}, {W("report"), T(d.date)}, {} >>)

Goal(d) == Item(
    [decisions |-> << Fact(<<"goal", d.feature>>, {F(d.feature), W("goal")}) >>,
     actions   |-> << Action(d.owner, d.date, "plan") >>],
    << {W("goal")}, {F(d.feature)}, {F(d.feature), W("goal")}, {W("plan"), T(d.date)}, {} >>)

Vacation(d) == Item(
    [decisions |-> << Fact(<<"vacation", d.owner, Shape(d.date)>>, {W("vacation"), T(d.date), N(d.numbers[1], "days")}) >>,
     numbers   |-> d.numbers],
    << {W("vacation"), T(d.date), N(d.numbers[1], "days")}, {}, {W("vacation")}, {} >>)

Training(d) == Item(
    [withdrawn |-> << Fact(<<"conference">>, {W("conference")}) >>,
     decisions |-> << Fact(<<"training">>, {W("course"), N(d.numbers[1], "won")}) >>,
     actions   |-> << Action(d.owner, d.date, "courses") >>,
     numbers   |-> d.numbers],
    << {W("conference")}, {W("conference")}, {W("conference")}, {W("conference"), TakenBack},
       {W("course"), N(d.numbers[1], "won")}, {W("courses"), T(d.date)}, {} >>)

Feedback(d) == Item(
    [open_questions |-> << Fact(<<"feedback">>, {W("code_review")}) >>],
    << {W("code_review")}, {}, {}, {} >>)

Price(d) == Item(
    [withdrawn |-> << Fact(<<"price">>, {N(d.numbers[1], "each")}) >>,
     decisions |-> << Fact(<<"price">>, {W("price"), N(d.numbers[2], "each")}) >>,
     numbers   |-> d.numbers],
    << {W("price"), N(d.numbers[1], "each")}, {}, {N(d.numbers[1], "each"), TakenBack, N(d.numbers[2], "each")},
       {N(d.numbers[2], "each")} >>)

Timeline(d) == Item(
    [decisions |-> << Fact(<<"timeline", d.feature, Shape(d.date)>>, {F(d.feature), W("pilot"), T(d.date)}) >>,
     actions   |-> << Action(d.owner, d.date, "accounts") >>],
    << {F(d.feature)}, {W("pilot"), T(d.date)}, {F(d.feature), W("pilot"), T(d.date)},
       {W("pilot"), W("accounts"), T(d.date)}, {} >>)

Sla(d) == Item(
    [decisions      |-> << Fact(<<"sla">>, {W("outage"), N(d.numbers[1], "hours")}) >>,
     open_questions |-> << Fact(<<"weekend">>, {W("weekend"), W("cost")}) >>,
     numbers        |-> d.numbers],
    << {W("outage")}, {N(d.numbers[1], "hours")}, {N(d.numbers[1], "hours")}, {W("weekend"), W("cost")}, {} >>)

Items ==
    [weekly     |-> {"release", "budget", "metrics", "question", "hiring", "incident"},
     one_on_one |-> {"goal", "vacation", "training", "feedback", "release", "metrics"},
     customer   |-> {"price", "timeline", "sla", "release", "question", "metrics"}]
Featureless == {"hiring", "vacation", "training", "feedback", "price", "sla"}
Dateless == {"metrics", "question", "feedback", "price", "sla"}
Built(item, d) ==
    CASE item = "release"  -> Release(d)  [] item = "budget"   -> Budget(d)   [] item = "metrics"  -> Metrics(d)
      [] item = "question" -> Question(d) [] item = "hiring"   -> Hiring(d)   [] item = "incident" -> Incident(d)
      [] item = "goal"     -> Goal(d)     [] item = "vacation" -> Vacation(d) [] item = "training" -> Training(d)
      [] item = "feedback" -> Feedback(d) [] item = "price"    -> Price(d)    [] item = "timeline" -> Timeline(d)
      [] item = "sla"      -> Sla(d)

(* How many numbers an item says.                                                    *)
ItemNames == UNION Range(Items)
SaysNumbers ==
    [item \in ItemNames |->
        IF item \in {"budget", "metrics", "price"} THEN 2
        ELSE IF item \in {"question", "goal", "feedback", "timeline"} THEN 0 ELSE 1]
ASSUME GenAssumption ==
    \A item \in ItemNames :
        Ranges[item] \in Seq(Range(Ranges[item])) /\ Len(Ranges[item]) = SaysNumbers[item]

-----------------------------------------------------------------------------
VARIABLES
    kind, participants, lead,
    key,            \* the answer key
    blocks,         \* the items as planted
    features,       \* not drawn yet
    used_dates, used_numbers,
    items,          \* not left out
    order,          \* of those, the ones left in this round
    misses          \* item |-> how often it was taken back
generator == <<kind, participants, lead, key, blocks, features, used_dates, used_numbers, items, order, misses>>

GenInit ==
    /\ kind \in DOMAIN Items
    /\ participants \in kSubset(Attendees[kind], People)
    /\ lead \in participants
    /\ key = Nothing /\ blocks = <<>>
    /\ features = Features /\ used_dates = {} /\ used_numbers = {}
    /\ \E agenda \in Agendas : items = Items[kind] \cap agenda
    /\ order = {}
    /\ misses = [item \in items |-> 0]

(* The features start over when all are drawn, a number is drawn again only when its    *)
(* range has no other left, a date never; the deck of items is shuffled anew when it is   *)
(* empty.                                                                                  *)
Round == IF order = {} THEN items ELSE order
FeaturesLeft == IF features = {} THEN Features ELSE features
Free(range, used) == IF range \subseteq used THEN range ELSE range \ used
Numbers(ranges) ==
    {n \in [DOMAIN ranges -> UNION Range(ranges)] :
        \A i \in DOMAIN n : n[i] \in Free(ranges[i], used_numbers \cup {n[j] : j \in 1..i-1})}
Unneeded == "none"
Draws(item) ==
    [feature : IF item \in Featureless THEN {Unneeded} ELSE FeaturesLeft,
     date    : IF item \in Dateless THEN {Unneeded} ELSE (Days \cup Weekdays) \ used_dates,
     owner   : participants \ {lead},
     numbers : Numbers(Ranges[item])]

(* repeats: one of the new facts has the shape of an earlier one.                          *)
Repeatable == {"decisions", "open_questions", "withdrawn"}
Planted == Repeatable \cup {"actions", "numbers"}
Planting(facts) == [f \in Planted |-> key[f] \o facts[f]]
Repeats(facts) ==
    \E f \in Repeatable : \E new \in Range(facts[f]) : \E old \in Range(key[f]) : old.shape = new.shape

(* What an item planted is cut off its lists again; its feature stays drawn.               *)
\* Slip: the actions and the numbers are forgotten.
CutOffRepeatable(after) ==
    [f \in Planted |-> IF f \in Repeatable THEN SubSeq(after[f], 1, Len(key[f])) ELSE after[f]]

CutOff(after) == [f \in Planted |-> SubSeq(after[f], 1, Len(key[f]))]

Plants ==
    /\ Len(blocks) < MaxBlocks
    /\ \E item \in Round : \E d \in Draws(item) :
         LET new == Built(item, d)
             again == Repeats(new.facts)
             out == again /\ misses[item] + 1 >= MaxMisses
         IN  /\ features' = IF item \in Featureless THEN features ELSE FeaturesLeft \ {d.feature}
             /\ key' = IF again THEN CutOff(Planting(new.facts)) ELSE Planting(new.facts)
             /\ blocks' = IF again THEN blocks ELSE Append(blocks, new)
             /\ used_dates' = IF again \/ item \in Dateless THEN used_dates ELSE used_dates \cup {d.date}
             /\ used_numbers' = IF again THEN used_numbers ELSE used_numbers \cup Range(d.numbers)
             /\ misses' = IF again THEN [misses EXCEPT ![item] = @ + 1] ELSE misses
             /\ items' = IF out THEN items \ {item} ELSE items
             /\ order' = Round \ {item}
    /\ UNCHANGED <<kind, participants, lead>>

(* The meeting is long enough, or has nothing left to be about.                            *)
LongEnough == blocks # <<>> \/ items = {}

(* An item is talked over after its first line.                                             *)
Spoken(block) == <<block.lines[1], {}>> \o Tail(block.lines)
Lines == << {} >> \o FlattenSeq([i \in DOMAIN blocks |-> Spoken(blocks[i])]) \o << {} >>

-----------------------------------------------------------------------------
(* What the score counts on: no two actions share a deadline ("deadlines never repeat     *)
(* within a meeting", meeting_gen.py:143) and no two facts of a list a shape; the numbers   *)
(* of the key are the ones the meeting says; every keyword of a fact is said; and what was   *)
(* taken back, or is not planted yet, left nothing behind.                                    *)
Said == UNION Range(Lines)
KeyIsSound ==
    /\ \A i, j \in DOMAIN key.actions : key.actions[i].due = key.actions[j].due => i = j
    /\ \A f \in Repeatable : \A i, j \in DOMAIN key[f] : key[f][i].shape = key[f][j].shape => i = j
    /\ Range(key.numbers) = {word[2] : word \in {w \in Said : w[1] = "number"}}
    /\ used_numbers = Range(key.numbers)
    /\ used_dates = {word[2] : word \in {w \in Said : w[1] = "date"}}
    /\ \A f \in Planted \ {"numbers"} : \A fact \in Range(key[f]) : fact.keywords \subseteq Said
    /\ \A action \in Range(key.actions) : action.owner \in participants \ {lead}
=============================================================================
