-------------------------- MODULE MCMeetingSummary --------------------------
(* Up to three items of a meeting, of one kind or two that come round again.  A range   *)
(* has one or two numbers, so that they run out, and the digits of some end in others.    *)
EXTENDS MeetingSummary

TheAgendas ==
    {{"release", "hiring", "vacation", "price"}, {"budget", "question", "goal", "feedback", "sla"},
     {"metrics", "incident", "training", "timeline"},
     {"hiring", "goal", "timeline"}}
One == <<1..2>>
TheRanges ==
    [budget |-> <<1..2, {2, 12}>>, price |-> <<1..2, {2, 12}>>, metrics |-> << {1}, {12} >>, incident |-> << {1} >>]
      @@ [item \in {"release", "hiring", "vacation", "training", "sla"} |-> One]
      @@ [item \in {"question", "goal", "feedback", "timeline"} |-> <<>>]
TheAttendees == [weekly |-> 2, one_on_one |-> 2, customer |-> 2]
TheDays == {<<10, 2>>, <<11, 12>>}
ThePairs == [feature |-> 3, word |-> 1, number |-> 2, date |-> 4]
Alike == Permutations(People) \cup Permutations(Features)
=============================================================================
