-------------------------------- MODULE Der --------------------------------
(* der.py: how far the turns a diarizer gives are from the reference.  Times     *)
(* are frames of 10 ms; the matching of speakers is Assign's, in steps.          *)
EXTENDS Integers, Sequences, FiniteSets, SequencesExt, FiniteSetsExt, Functions

(* A set in order.                                                               *)
Ordered(S, Before(_, _)) ==
    [i \in 1..Cardinality(S) |-> CHOOSE x \in S : Cardinality({y \in S : Before(y, x)}) = i - 1]

Turn(s, a, b) == [speaker |-> s, start |-> a, end |-> b]
IsTurns(turns) == turns \in Seq([speaker : Int, start : Nat, end : Nat])
SpeakersOf(turns) == Ordered({t.speaker : t \in Range(turns)}, <)
FrameCount(ref, hyp) == Max({0} \cup {t.end : t \in Range(ref) \cup Range(hyp)}) + 1

(* The frames a speaker has, and the same as sorted spans without overlaps.      *)
Grid(turns, s, n) == {f \in 0..n-1 : \E t \in Range(turns) : t.speaker = s /\ t.start <= f /\ f < t.end}

Earlier(x, y) == x[1] < y[1] \/ (x[1] = y[1] /\ x[2] < y[2])
\* Slip: spans that overlap are not merged.
SpansKeptApart(turns, s, n) ==
    Ordered({<<t.start, Min({t.end, n})>> : t \in {x \in Range(turns) : x.speaker = s}},
                 Earlier)

Fused(out, x) ==
    IF out # <<>> /\ x[1] <= Last(out)[2]
    THEN Front(out) \o << <<Last(out)[1], Max({Last(out)[2], x[2]})>> >>
    ELSE Append(out, x)
Spans(turns, s, n) ==
    LET mine == {<<t.start, Min({t.end, n})>> : t \in {x \in Range(turns) : x.speaker = s}}
    IN  FoldLeft(Fused, <<>>, Ordered({x \in mine : x[2] > x[1]}, Earlier))

(* What the matching weighs: the frames each pair of speakers shares.            *)
Overlap(ref, hyp) ==
    LET n == FrameCount(ref, hyp)
        rl == SpeakersOf(ref)
        hl == SpeakersOf(hyp)
        spans == [i \in DOMAIN hl |-> Spans(hyp, hl[i], n)]
    IN  [i \in DOMAIN hl |-> [j \in DOMAIN rl |->
            SumFunction([k \in DOMAIN spans[i] |->
                Cardinality(Grid(ref, rl[j], n) \cap (spans[i][k][1]..spans[i][k][2]-1))])]]

(* mapping: pairs of a hypothesis and a reference speaker, by their places.      *)
Mapped(ref, hyp, pairs) == {<<SpeakersOf(hyp)[x[1]], SpeakersOf(ref)[x[2]]>> : x \in pairs}

(* The frames that are scored: none within `collar` of a boundary of the          *)
(* reference, and on request none where the reference overlaps.                   *)
Near(ref, f, collar) == \E t \in Range(ref) : \E edge \in {t.start, t.end} : edge - collar <= f /\ f < edge + collar

Score(ref, hyp, mapping, collar, skipOverlap) ==
    LET n == FrameCount(ref, hyp)
        rs == [s \in {t.speaker : t \in Range(ref)} |-> Grid(ref, s, n)]
        hs == [s \in {t.speaker : t \in Range(hyp)} |-> Spans(hyp, s, n)]
        has(s, f) == \E k \in DOMAIN hs[s] : hs[s][k][1] <= f /\ f < hs[s][k][2]
        R == [f \in 0..n-1 |-> Cardinality({s \in DOMAIN rs : f \in rs[s]})]
        H == [f \in 0..n-1 |-> SumFunction([s \in DOMAIN hs |->
                Cardinality({k \in DOMAIN hs[s] : hs[s][k][1] <= f /\ f < hs[s][k][2]})])]
        right(f) == Cardinality({x \in mapping : f \in rs[x[2]] /\ has(x[1], f)})
        keep == {f \in 0..n-1 : ~Near(ref, f, collar) /\ (skipOverlap => R[f] <= 1)}
    IN  [total      |-> SumFunction([f \in keep |-> R[f]]),
         missed     |-> SumFunction([f \in keep |-> Max({0, R[f] - H[f]})]),
         falseAlarm |-> SumFunction([f \in keep |-> Max({0, H[f] - R[f]})]),
         confusion  |-> SumFunction([f \in keep |-> Min({R[f], H[f]}) - right(f)])]

(* A transcript segment, the speaker the hypothesis has most in it and the one    *)
(* the reference has; a segment with no speech is no question.                     *)
MostIn(turns, seg, n) ==
    LET frames(s) == Cardinality(Grid(turns, s, n) \cap (seg[1]..Max({seg[2], seg[1] + 1}) - 1))
        sl == SpeakersOf(turns)
        heard == {i \in DOMAIN sl : frames(sl[i]) > 0}
    IN  IF heard = {} THEN {}
        ELSE {sl[Min({i \in heard : \A k \in heard : frames(sl[k]) <= frames(sl[i])})]}

SegmentAccuracy(ref, hyp, mapping, segments, short) ==
    LET n == FrameCount(ref, hyp)
        asked == {k \in DOMAIN segments : MostIn(ref, segments[k], n) # {}}
        got(k) == {x[2] : x \in {y \in mapping : y[1] \in MostIn(hyp, segments[k], n)}}
        right == {k \in asked : got(k) = MostIn(ref, segments[k], n)}
        brief == {k \in asked : segments[k][2] - segments[k][1] <= short}
    IN  [right |-> Cardinality(right), total |-> Cardinality(asked),
         shortRight |-> Cardinality(right \cap brief), shortTotal |-> Cardinality(brief)]

(* What one result says of a meeting: without a collar, with one, and outside      *)
(* overlapped speech.                                                               *)
Scored(ref, hyp, mapping, collar, short) ==
    [collar0   |-> Score(ref, hyp, mapping, 0, FALSE),
     collar25  |-> Score(ref, hyp, mapping, collar, FALSE),
     noOverlap |-> Score(ref, hyp, mapping, collar, TRUE),
     segments  |-> SegmentAccuracy(ref, hyp, mapping, [k \in DOMAIN ref |-> <<ref[k].start, ref[k].end>>], short)]
=============================================================================
