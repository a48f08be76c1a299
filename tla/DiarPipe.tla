------------------------------ MODULE DiarPipe ------------------------------
(* diar_pipe.py: what lies between the models of a diarizer.  A meeting is cut    *)
(* into overlapping chunks; the segmentation says which local speakers each       *)
(* frame of a chunk holds; a local speaker with enough frames of their own gets    *)
(* an embedding; embeddings are clustered; each frame of the meeting keeps as      *)
(* many clusters as it holds speakers.  Embeddings, distances and linkage are      *)
(* left out: a clustering is any partition, the nearest cluster any of those it     *)
(* is chosen from.                                                                  *)
EXTENDS Der

CONSTANTS
    Window, Shift,      \* samples of a chunk, and from one chunk to the next
    FrameShift,         \* samples of a frame
    ChunkFrames,        \* frames the segmentation gives for a chunk
    Locals,             \* local speakers of a chunk: 1..n
    MinAlone,           \* frames outside overlap an embedding needs
    MinOn, MinOff       \* frames: shorter turns are dropped, shorter gaps closed

(* labels: chunk |-> frame |-> local speakers.  Chunks and frames from 1; the      *)
(* frames of the meeting from 0.  Rounding is to the nearest, a half up.            *)
StartOf(c) == (2 * (c - 1) * Shift + FrameShift) \div (2 * FrameShift)
Covers(c, f) == StartOf(c) <= f /\ f < StartOf(c) + ChunkFrames
In(labels, c, f) == labels[c][f - StartOf(c) + 1]
AllFrames(labels) == (Window + (Len(labels) - 1) * Shift) \div FrameShift + 1

SpeakersPerFrame(labels, f) ==
    LET over == {c \in DOMAIN labels : Covers(c, f)}
        count == SumFunction([c \in over |-> Cardinality(In(labels, c, f))])
    IN  IF over = {} THEN 0 ELSE (2 * count + Cardinality(over)) \div (2 * Cardinality(over))

(* The (chunk, local speaker) pairs worth an embedding, in order.                   *)
Alone(labels, c, s) == {k \in 1..ChunkFrames : labels[c][k] = {s}}
ChunkSpeakers(labels) ==
    Ordered({x \in (DOMAIN labels) \X Locals : Cardinality(Alone(labels, x[1], x[2])) >= MinAlone}, Earlier)

(* An embedding's stretches of its chunk: a run that goes to the last frame ends    *)
(* where that frame begins.                                                          *)
SpansOf(labels, c, s) ==
    LET alone == Alone(labels, c, s)
        at(k) == ((k - 1) * Window) \div ChunkFrames + (c - 1) * Shift
        first == {k \in alone : k - 1 \notin alone}
        after(k) == Min({n \in k..ChunkFrames + 1 : n \notin alone})
    IN  {<<at(k), at(Min({after(k), ChunkFrames}))>> : k \in first}

-----------------------------------------------------------------------------
(* Labels are numbered in the order of their first embedding.                       *)
Alike(labels, i) == {j \in DOMAIN labels : labels[j] = labels[i]}
Firsts(labels) == {i \in DOMAIN labels : \A j \in Alike(labels, i) : i <= j}
FirstSeen(labels) ==
    [i \in DOMAIN labels |-> Cardinality({j \in Firsts(labels) : \A k \in Alike(labels, i) : j < k})]

Labelled(f, i, c) == [j \in DOMAIN f \cup {i} |-> IF j = i THEN c ELSE f[j]]
Partitions(S) ==
    {FirstSeen(g) : g \in
        FoldSet(LAMBDA i, some : UNION {{Labelled(f, i, c) : c \in 0..Cardinality(Range(f))} : f \in some},
                {[j \in {} |-> 0]}, S)}

Folded(labels, big) ==
    {FirstSeen([i \in DOMAIN labels |-> IF labels[i] \in big THEN labels[i] ELSE into[labels[i]]]) :
        into \in [Range(labels) \ big -> big]}

(* Clusters with too few embeddings join a big one; all stay when none is big.       *)
SizeOf(labels, c) == Cardinality({i \in DOMAIN labels : labels[i] = c})
ReassignSmall(labels, minCount) ==
    LET big == {c \in Range(labels) : SizeOf(labels, c) >= minCount}
    IN  IF big = {} THEN {FirstSeen(labels)} ELSE Folded(labels, big)

(* Clusters folded away in which one reference speaker holds most of the speech,     *)
(* and reference speakers who lead no cluster.  overlap: embedding |-> speaker |->   *)
(* samples.                                                                           *)
RefOverlap(labels, pairs, ref) ==
    [i \in DOMAIN pairs |-> [s \in {t.speaker : t \in Range(ref)} |->
        MapThenSumSet(LAMBDA x :
            MapThenSumSet(LAMBDA t : Max({0, Min({t.end * FrameShift, x[2]}) - Max({t.start * FrameShift, x[1]})}),
                          {t \in Range(ref) : t.speaker = s}),
            SpansOf(labels, pairs[i][1], pairs[i][2]))]]
Held(overlap, labels, c, s) ==
    MapThenSumSet(LAMBDA i : overlap[i][s], {i \in DOMAIN labels : labels[i] = c})
Erased(overlap, labels, minCount, ref) ==
    LET who == {t.speaker : t \in Range(ref)}
        all(c) == MapThenSumSet(LAMBDA s : Held(overlap, labels, c, s), who)
    IN  IF \A c \in Range(labels) : SizeOf(labels, c) < minCount THEN {}
        ELSE {c \in Range(labels) : /\ SizeOf(labels, c) < minCount
                                    /\ \E s \in who : 5 * Held(overlap, labels, c, s) > 4 * all(c)}
Leaders(overlap, labels, ref) ==
    {Min({s \in {t.speaker : t \in Range(ref)} :
            \A other \in {t.speaker : t \in Range(ref)} :
              Held(overlap, labels, c, other) <= Held(overlap, labels, c, s)}) : c \in Range(labels)}

-----------------------------------------------------------------------------
(* reconstruct: a chunk votes once for a cluster in a frame; the frames are gone      *)
(* through in blocks, over the clusters voted for somewhere in the block and as many   *)
(* of the lowest as its frames may take without a vote.                                *)
Frames(labels, samples) ==
    IF (samples - Window) % Shift > 0 THEN Min({samples \div FrameShift, AllFrames(labels) - 1}) + 1
    ELSE AllFrames(labels)

(* of: <<chunk, local speaker, cluster>>                                              *)
Votes(labels, of, f, c) ==
    Cardinality({ch \in DOMAIN labels :
        Covers(ch, f) /\ \E x \in of : x[1] = ch /\ x[2] \in In(labels, ch, f) /\ x[3] = c})
MostVoted(labels, of, f, among, k) ==
    LET tally == {<<c, Votes(labels, of, f, c)>> : c \in among}
        ahead(x) == {y \in tally : y[2] > x[2] \/ (y[2] = x[2] /\ y[1] < x[1])}
    IN  {x[1] : x \in {y \in tally : Cardinality(ahead(y)) < k}}
\* Slip: only clusters voted for in the block.
VotedOnly(labels, of, first, last) ==
    {x[3] : x \in {y \in of : \E f \in first..last : Covers(y[1], f)}}

Candidates(labels, of, first, last) ==
    LET over == {ch \in DOMAIN labels : StartOf(ch) + ChunkFrames > first /\ StartOf(ch) <= last}
        voted == {x[3] : x \in {y \in of : y[1] \in over}}
        most == Max({SpeakersPerFrame(labels, f) : f \in first..last})
        highest == Max({x[3] : x \in of})
    IN  voted \cup {c \in 0..highest : c < Cardinality(voted) + most}

Picked(labels, of, samples, block) ==
    LET n == Frames(labels, samples)
        blocks == {<<f0, Candidates(labels, of, f0, Min({f0 + block, n}) - 1)>> :
                     f0 \in {x \in 0..n-1 : x % block = 0}}
    IN  {x \in (0..n-1) \X {y[3] : y \in of} :
            \E b \in blocks : /\ b[1] = (x[1] \div block) * block
                             /\ x[2] \in MostVoted(labels, of, x[1], b[2], SpeakersPerFrame(labels, x[1]))}

(* Runs of frames become turns; a run to the last frame ends on it.                   *)
Merged(out, seg) ==
    IF out # <<>> /\ Last(out)[2] < seg[1] /\ Last(out)[2] + MinOff >= seg[1]
    THEN Front(out) \o << <<Last(out)[1], seg[2]>> >>
    ELSE Append(out, seg)
MergeAndFilter(segs) == {x \in Range(FoldLeft(Merged, <<>>, segs)) : x[2] - x[1] > MinOn}
Runs(S, n) ==
    Ordered({<<a, Min({Min({b \in a..n : b \notin S}), n - 1})>> : a \in {x \in S : x - 1 \notin S}}, Earlier)
Sooner(s, t) == s.start < t.start \/ (s.start = t.start /\ s.speaker < t.speaker)
TurnsOf(picked, n) ==
    LET mine(c) == MergeAndFilter(Runs({x[1] : x \in {y \in picked : y[2] = c}}, n))
    IN  Ordered(UNION {{Turn(c, x[1], x[2]) : x \in mine(c)} : c \in {x[2] : x \in picked}},
                     Sooner)

Clustered(pairs, clusters) == {<<pairs[i][1], pairs[i][2], clusters[i]>> : i \in DOMAIN pairs}
Reconstruct(labels, pairs, clusters, samples, block) ==
    TurnsOf(Picked(labels, Clustered(pairs, clusters), samples, block), Frames(labels, samples))
=============================================================================
