----------------------------- MODULE Diarization -----------------------------
(* A meeting diarized and scored: diar_chunk.py (or diar_pipe.py's one clustering  *)
(* of the whole meeting, or the microphone of a call, which is one voice), the      *)
(* turns diar_pipe makes of it, and der.py's score of the turns.  What the models    *)
(* and the linkage would say is chosen freely where the code asks them.              *)
EXTENDS DiarPipe, Assign

CONSTANTS
    Stores,     \* what the models said: [labels, samples, mic, bad]
    Configs,    \* the settings of the clustering
    References, \* reference turns, for the stores
    Rescored,   \* pairs of reference and hypothesis scored as they are
    Collar,     \* frames left out around a boundary
    Short       \* frames of a short segment

ASSUME DiarAssumption ==
    /\ Window \in Nat /\ Shift \in Nat /\ ChunkFrames \in Nat /\ FrameShift \in Nat \ {0}
    /\ MinOn \in Int /\ MinOff \in Nat
    /\ IsFiniteSet(Locals) /\ Locals \subseteq Int
    /\ \A r \in References : IsTurns(r)
    /\ \A x \in Rescored : IsTurns(x[1]) /\ IsTurns(x[2])
    /\ \A s \in Stores : /\ s.labels \in Seq(Range(s.labels)) /\ s.mic \in Seq(Range(s.mic)) /\ s.samples \in Int
                          /\ \A c \in DOMAIN s.labels, k \in 1..ChunkFrames : IsFiniteSet(s.labels[c][k])
    /\ \A c \in Configs : /\ c.minCount \in Int
                          /\ c.mode = "pieces" => c.piece \in Nat \ {0} /\ c.overlap \in Nat /\ c.floor \in Int

VARIABLES
    stage,      \* what was done last
    store,      \* the labels, and how long the recording is
    cfg,        \* the settings
    pairs,      \* the embeddings, by their chunk and local speaker
    members, local,     \* piece |-> its embeddings |-> their cluster in the piece
    root,       \* candidate |-> the first candidate it is one with
    linked,     \* embedding |-> speaker before the floor of the meeting
    clusters,   \* embedding |-> speaker
    ref, hyp,   \* turns
    result      \* the scores
pipeline == <<store, cfg, pairs, members, local, root, linked, clusters>>
assigning == <<weights, hungarian>>
vars == <<stage, pipeline, assigning, ref, hyp, result>>

NoStore == [labels |-> <<>>]
Embeddings == DOMAIN pairs

-----------------------------------------------------------------------------
(* The pieces: an embedding is in the piece the middle of its chunk falls in, and    *)
(* may be heard by the piece before, which goes on for overlapSec.  Samples.          *)
Middle(i) == (pairs[i][1] - 1) * Shift + Window \div 2
Owner(i) == Middle(i) \div cfg.piece
PieceCount == Max({Middle(i) : i \in Embeddings}) \div cfg.piece + 1
Piece(k) == {i \in Embeddings : Middle(i) >= k * cfg.piece /\ Middle(i) < (k + 1) * cfg.piece + cfg.overlap}

(* The speech an embedding stands for: its frames alone, a chunk's share of them.     *)
Speech(i) == Cardinality(Alone(store.labels, pairs[i][1], pairs[i][2])) * Shift

(* Clusters under the floor join a big one; with none big the largest stays, the      *)
(* lowest among equals, and takes the rest.                                            *)
Weighs(labels, weight, c) == SumFunctionOnSet(weight, {i \in DOMAIN labels : labels[i] = c})
BigOnes(labels, weight, floor) ==
    LET ids == Range(labels)
        big == {c \in ids : Weighs(labels, weight, c) >= floor}
        most == {c \in ids : \A d \in ids : Weighs(labels, weight, d) <= Weighs(labels, weight, c)}
    IN  IF big = {} THEN {Min(most)} ELSE big
\* Slip: with none big, all stay.
KeepAllBig(labels, weight, floor) ==
    LET big == {c \in Range(labels) : Weighs(labels, weight, c) >= floor}
    IN  IF big = {} THEN {FirstSeen(labels)} ELSE Folded(labels, big)

KeepBig(labels, weight, floor) == Folded(labels, BigOnes(labels, weight, floor))

(* One piece: any clustering, and its floor, for more than one embedding.              *)
Ceiling(n, percent) == (n * percent + 99) \div 100
PieceFloor(n) == Max({cfg.pieceMin, Ceiling(n, cfg.pieceShare)})
LocalLabels(mine) ==
    IF Cardinality(mine) <= 1 THEN {[i \in mine |-> 0]}
    ELSE LET floor == PieceFloor(Cardinality(mine))
         IN  UNION {IF floor > 1 THEN KeepBig(base, [i \in mine |-> 1], floor) ELSE {base} : base \in Partitions(mine)}

-----------------------------------------------------------------------------
(* The clusters of the pieces are candidates, in the order of their pieces (the code     *)
(* numbers them without gaps: only the order is asked for).                               *)
Candidate(k, c) == k * Len(pairs) + c
AllCandidates == UNION {{Candidate(k - 1, c) : c \in Range(local[k])} : k \in DOMAIN local}

(* A candidate whose embeddings in the overlap mostly fall into one candidate of the    *)
(* next piece is the same person.                                                        *)
Shared(k, c) == {i \in members[k + 1] \cap members[k + 2] : local[k + 1][i] = c}
Fallen(k, c, d) == {i \in Shared(k, c) : local[k + 2][i] = d}
MustLinks == {<<Candidate(x[1], x[2]), Candidate(x[1] + 1, x[3])>> :
    x \in {y \in (0..Len(local) - 2) \X (0..Len(pairs)) \X (0..Len(pairs)) :
             2 * Cardinality(Fallen(y[1], y[2], y[3])) > Cardinality(Shared(y[1], y[2]))}}

(* The lower of two roots becomes the root of both.                                      *)
Joined(up, a, b) ==
    [c \in DOMAIN up |-> IF up[c] = Max({up[a], up[b]}) THEN Min({up[a], up[b]}) ELSE up[c]]
Rooted(links) == FoldSet(LAMBDA x, up : Joined(up, x[1], x[2]), [c \in AllCandidates |-> c], links)

(* An embedding's candidate is the one of its own piece.                                  *)
Of(i) == Candidate(Owner(i), local[Owner(i) + 1][i])
Node(i) == root[Of(i)]
Nodes == Range(root)
PiecesOf(n) == {k \in 0..Len(local) - 1 : \E c \in Range(local[k + 1]) : root[Candidate(k, c)] = n}

(* With cannotLink, nodes that share a piece are so far apart that the average of no      *)
(* number of near pairs brings them together.                                              *)
Apart(m, n) == cfg.cannotLink /\ m # n /\ PiecesOf(m) \cap PiecesOf(n) # {}
Links == {to \in Partitions(Nodes) : \A m, n \in Nodes : Apart(m, n) => to[m] # to[n]}

-----------------------------------------------------------------------------
Unset ==
    /\ pairs = <<>> /\ members = <<>> /\ local = <<>> /\ root = <<>>
    /\ linked = <<>> /\ clusters = <<>> /\ result = <<>>

Init ==
    /\ Unset
    /\ AssignInit
    /\ \/ /\ stage = "audio"
          /\ store \in Stores /\ cfg \in Configs /\ ref \in References
          /\ hyp = <<>>
       \/ /\ stage = "turns"
          /\ store = NoStore /\ cfg = NoStore
          /\ \E x \in Rescored : ref = x[1] /\ hyp = x[2]

(* extract: an embedding that is not a number is left out; a meeting without any ends     *)
(* with an error.                                                                           *)
Extracts ==
    /\ stage = "audio"
    /\ LET all == ChunkSpeakers(store.labels)
       IN  /\ pairs' = IF store.bad \in DOMAIN all THEN RemoveAt(all, store.bad) ELSE all
           /\ stage' = IF pairs' = <<>> THEN "failed" ELSE "embeddings"
    /\ UNCHANGED <<store, cfg, members, local, root, linked, clusters, assigning, ref, hyp, result>>

(* diarize of diar_pipe: the whole meeting at once.                                          *)
ClustersWhole ==
    /\ stage = "embeddings" /\ cfg.mode = "whole"
    /\ \E base \in Partitions(Embeddings) :
         /\ linked' = base
         /\ clusters' \in IF cfg.minCount > 1 THEN ReassignSmall(base, cfg.minCount) ELSE {base}
    /\ stage' = "labelled"
    /\ UNCHANGED <<store, cfg, pairs, members, local, root, assigning, ref, hyp, result>>

(* diarize_labels: the pieces, each clustered on its own.                                    *)
ClustersPiece ==
    /\ stage = "embeddings" /\ cfg.mode = "pieces"
    /\ LET mine == Piece(Len(local))
       IN  /\ members' = Append(members, mine)
           /\ \E labels \in LocalLabels(mine) : local' = Append(local, labels)
    /\ stage' = IF Len(local) + 1 = PieceCount THEN "pieces" ELSE stage
    /\ UNCHANGED <<store, cfg, pairs, root, linked, clusters, assigning, ref, hyp, result>>

Joins ==
    /\ stage = "pieces"
    /\ root' = IF cfg.overlap > 0 THEN Rooted(MustLinks) ELSE Rooted({})
    /\ stage' = "joined"
    /\ UNCHANGED <<store, cfg, pairs, members, local, linked, clusters, assigning, ref, hyp, result>>

LinksPieces ==
    /\ stage = "joined"
    /\ \E to \in Links : linked' = FirstSeen([i \in Embeddings |-> to[Node(i)]])
    /\ stage' = "linked"
    /\ UNCHANGED <<store, cfg, pairs, members, local, root, clusters, assigning, ref, hyp, result>>

Floor == IF cfg.floorKind = "share" THEN Ceiling(SumFunction([i \in Embeddings |-> Speech(i)]), cfg.floor) ELSE cfg.floor
Floors ==
    /\ stage = "linked"
    /\ clusters' \in IF Floor > 0 THEN KeepBig(linked, [i \in Embeddings |-> Speech(i)], Floor) ELSE {linked}
    /\ stage' = "labelled"
    /\ UNCHANGED <<store, cfg, pairs, members, local, root, linked, assigning, ref, hyp, result>>

-----------------------------------------------------------------------------
(* The far side of a call is diarized, the microphone is one voice wherever anyone is      *)
(* heard on it, without what its loudspeaker leaked; Me is the lowest name.                 *)
Me == 0 - 1
EveryPair(labels) == Ordered((DOMAIN labels) \X Locals, Earlier)
OneVoice(labels, samples) ==
    LET all == EveryPair(labels)
        turns == Reconstruct(labels, all, [i \in DOMAIN all |-> 0], samples, samples)
    IN  [i \in DOMAIN turns |-> [turns[i] EXCEPT !.speaker = Me]]
DropEcho(turns, echo) ==
    LET clear(t) == (t.start..t.end - 1) \ echo
        left(t) == {<<a, Min({b \in a..t.end : b \notin clear(t)})>> : a \in {x \in clear(t) : x - 1 \notin clear(t)}}
        long(t) == {x \in left(t) : x[2] - x[1] > MinOn}
    IN  UNION {{Turn(Me, x[1], x[2]) : x \in long(t)} : t \in Range(turns)}

Reconstructs ==
    /\ stage = "labelled"
    /\ \E echo \in IF cfg.call THEN SUBSET {2} ELSE {{}} :
         LET turns == Reconstruct(store.labels, pairs, clusters, store.samples, cfg.block)
             voice == IF cfg.call THEN DropEcho(OneVoice(store.mic, store.samples), echo) ELSE {}
         IN  hyp' = Ordered(voice \cup Range(turns), Sooner)
    /\ members' = <<>> /\ local' = <<>> /\ root' = <<>>
    /\ linked' = IF cfg.mode = "whole" THEN linked ELSE <<>>
    /\ stage' = "turns"
    /\ UNCHANGED <<store, cfg, pairs, clusters, assigning, ref, result>>

(* score: the speakers are matched over the whole recording, then the frames counted.       *)
Matches ==
    /\ stage = "turns"
    /\ Begin(Overlap(ref, hyp))
    /\ stage' = "matching"
    /\ UNCHANGED <<pipeline, ref, hyp, result>>

Assigns ==
    /\ stage = "matching"
    /\ AssignNext
    /\ UNCHANGED <<stage, pipeline, ref, hyp, result>>

(* Who the floor took away, and who leads no cluster (evaluate_pipe).                        *)
People ==
    IF store = NoStore THEN <<>>
    ELSE LET overlap == RefOverlap(store.labels, pairs, ref)
         IN  [erased   |-> IF cfg.minCount > 1 THEN Cardinality(Erased(overlap, linked, cfg.minCount, ref)) ELSE 0,
              vanished |-> Cardinality({t.speaker : t \in Range(ref)} \ Leaders(overlap, clusters, ref))]
Beside(scores, more) == [x \in DOMAIN scores \cup DOMAIN more |-> IF x \in DOMAIN scores THEN scores[x] ELSE more[x]]
Scores ==
    /\ stage = "matching" /\ Assigned
    /\ result' = Beside(Scored(ref, hyp, Mapped(ref, hyp, PairsOf(Overlap(ref, hyp))), Collar, Short), People)
    /\ stage' = "scored"
    /\ UNCHANGED <<pipeline, assigning, ref, hyp>>

(* A meeting is scored, or has no voice.                                                      *)
Ended == stage \in {"scored", "failed"} /\ UNCHANGED vars

Next ==
    \/ Extracts \/ ClustersWhole \/ ClustersPiece \/ Joins \/ LinksPieces \/ Floors
    \/ Reconstructs \/ Matches \/ Assigns \/ Scores \/ Ended
Spec == Init /\ [][Next]_vars
-----------------------------------------------------------------------------
(* Labels, however the pieces, the links and the nearest clusters come out: numbered by     *)
(* their first embedding; nobody under the floor is left beside somebody else (by embeddings *)
(* when the whole meeting is clustered, unless nobody reaches it); two candidates of an       *)
(* overlap that are one person, and the embeddings of one candidate, end as one speaker; and  *)
(* with cannotLink only such an overlap joins two candidates of a piece.                       *)
LabelsAreSound ==
    stage = "labelled" =>
      /\ clusters = FirstSeen(clusters)
      /\ cfg.mode = "whole" =>
           \/ \A c \in Range(clusters) : SizeOf(clusters, c) >= cfg.minCount
           \/ clusters = linked /\ \A c \in Range(linked) : SizeOf(linked, c) < cfg.minCount
      /\ cfg.mode = "pieces" =>
           /\ \/ \A c \in Range(clusters) : Weighs(clusters, [i \in Embeddings |-> Speech(i)], c) >= Floor
              \/ Range(clusters) = {0}
           /\ \A i, j \in Embeddings :
                /\ Of(i) = Of(j) \/ (cfg.overlap > 0 /\ <<Of(i), Of(j)>> \in MustLinks) => clusters[i] = clusters[j]
                /\ cfg.cannotLink /\ Owner(i) = Owner(j) /\ linked[i] = linked[j] => Node(i) = Node(j)

(* Each frame keeps the clusters with the most votes of all there are, as many as it holds    *)
(* speakers, whatever the size of the blocks; the turns of a speaker are longer than MinOn and *)
(* more than MinOff apart.                                                                      *)
TurnsAreTheMostVoted ==
    stage = "labelled" =>
      LET of == Clustered(pairs, clusters)
          n == Frames(store.labels, store.samples)
          turns == Reconstruct(store.labels, pairs, clusters, store.samples, cfg.block)
      IN  /\ \A block \in {1, 3, n} : Picked(store.labels, of, store.samples, block) =
                {x \in (0..n-1) \X Range(clusters) :
                   x[2] \in MostVoted(store.labels, of, x[1], Range(clusters), SpeakersPerFrame(store.labels, x[1]))}
          /\ \A s \in DOMAIN turns : /\ turns[s].end - turns[s].start > MinOn
                                     /\ \A t \in 1..s-1 : turns[t].speaker = turns[s].speaker
                                          => turns[t].end + MinOff < turns[s].start

(* The error is the least any matching of the speakers one to one leaves, over the whole       *)
(* recording, and its parts add up; no frame has more right speakers than it can have.           *)
ErrorOf(score) == score.missed + score.falseAlarm + score.confusion
Matchings ==
    {m \in SUBSET ({t.speaker : t \in Range(hyp)} \X {t.speaker : t \in Range(ref)}) :
        \A x, y \in m : x = y \/ (x[1] # y[1] /\ x[2] # y[2])}
Spoken(turns) ==
    LET n == FrameCount(ref, hyp)
    IN  [s \in {t.speaker : t \in Range(turns)} |-> Grid(turns, s, n)]
Voices(spoken, f) == Cardinality({s \in DOMAIN spoken : f \in spoken[s]})
ScoresAreRight ==
    stage = "scored" =>
      LET R == Spoken(ref)
          H == Spoken(hyp)
          all == 0..FrameCount(ref, hyp)
          agreed(m) == SumFunction([x \in m |-> Cardinality(H[x[1]] \cap R[x[2]])])
      IN  /\ \A m \in Matchings : ErrorOf(result.collar0)
                <= SumFunction([f \in all |-> Max({Voices(R, f), Voices(H, f)})]) - agreed(m)
          /\ result.collar0.total = SumFunction([f \in all |-> Voices(R, f)])
          /\ result.collar0.falseAlarm - result.collar0.missed
                = SumFunction([f \in all |-> Voices(H, f) - Voices(R, f)])
          /\ \A part \in {"collar0", "collar25", "noOverlap"} : result[part].confusion >= 0
          /\ \A part \in DOMAIN result.noOverlap : result.noOverlap[part] <= result.collar25[part]
=============================================================================
