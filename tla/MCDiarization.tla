--------------------------- MODULE MCDiarization ---------------------------
(* Three chunks of three frames, four kinds of chunk, every clustering of their  *)
(* embeddings; and three reference turns against four of a hypothesis, by up to  *)
(* three speakers each.                                                          *)
EXTENDS Diarization

Kinds == { << {1}, {1}, {1} >>, << {1}, {2}, {2} >>, << {}, {1}, {1, 2} >>, << {1, 2}, {1, 2}, {} >> }
Mic == << << {1}, {}, {} >>, << {1}, {1}, {2} >>, << {}, {1}, {1} >> >>
Alternating == << {1}, {2}, {2} >>
Store(labels, samples, bad) == [labels |-> labels, mic |-> Mic, samples |-> samples, bad |-> bad]
TheStores ==
    {Store(<<a, b, << {}, {1}, {1, 2} >> >>, 14, 0) : a, b \in Kinds}
      \cup {Store(<<Alternating, Alternating, a>>, 13, 1) : a \in Kinds}

Whole(minCount) == [mode |-> "whole", minCount |-> minCount, call |-> FALSE, block |-> 4]
Pieces(piece, overlap, cannotLink, share, kind, floor) ==
    [mode |-> "pieces", minCount |-> 1, call |-> overlap = 0, block |-> 2, piece |-> piece, overlap |-> overlap,
     pieceMin |-> 1, pieceShare |-> share, cannotLink |-> cannotLink, floorKind |-> kind, floor |-> floor]
TheConfigs ==
    {Whole(1), Whole(2),
     Pieces(6, 0, TRUE, 60, "sec", 0), Pieces(6, 3, FALSE, 0, "share", 40),
     Pieces(6, 3, TRUE, 0, "sec", 6), Pieces(3, 3, FALSE, 60, "sec", 20)}

TheReferences == { << Turn(1, 0, 3), Turn(2, 2, 6) >> }

Said(times) == {[i \in DOMAIN times |-> Turn(who[i], times[i][1], times[i][2])] : who \in [DOMAIN times -> 1..3]}
TheRescored == Said(<< <<0, 2>>, <<1, 4>>, <<4, 6>> >>) \X Said(<< <<0, 2>>, <<1, 3>>, <<3, 5>>, <<2, 6>> >>)
=============================================================================
