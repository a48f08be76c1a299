------------------------- MODULE TranscriberProofs -------------------------
(***************************************************************************)
(* What holds of Transcriber for every window, overlap, hold-back and      *)
(* bound: types, that no pass goes back, that no two segments repeat each  *)
(* other, and that speech is lost only where a pass was cut or failed.     *)
(***************************************************************************)
EXTENDS Transcriber, WellFoundedInduction, TLAPS

\* What was emitted lies behind the cursor: only a rewind can read it again.
EmittedIsBehind == emittedUntil <= cursor

\* A running pass reads from where cursor and blindCut, which only the pass itself moves,
\* sent it, and past the cursor.
PassIsAhead ==
    at = "reading" =>
        /\ pass.start = WindowStart
        /\ cursor < pass.end
        /\ pass.end <= captured

\* Segments have a length, and the transcript is covered to their ends.
SegmentsAreCovered ==
    \A i \in transcript : i.start < i.end /\ i.end <= emittedUntil

\* Where the next pass rewinds into speech there was a cut, no earlier than what was
\* emitted.  It need not be at the cursor: a window whose segments are all dropped as old moves it on.
RewindIsAtCut ==
    blindCut /\ cursor - 1 \in voiced => \E c \in cuts : emittedUntil <= c /\ c <= cursor

\* The inductive invariant.  RepeatsAreShort alone is not inductive: that a new segment
\* begins at most Overlap before the end of any older one follows from where its pass began
\* to read (PassIsAhead), from the cursor being past all that was emitted
\* (EmittedIsBehind), and from the older segments being behind that (SegmentsAreCovered).
\* LossIsAtCuts is not either: a segment is dropped for reaching back into what was emitted,
\* which it can only after a rewind, and then RewindIsAtCut names the cut it is next to.
IInv ==
    /\ TypeOK
    /\ EmittedIsBehind
    /\ PassIsAhead
    /\ SegmentsAreCovered
    /\ RepeatsAreShort
    /\ RewindIsAtCut
    /\ LossIsAtCuts

-----------------------------------------------------------------------------
(* The segments of one hearing.                                              *)

LEMMA HeardSpans ==
  ASSUME NEW a \in Nat, NEW b \in Nat, NEW breaks, NEW i \in Heard(a, b, breaks)
  PROVE  /\ i = [start |-> i.start, end |-> i.end]
         /\ i.start \in a .. b /\ i.end \in a .. b
         /\ i.start < i.end
  BY DEF Heard

\* Two segments that begin at one place are one: the earlier of two ends would be a pause
\* or a break inside the other.
LEMMA SameStart ==
  ASSUME NEW a \in Nat, NEW b \in Nat, NEW breaks,
         NEW i \in Heard(a, b, breaks), NEW j \in Heard(a, b, breaks),
         i.start = j.start, i.end < j.end
  PROVE  FALSE
<1>1. /\ i.start \in a .. b /\ i.end \in a .. b /\ i.start < i.end
      /\ j.start \in a .. b /\ j.end \in a .. b /\ j.start < j.end
  BY HeardSpans
<1>2. i.end \in j.start .. j.end - 1 /\ i.end \in j.start + 1 .. j.end - 1
  BY <1>1
<1>3. i.end \in voiced /\ i.end \notin breaks
  BY <1>2 DEF Heard
<1>4. i.end # b
  BY <1>1
<1>5. QED
  BY <1>3, <1>4 DEF Heard

\* Nor does one begin inside another.
LEMMA NoStartInside ==
  ASSUME NEW a \in Nat, NEW b \in Nat, NEW breaks,
         NEW i \in Heard(a, b, breaks), NEW j \in Heard(a, b, breaks),
         i.start < j.start, j.start < i.end
  PROVE  FALSE
<1>1. /\ i.start \in a .. b /\ i.end \in a .. b
      /\ j.start \in a .. b
  BY HeardSpans
<1>2. j.start \in i.start + 1 .. i.end - 1 /\ j.start - 1 \in i.start .. i.end - 1
  BY <1>1
<1>3. j.start \notin breaks /\ j.start - 1 \in voiced
  BY <1>2 DEF Heard
<1>4. j.start # a
  BY <1>1
<1>5. QED
  BY <1>3, <1>4 DEF Heard

\* The segments of one hearing do not overlap.
LEMMA HeardApart ==
  ASSUME NEW a \in Nat, NEW b \in Nat, NEW breaks,
         NEW i \in Heard(a, b, breaks), NEW j \in Heard(a, b, breaks), i # j
  PROVE  i.end <= j.start \/ j.end <= i.start
<1>1. /\ i = [start |-> i.start, end |-> i.end] /\ i.start \in Int /\ i.end \in Int
      /\ j = [start |-> j.start, end |-> j.end] /\ j.start \in Int /\ j.end \in Int
  BY HeardSpans
<1>2. CASE i.start < j.start
  BY <1>1, <1>2, NoStartInside
<1>3. CASE j.start < i.start
  BY <1>1, <1>3, NoStartInside
<1>4. CASE i.start = j.start
  <2>1. i.end # j.end
    BY <1>1, <1>4
  <2>2. QED
    BY <1>1, <1>4, <2>1, SameStart
<1>5. QED
  BY <1>1, <1>2, <1>3, <1>4

-----------------------------------------------------------------------------
(* The segments of one hearing cover all the speech of the window.           *)

\* A set of naturals has a least element.  The library's induction over the naturals takes
\* an operator; that the order is well founded takes none.
LEMMA LeastElement ==
  ASSUME NEW T \in SUBSET Nat, T # {}
  PROVE  \E x \in T : \A y \in T : x <= y
<1>1. PICK x \in T : \A y \in T : <<y, x>> \notin OpToRel(<, Nat)
  BY NatLessThanWellFounded, WFMin
<1>2. \A y \in T : ~(y < x)
  BY <1>1 DEF OpToRel
<1>3. QED
  BY <1>2

\* A bounded one has a greatest.
LEMMA GreatestElement ==
  ASSUME NEW n \in Nat, NEW T \in SUBSET (0 .. n), T # {}
  PROVE  \E x \in T : \A y \in T : y <= x
<1> DEFINE U == {n - x : x \in T}
<1>1. U \in SUBSET Nat /\ U # {}
  <2>1. \A x \in T : x \in 0 .. n
    OBVIOUS
  <2>2. \A x \in T : n - x \in Nat
    BY <2>1
  <2>3. QED
    BY <2>2
<1>2. PICK z \in U : \A y \in U : z <= y
  <2> HIDE DEF U
  <2>1. QED
    BY <1>1, LeastElement
<1>3. PICK x \in T : z = n - x
  OBVIOUS
<1>4. ASSUME NEW y \in T
      PROVE  y <= x
  <2>1. n - y \in U
    OBVIOUS
  <2>2. n - x <= n - y
    BY <1>2, <1>3, <2>1
  <2>3. QED
    BY <2>2
<1>5. QED
  BY <1>4

\* Every unit of speech of the window is in a segment: the run of speech around it, as far
\* as the next break on either side.
LEMMA SpeechIsHeard ==
  ASSUME NEW a \in Nat, NEW b \in Nat, NEW breaks,
         NEW u \in voiced, u \in Nat, a <= u, u < b
  PROVE  \E i \in Heard(a, b, breaks) : i.start <= u /\ u < i.end
<1> DEFINE Before == {s \in a .. u : /\ s .. u \subseteq voiced
                                     /\ (s + 1 .. u) \cap breaks = {}}
           After  == {e \in u + 1 .. b : /\ u .. e - 1 \subseteq voiced
                                         /\ (u + 1 .. e - 1) \cap breaks = {}}
<1>1. u \in Before
  OBVIOUS
<1>2. PICK s \in Before : \A y \in Before : s <= y
  <2>1. Before \in SUBSET Nat
    OBVIOUS
  <2> HIDE DEF Before
  <2>2. QED
    BY <1>1, <2>1, LeastElement
<1>3. s = a \/ s - 1 \notin voiced \/ s \in breaks
  <2>1. SUFFICES ASSUME s # a, s - 1 \in voiced, s \notin breaks
                 PROVE  FALSE
    OBVIOUS
  <2>2. s - 1 \in a .. u
    BY <2>1
  <2>3. s - 1 .. u \subseteq voiced
    BY <2>1
  <2>4. (s - 1 + 1 .. u) \cap breaks = {}
    BY <2>1
  <2>5. s - 1 \in Before
    BY <2>2, <2>3, <2>4
  <2>6. QED
    BY <1>2, <2>5
<1>4. u + 1 \in After
  OBVIOUS
<1>5. PICK e \in After : \A y \in After : y <= e
  <2>1. After \in SUBSET (0 .. b)
    OBVIOUS
  <2> HIDE DEF After
  <2>2. QED
    BY <1>4, <2>1, GreatestElement
<1>6. e = b \/ e \notin voiced \/ e \in breaks
  <2>1. SUFFICES ASSUME e # b, e \in voiced, e \notin breaks
                 PROVE  FALSE
    OBVIOUS
  <2>2. e + 1 \in u + 1 .. b
    BY <2>1
  <2>3. u .. e + 1 - 1 \subseteq voiced
    BY <2>1
  <2>4. (u + 1 .. e + 1 - 1) \cap breaks = {}
    BY <2>1
  <2>5. e + 1 \in After
    BY <2>2, <2>3, <2>4
  <2>6. QED
    BY <1>5, <2>5
<1>7. s .. e - 1 \subseteq voiced
  OBVIOUS
<1>8. (s + 1 .. e - 1) \cap breaks = {}
  OBVIOUS
<1>9. s \in a .. b /\ e \in a .. b /\ s < e /\ s <= u /\ u < e
  OBVIOUS
<1> DEFINE i == [start |-> s, end |-> e]
<1>10. i \in [start : a .. b, end : a .. b] /\ i.start = s /\ i.end = e
  BY <1>9
<1>11. i \in Heard(a, b, breaks)
  <2> HIDE DEF i, Before, After
  <2>1. QED
    BY <1>3, <1>6, <1>7, <1>8, <1>9, <1>10 DEF Heard
<1>12. QED
  BY <1>9, <1>10, <1>11

-----------------------------------------------------------------------------
(* What a pass does.                                                         *)

LEMMA WindowFacts ==
  ASSUME TypeOK
  PROVE  /\ WindowStart \in Nat /\ WindowStart <= cursor /\ cursor <= WindowStart + Overlap
         /\ WindowEnd \in Nat /\ WindowEnd <= captured
         /\ Pending > 0 => cursor < WindowEnd
  BY TranscriberAssumption
     DEF TypeOK, WindowStart, WindowEnd, Rewind, Pending, Larger, Smaller, Units

\* What Emit adds to the transcript.
Emitted(new) == {[start |-> i.start, end |-> i.end, after |-> emittedUntil] : i \in new}

\* A pass that was decoded emits segments of one hearing, each mostly new, covers the
\* transcript to their ends, and moves the cursor to there or further.
LEMMA DecodeEffect ==
  ASSUME TypeOK, EmittedIsBehind, PassIsAhead, PassDecodes
  PROVE  \E breaks \in SUBSET (pass.start + 1 .. pass.end - 1) :
         \E new \in SUBSET Heard(pass.start, pass.end, breaks) :
           /\ \A i \in new : i.start + i.end > 2 * emittedUntil
           /\ transcript' = transcript \cup Emitted(new)
           /\ \A i \in new : i.end <= emittedUntil'
           /\ emittedUntil' \in Nat
           /\ emittedUntil <= emittedUntil' /\ emittedUntil' <= cursor'
           /\ cursor' \in Nat
           /\ cursor <= cursor' /\ cursor' <= pass.end
<1>1. PICK spoken \in Hearings(pass.start, pass.end) :
        LET blind == pass.final \/ Full(spoken)
            ready == IF blind THEN spoken ELSE Committable(spoken)
            new   == Accepted(ready)
        IN  /\ Emit(new)
            /\ \/ blind /\ cursor' = pass.end /\ blindCut' = TRUE
               \/ ~blind /\ new # {} /\ cursor' = Resume /\ blindCut' = FALSE
               \/ ~blind /\ new = {} /\ ready = spoken /\ cursor' = pass.end
                  /\ blindCut' = TRUE
               \/ ~blind /\ new = {} /\ ready # spoken /\ UNCHANGED <<cursor, blindCut>>
  BY DEF PassDecodes
<1> DEFINE ready == IF pass.final \/ Full(spoken) THEN spoken ELSE Committable(spoken)
           new   == Accepted(ready)
<1>2. PICK breaks \in SUBSET (pass.start + 1 .. pass.end - 1) :
        spoken = Heard(pass.start, pass.end, breaks)
  BY DEF Hearings
<1>3. /\ new \in SUBSET spoken
      /\ \A i \in new : i.start + i.end > 2 * emittedUntil
  BY DEF Accepted, Committable
<1>4. /\ pass.start \in Nat /\ pass.end \in Nat /\ cursor \in Nat /\ emittedUntil \in Nat
      /\ emittedUntil <= cursor /\ cursor < pass.end
  BY TranscriberAssumption
     DEF PassDecodes, TypeOK, Pass, Units, EmittedIsBehind, PassIsAhead
<1>5. \A i \in new : /\ i.start \in Nat /\ i.end \in Nat /\ i.start < i.end
                     /\ i.end <= pass.end
  BY <1>2, <1>3, <1>4, HeardSpans
<1>6. Emit(new)
  BY <1>1
<1>7. /\ transcript' = transcript \cup Emitted(new)
      /\ \/ new = {} /\ emittedUntil' = emittedUntil
         \/ \E last \in new : (\A i \in new : i.end <= last.end) /\ emittedUntil' = last.end
  BY <1>6 DEF Emit, Emitted
<1>8. /\ \A i \in new : i.end <= emittedUntil'
      /\ emittedUntil' \in Nat
      /\ emittedUntil <= emittedUntil' /\ emittedUntil' <= pass.end
  BY <1>3, <1>4, <1>5, <1>7
<1>9. \/ cursor' = pass.end
      \/ cursor' = Resume
      \/ new = {} /\ cursor' = cursor
  BY <1>1
<1>10. /\ emittedUntil' <= cursor' /\ cursor' \in Nat
       /\ cursor <= cursor' /\ cursor' <= pass.end
  <2>1. CASE cursor' = pass.end
    BY <2>1, <1>4, <1>8
  <2>2. CASE cursor' = Resume
    BY <2>2, <1>4, <1>8 DEF Resume, Smaller, Larger
  <2>3. CASE new = {} /\ cursor' = cursor
    <3>1. emittedUntil' = emittedUntil
      BY <2>3, <1>7
    <3>2. QED
      BY <2>3, <3>1, <1>4
  <2>4. QED
    BY <1>9, <2>1, <2>2, <2>3
<1>11. QED
  BY <1>2, <1>3, <1>7, <1>8, <1>10

-----------------------------------------------------------------------------
(* Every conjunct of IInv is preserved by every step.                        *)

LEMMA TypeOKStep ==
  ASSUME TypeOK, EmittedIsBehind, PassIsAhead, [Next]_vars
  PROVE  TypeOK'
<1>1. ASSUME NEW speech \in BOOLEAN, Append(speech)
      PROVE  TypeOK'
  BY <1>1, TranscriberAssumption
     DEF Append, TypeOK, Units, threadVars, cursorVars, historyVars
<1>2. ASSUME Close \/ Stop \/ WorkerEnds
      PROVE  TypeOK'
  BY <1>2 DEF Close, Stop, WorkerEnds, TypeOK, At, audioVars, threadVars, cursorVars,
     historyVars
<1>3. ASSUME PassBegins
      PROVE  TypeOK'
  <2>1. pass' \in Pass
    BY <1>3, WindowFacts, TranscriberAssumption DEF PassBegins, Pass, Units, TypeOK
  <2>2. passes' \in 0 .. MaxDrain
    BY <1>3, TranscriberAssumption DEF PassBegins, Smaller, TypeOK
  <2>3. at' = "reading" /\ UNCHANGED <<audioVars, stopped, cursorVars, historyVars>>
    BY <1>3 DEF PassBegins
  <2>4. QED
    BY <2>1, <2>2, <2>3 DEF TypeOK, At, audioVars, cursorVars, historyVars
<1>4. ASSUME PassFails
      PROVE  TypeOK'
  <2>1. pass.start .. pass.end - 1 \in SUBSET Units
    BY TranscriberAssumption DEF TypeOK, Pass, Units
  <2>2. pass.end \in 0 .. captured /\ pass.end \in Units
    BY <1>4, TranscriberAssumption DEF PassFails, PassIsAhead, TypeOK, Pass, Units
  <2>3. NoPass \in Pass
    BY TranscriberAssumption DEF NoPass, Pass, Units
  <2>4. QED
    BY <1>4, <2>1, <2>2, <2>3 DEF PassFails, TypeOK, At, audioVars
<1>5. ASSUME PassDecodes
      PROVE  TypeOK'
  <2>1. PICK breaks \in SUBSET (pass.start + 1 .. pass.end - 1) :
        \E new \in SUBSET Heard(pass.start, pass.end, breaks) :
          /\ transcript' = transcript \cup Emitted(new)
          /\ emittedUntil' \in Nat /\ cursor' \in Nat
          /\ emittedUntil' <= cursor' /\ cursor' <= pass.end
    BY <1>5, DecodeEffect
  <2>2. PICK new \in SUBSET Heard(pass.start, pass.end, breaks) :
          /\ transcript' = transcript \cup Emitted(new)
          /\ emittedUntil' \in Nat /\ cursor' \in Nat
          /\ emittedUntil' <= cursor' /\ cursor' <= pass.end
    BY <2>1
  <2>3. pass.start \in Units /\ pass.end \in Units /\ pass.end <= captured
        /\ captured \in Units
    BY <1>5 DEF PassDecodes, PassIsAhead, TypeOK, Pass
  <2>4. \A i \in new : i.start \in Units /\ i.end \in Units
    BY <2>3, HeardSpans, TranscriberAssumption DEF Units
  <2>5. Emitted(new) \in SUBSET Segment
    BY <2>4 DEF Emitted, Segment, TypeOK
  <2>6. cursor' \in 0 .. captured /\ emittedUntil' \in Units
    BY <2>2, <2>3, TranscriberAssumption DEF Units
  <2>7. blindCut' \in BOOLEAN /\ cuts' \in SUBSET Units
    BY <1>5, <2>3 DEF PassDecodes, TypeOK
  <2>8. NoPass \in Pass
    BY TranscriberAssumption DEF NoPass, Pass, Units
  <2>9. at' = "waiting" /\ pass' = NoPass /\ UNCHANGED <<audioVars, stopped, passes, lost>>
    BY <1>5 DEF PassDecodes
  <2>10. QED
    BY <2>2, <2>5, <2>6, <2>7, <2>8, <2>9 DEF TypeOK, At, audioVars
<1>6. CASE UNCHANGED vars
  BY <1>6 DEF vars, TypeOK, audioVars, threadVars, cursorVars, historyVars
<1>7. QED
  BY <1>1, <1>2, <1>3, <1>4, <1>5, <1>6 DEF Next, WorkerStep

\* Only a pass moves the cursor or what was emitted, and only forward.
LEMMA ForwardStep ==
  ASSUME TypeOK, EmittedIsBehind, PassIsAhead, [Next]_vars
  PROVE  cursor' >= cursor /\ emittedUntil' >= emittedUntil /\ EmittedIsBehind'
<1>1. cursor \in Nat /\ emittedUntil \in Nat /\ emittedUntil <= cursor
  BY TranscriberAssumption DEF TypeOK, Units, EmittedIsBehind
<1>2. ASSUME UNCHANGED <<cursor, emittedUntil>>
      PROVE  cursor' >= cursor /\ emittedUntil' >= emittedUntil /\ EmittedIsBehind'
  BY <1>1, <1>2 DEF EmittedIsBehind
<1>3. ASSUME NEW speech \in BOOLEAN, Append(speech)
      PROVE  UNCHANGED <<cursor, emittedUntil>>
  BY <1>3 DEF Append, cursorVars
<1>4. ASSUME Close \/ Stop \/ PassBegins \/ WorkerEnds \/ UNCHANGED vars
      PROVE  UNCHANGED <<cursor, emittedUntil>>
  BY <1>4 DEF Close, Stop, PassBegins, WorkerEnds, vars, cursorVars
<1>5. ASSUME PassFails
      PROVE  cursor' >= cursor /\ emittedUntil' >= emittedUntil /\ EmittedIsBehind'
  <2>1. cursor' = pass.end /\ cursor < pass.end /\ emittedUntil' = emittedUntil
        /\ pass.end \in Nat
    BY <1>5, TranscriberAssumption DEF PassFails, PassIsAhead, TypeOK, Pass, Units
  <2>2. QED
    BY <1>1, <2>1 DEF EmittedIsBehind
<1>6. ASSUME PassDecodes
      PROVE  cursor' >= cursor /\ emittedUntil' >= emittedUntil /\ EmittedIsBehind'
  BY <1>1, <1>6, DecodeEffect DEF EmittedIsBehind
<1>7. QED
  BY <1>2, <1>3, <1>4, <1>5, <1>6 DEF Next, WorkerStep

\* While a pass runs nobody moves the cursor, and capture only adds.
LEMMA PassIsAheadStep ==
  ASSUME TypeOK, PassIsAhead, [Next]_vars
  PROVE  PassIsAhead'
<1>1. ASSUME NEW speech \in BOOLEAN,
             Append(speech) \/ Close \/ Stop \/ UNCHANGED vars
      PROVE  PassIsAhead'
  <2>1. UNCHANGED <<at, pass, cursor, blindCut>>
    BY <1>1 DEF Append, Close, Stop, vars, threadVars, cursorVars
  <2>2. captured' = captured \/ captured' = captured + 1
    BY <1>1 DEF Append, Close, Stop, vars, audioVars
  <2>3. WindowStart' = WindowStart
    BY <2>1 DEF WindowStart, Rewind
  <2>4. captured \in Nat /\ pass.end \in Nat
    BY TranscriberAssumption DEF TypeOK, Units, Pass
  <2>5. QED
    BY <2>1, <2>2, <2>3, <2>4 DEF PassIsAhead
<1>2. ASSUME PassBegins
      PROVE  PassIsAhead'
  <2>1. WindowStart' = WindowStart /\ captured' = captured /\ cursor' = cursor
    BY <1>2 DEF PassBegins, WindowStart, Rewind, audioVars, cursorVars
  <2>2. pass'.start = WindowStart /\ pass'.end = WindowEnd /\ Pending > 0
    BY <1>2 DEF PassBegins
  <2>3. QED
    BY <2>1, <2>2, WindowFacts DEF PassIsAhead
<1>3. ASSUME PassFails \/ PassDecodes \/ WorkerEnds
      PROVE  PassIsAhead'
  BY <1>3 DEF PassFails, PassDecodes, WorkerEnds, PassIsAhead
<1>4. QED
  BY <1>1, <1>2, <1>3 DEF Next, WorkerStep

\* Only a decoded pass adds segments.
LEMMA TranscriptUnchanged ==
  ASSUME [Next]_vars, ~PassDecodes
  PROVE  UNCHANGED <<transcript, emittedUntil>>
<1>1. ASSUME NEW speech \in BOOLEAN, Append(speech)
      PROVE  UNCHANGED <<transcript, emittedUntil>>
  BY <1>1 DEF Append, cursorVars
<1>2. ASSUME Close \/ Stop \/ PassBegins \/ PassFails \/ WorkerEnds \/ UNCHANGED vars
      PROVE  UNCHANGED <<transcript, emittedUntil>>
  BY <1>2 DEF Close, Stop, PassBegins, PassFails, WorkerEnds, vars, cursorVars
<1>3. QED
  BY <1>1, <1>2 DEF Next, WorkerStep

\* New segments repeat no older one, and not one another.
LEMMA SegmentsStep ==
  ASSUME IInv, [Next]_vars
  PROVE  SegmentsAreCovered' /\ RepeatsAreShort'
<1> USE DEF IInv
<1>1. CASE ~PassDecodes
  <2>1. UNCHANGED <<transcript, emittedUntil>>
    BY <1>1, TranscriptUnchanged
  <2>2. QED
    BY <2>1 DEF SegmentsAreCovered, RepeatsAreShort, Shared
<1>2. CASE PassDecodes
  <2>1. PICK breaks \in SUBSET (pass.start + 1 .. pass.end - 1) :
        \E new \in SUBSET Heard(pass.start, pass.end, breaks) :
          /\ \A i \in new : i.start + i.end > 2 * emittedUntil
          /\ transcript' = transcript \cup Emitted(new)
          /\ \A i \in new : i.end <= emittedUntil'
          /\ emittedUntil' \in Nat
          /\ emittedUntil <= emittedUntil'
    BY <1>2, DecodeEffect
  <2>2. PICK new \in SUBSET Heard(pass.start, pass.end, breaks) :
          /\ \A i \in new : i.start + i.end > 2 * emittedUntil
          /\ transcript' = transcript \cup Emitted(new)
          /\ \A i \in new : i.end <= emittedUntil'
          /\ emittedUntil' \in Nat
          /\ emittedUntil <= emittedUntil'
    BY <2>1
  <2>3. /\ pass.start \in Nat /\ pass.end \in Nat /\ emittedUntil \in Nat
        /\ emittedUntil <= pass.start + Overlap
    BY <1>2, WindowFacts, TranscriberAssumption
       DEF PassDecodes, PassIsAhead, EmittedIsBehind, TypeOK, Pass, Units
  <2>4. \A i \in new : /\ i.start \in Nat /\ i.end \in Nat /\ i.start < i.end
                       /\ pass.start <= i.start
    BY <2>3, HeardSpans
  <2>5. \A i \in transcript : /\ i.start \in Nat /\ i.end \in Nat /\ i.start < i.end
                              /\ i.end <= emittedUntil
    BY TranscriberAssumption DEF SegmentsAreCovered, TypeOK, Segment, Units
  \* What a new segment is, without the hearing it is from.
  <2>6. ASSUME NEW x \in Emitted(new)
        PROVE  /\ x.start \in Nat /\ x.end \in Nat /\ x.start < x.end
               /\ x.end <= emittedUntil'
               /\ emittedUntil <= x.start + Overlap
               /\ x.start + x.end > 2 * emittedUntil
    <3>1. PICK i \in new : x = [start |-> i.start, end |-> i.end, after |-> emittedUntil]
      BY DEF Emitted
    <3>2. QED
      BY <3>1, <2>2, <2>3, <2>4, TranscriberAssumption
  <2>7. SegmentsAreCovered'
    BY <2>2, <2>3, <2>5, <2>6 DEF SegmentsAreCovered
  <2>8. ASSUME NEW x \in Emitted(new), NEW y \in transcript
        PROVE  /\ Shared(x, y) <= Overlap /\ Shared(y, x) <= Overlap
               /\ 2 * Shared(x, y) < Larger(x.end - x.start, y.end - y.start)
               /\ 2 * Shared(y, x) < Larger(y.end - y.start, x.end - x.start)
    BY <2>3, <2>5, <2>6, TranscriberAssumption DEF Shared, Smaller, Larger
  <2>9. ASSUME NEW x \in Emitted(new), NEW y \in Emitted(new), x # y
        PROVE  /\ Shared(x, y) <= Overlap
               /\ 2 * Shared(x, y) < Larger(x.end - x.start, y.end - y.start)
    <3>1. PICK i \in new : x = [start |-> i.start, end |-> i.end, after |-> emittedUntil]
      BY DEF Emitted
    <3>2. PICK j \in new : y = [start |-> j.start, end |-> j.end, after |-> emittedUntil]
      BY DEF Emitted
    <3>3. i # j
      BY <3>1, <3>2, <2>9
    <3>4. i.end <= j.start \/ j.end <= i.start
      BY <3>3, <2>3, HeardApart
    <3>5. QED
      BY <3>1, <3>2, <3>4, <2>4, TranscriberAssumption DEF Shared, Smaller, Larger
  <2>10. RepeatsAreShort'
    <3>1. SUFFICES ASSUME NEW x \in transcript', NEW y \in transcript', x # y
                   PROVE  /\ Shared(x, y) <= Overlap
                          /\ 2 * Shared(x, y) < Larger(x.end - x.start, y.end - y.start)
      BY DEF RepeatsAreShort, Shared
    <3>2. CASE x \in transcript /\ y \in transcript
      BY <3>1, <3>2 DEF RepeatsAreShort
    <3>3. QED
      BY <3>1, <3>2, <2>2, <2>8, <2>9
  <2>11. QED
    BY <2>7, <2>10
<1>3. QED
  BY <1>1, <1>2

-----------------------------------------------------------------------------
(* Nothing is lost but at cuts.                                              *)

\* A pass that emits everything it heard, or nothing was held back, and consumes more than
\* one that resumes where the emitted speech ends.
LEMMA DecodeCases ==
  ASSUME TypeOK, EmittedIsBehind, PassIsAhead, PassDecodes
  PROVE  \E breaks \in SUBSET (pass.start + 1 .. pass.end - 1) :
         LET spoken == Heard(pass.start, pass.end, breaks)
         IN  \E ready \in SUBSET spoken :
             LET new == Accepted(ready)
             IN  /\ transcript' = transcript \cup Emitted(new)
                 /\ new = {} => emittedUntil' = emittedUntil
                 /\ new # {} => \E last \in new : emittedUntil' = last.end
                 /\ \/ /\ ready = spoken
                       /\ cursor' = pass.end
                       /\ \/ pass.end \in cuts'
                          \/ new = {}
                    \/ /\ \A i \in ready, j \in spoken \ ready : i.end < j.end
                       /\ cursor' = Resume /\ blindCut' = FALSE
                       /\ new # {}
                    \/ new = {} /\ UNCHANGED <<cursor, blindCut>>
                 /\ cuts \subseteq cuts'
<1>1. PICK spoken \in Hearings(pass.start, pass.end) :
        LET blind == pass.final \/ Full(spoken)
            ready == IF blind THEN spoken ELSE Committable(spoken)
            new   == Accepted(ready)
        IN  /\ Emit(new)
            /\ \/ blind /\ cursor' = pass.end /\ blindCut' = TRUE
               \/ ~blind /\ new # {} /\ cursor' = Resume /\ blindCut' = FALSE
               \/ ~blind /\ new = {} /\ ready = spoken /\ cursor' = pass.end
                  /\ blindCut' = TRUE
               \/ ~blind /\ new = {} /\ ready # spoken /\ UNCHANGED <<cursor, blindCut>>
            /\ cuts' = IF blind /\ spoken # {} THEN cuts \cup {pass.end} ELSE cuts
  BY DEF PassDecodes
<1>2. PICK breaks \in SUBSET (pass.start + 1 .. pass.end - 1) :
        spoken = Heard(pass.start, pass.end, breaks)
  BY DEF Hearings
<1> DEFINE blind == pass.final \/ Full(spoken)
           ready == IF blind THEN spoken ELSE Committable(spoken)
           new   == Accepted(ready)
<1>3. ready \in SUBSET spoken /\ new \in SUBSET ready
  BY DEF Committable, Accepted
<1>4. Emit(new)
  BY <1>1
<1>5. /\ transcript' = transcript \cup Emitted(new)
      /\ new = {} => emittedUntil' = emittedUntil
      /\ new # {} => \E last \in new : emittedUntil' = last.end
  BY <1>4 DEF Emit, Emitted
<1>6. cuts \subseteq cuts'
  BY <1>1
<1>7. CASE blind
  <2>1. ready = spoken /\ cursor' = pass.end /\ (pass.end \in cuts' \/ spoken = {})
    BY <1>1, <1>7
  <2>2. spoken = {} => new = {}
    BY <1>3
  <2>3. QED
    BY <1>2, <1>3, <1>5, <1>6, <2>1, <2>2
<1>8. CASE ~blind
  <2>1. ready = Committable(spoken)
    BY <1>8
  <2>2. \A i \in ready, j \in spoken \ ready : i.end < j.end
    <3>1. ASSUME NEW i \in ready, NEW j \in spoken \ ready
          PROVE  i.end < j.end
      <4>1. i.end <= pass.end - Holdback /\ ~(j.end <= pass.end - Holdback)
        BY <1>8, <2>1 DEF Committable
      <4>2. pass.end \in Int /\ Holdback \in Int /\ pass.start \in Nat
        BY TranscriberAssumption DEF TypeOK, Pass, Units
      <4>3. i.end \in Int /\ j.end \in Int
        BY <1>2, <1>3, <4>2, HeardSpans, TranscriberAssumption DEF TypeOK, Pass, Units
      <4>4. QED
        BY <4>1, <4>2, <4>3
    <3>2. QED
      BY <3>1
  <2>3. \/ new # {} /\ cursor' = Resume /\ blindCut' = FALSE
        \/ new = {} /\ ready = spoken /\ cursor' = pass.end
        \/ new = {} /\ UNCHANGED <<cursor, blindCut>>
    BY <1>1, <1>8
  <2>4. QED
    BY <1>2, <1>3, <1>5, <1>6, <2>2, <2>3
<1>9. QED
  BY <1>7, <1>8

\* A segment that is dropped for being mostly old reaches over the cursor only where a pass
\* began to read before it, and not a rewind beyond the cut that made it.
LEMMA DroppedIsAtCut ==
  ASSUME TypeOK, EmittedIsBehind, PassIsAhead, RewindIsAtCut, at = "reading",
         NEW breaks, NEW i \in Heard(pass.start, pass.end, breaks),
         i.start + i.end <= 2 * emittedUntil, cursor < i.end
  PROVE  \E c \in cuts : emittedUntil <= c /\ c <= cursor /\ i.end <= c + Overlap
<1>1. /\ pass.start \in Nat /\ pass.end \in Nat
      /\ cursor \in Nat /\ emittedUntil \in Nat /\ emittedUntil <= cursor
      /\ Overlap \in Nat
  BY TranscriberAssumption DEF TypeOK, Pass, Units, EmittedIsBehind
<1>2. /\ i.start \in pass.start .. pass.end /\ i.end \in pass.start .. pass.end
  BY <1>1, HeardSpans
<1>3. i.start < cursor
  BY <1>1, <1>2
<1>4. cursor - 1 \in i.start .. i.end - 1
  BY <1>1, <1>2, <1>3
<1>5. cursor - 1 \in voiced
  BY <1>4 DEF Heard
<1>6. pass.start < cursor
  BY <1>1, <1>2, <1>3
<1>7. blindCut /\ cursor <= pass.start + Overlap
  BY <1>1, <1>6 DEF PassIsAhead, WindowStart, Rewind, Larger
<1>8. PICK c \in cuts : emittedUntil <= c /\ c <= cursor
  BY <1>5, <1>7 DEF RewindIsAtCut
<1>9. c \in Nat
  BY TranscriberAssumption DEF TypeOK, Units
<1>10. i.end <= c + Overlap
  BY <1>1, <1>2, <1>7, <1>8, <1>9
<1>11. QED
  BY <1>8, <1>10

\* A decoded pass: what it consumes is emitted, or dropped next to a cut.
LEMMA DecodeLosesAtCuts ==
  ASSUME TypeOK, EmittedIsBehind, PassIsAhead, RewindIsAtCut, LossIsAtCuts, PassDecodes
  PROVE  LossIsAtCuts' /\ RewindIsAtCut'
<1>1. PICK breaks \in SUBSET (pass.start + 1 .. pass.end - 1) :
      LET spoken == Heard(pass.start, pass.end, breaks)
      IN  \E ready \in SUBSET spoken :
          LET new == Accepted(ready)
          IN  /\ transcript' = transcript \cup Emitted(new)
              /\ new = {} => emittedUntil' = emittedUntil
              /\ new # {} => \E last \in new : emittedUntil' = last.end
              /\ \/ /\ ready = spoken
                    /\ cursor' = pass.end
                    /\ \/ pass.end \in cuts'
                       \/ new = {}
                 \/ /\ \A i \in ready, j \in spoken \ ready : i.end < j.end
                    /\ cursor' = Resume /\ blindCut' = FALSE
                    /\ new # {}
                 \/ new = {} /\ UNCHANGED <<cursor, blindCut>>
              /\ cuts \subseteq cuts'
  BY DecodeCases
<1> DEFINE spoken == Heard(pass.start, pass.end, breaks)
<1>2. PICK ready \in SUBSET spoken :
          LET new == Accepted(ready)
          IN  /\ transcript' = transcript \cup Emitted(new)
              /\ new = {} => emittedUntil' = emittedUntil
              /\ new # {} => \E last \in new : emittedUntil' = last.end
              /\ \/ /\ ready = spoken
                    /\ cursor' = pass.end
                    /\ \/ pass.end \in cuts'
                       \/ new = {}
                 \/ /\ \A i \in ready, j \in spoken \ ready : i.end < j.end
                    /\ cursor' = Resume /\ blindCut' = FALSE
                    /\ new # {}
                 \/ new = {} /\ UNCHANGED <<cursor, blindCut>>
              /\ cuts \subseteq cuts'
  BY <1>1
<1>3. PICK new : new = Accepted(ready)
  OBVIOUS
<1>4. /\ at = "reading" /\ pass.start \in Nat /\ pass.end \in Nat
      /\ cursor \in Nat /\ emittedUntil \in Nat /\ emittedUntil <= cursor
      /\ Overlap \in Nat /\ pass.start <= cursor /\ cursor < pass.end
      /\ voiced \in SUBSET Nat
  BY WindowFacts, TranscriberAssumption
     DEF PassDecodes, TypeOK, Pass, Units, EmittedIsBehind, PassIsAhead
<1>5. new \in SUBSET ready /\ \A i \in ready \ new : ~(i.start + i.end > 2 * emittedUntil)
  BY <1>3 DEF Accepted
<1>6. \A i \in spoken : /\ i.start \in Nat /\ i.end \in Nat /\ i.start < i.end
                        /\ i.end <= pass.end
  BY <1>4, HeardSpans
<1>7. UNCHANGED voiced /\ lost' = lost
  BY DEF PassDecodes, audioVars
<1> HIDE DEF spoken
<1>8. ASSUME NEW i \in ready \ new, cursor < i.end
      PROVE  \E c \in cuts : emittedUntil <= c /\ c <= cursor /\ i.end <= c + Overlap
  <2>1. i.start + i.end <= 2 * emittedUntil
    BY <1>4, <1>5, <1>6
  <2>2. i \in Heard(pass.start, pass.end, breaks)
    BY <1>2 DEF spoken
  <2>3. QED
    BY <1>4, <1>8, <2>1, <2>2, DroppedIsAtCut
<1>9. ASSUME NEW u \in voiced, cursor <= u, u < pass.end
      PROVE  \E i \in spoken : i.start <= u /\ u < i.end
  BY <1>4, <1>9, SpeechIsHeard DEF spoken
<1>10. ASSUME NEW u \in voiced, cursor <= u, u < cursor'
       PROVE  \E i \in ready : i.start <= u /\ u < i.end
  <2>1. u \in Nat
    BY <1>4
  <2>2. CASE ready = spoken /\ cursor' = pass.end
    BY <1>9, <1>10, <2>2
  <2>3. CASE new = {} /\ cursor' = cursor
    BY <1>4, <1>10, <2>1, <2>3
  <2>4. CASE /\ \A i \in ready, j \in spoken \ ready : i.end < j.end
             /\ cursor' = Resume /\ new # {}
    <3>1. PICK last \in new : emittedUntil' = last.end
      BY <1>2, <1>3, <2>4
    <3>2. last \in spoken /\ last \in ready /\ last.end \in Nat
      BY <1>2, <1>5, <1>6
    <3>3. u < last.end /\ u < pass.end
      BY <1>4, <1>10, <2>1, <2>4, <3>1, <3>2 DEF Resume, Smaller, Larger
    <3>4. PICK j \in spoken : j.start <= u /\ u < j.end
      BY <1>9, <1>10, <3>3
    <3>5. ASSUME j \notin ready
          PROVE  FALSE
      <4>1. last.end < j.end /\ last # j
        BY <2>4, <3>2, <3>5
      <4>2. last.end <= j.start \/ j.end <= last.start
        BY <1>4, <3>2, <4>1, HeardApart DEF spoken
      <4>3. QED
        BY <1>6, <2>1, <3>2, <3>3, <3>4, <4>1, <4>2
    <3>6. QED
      BY <3>4, <3>5
  <2>5. QED
    BY <1>2, <1>3, <2>2, <2>3, <2>4
<1>11. LossIsAtCuts'
  <2>1. SUFFICES ASSUME NEW u \in voiced, u < cursor'
                 PROVE  \/ \E i \in transcript' : i.start <= u /\ u < i.end
                        \/ u \in lost
                        \/ \E c \in cuts' : c <= u /\ u < c + Overlap
    BY <1>7 DEF LossIsAtCuts
  <2>2. CASE u < cursor
    <3>1. transcript \subseteq transcript' /\ cuts \subseteq cuts'
      BY <1>2
    <3>2. QED
      BY <2>2, <3>1 DEF LossIsAtCuts
  <2>3. CASE ~(u < cursor)
    <3>1. u \in Nat /\ cursor <= u
      BY <1>4, <2>3
    <3>2. PICK i \in ready : i.start <= u /\ u < i.end
      BY <1>10, <2>1, <3>1
    <3>3. CASE i \in new
      <4>1. [start |-> i.start, end |-> i.end, after |-> emittedUntil] \in Emitted(new)
        BY <3>3 DEF Emitted
      <4>2. [start |-> i.start, end |-> i.end, after |-> emittedUntil] \in transcript'
        BY <1>2, <1>3, <4>1
      <4>3. QED
        BY <3>2, <4>2
    <3>4. CASE i \notin new
      <4>1. i.end \in Nat /\ cursor < i.end
        BY <1>2, <1>4, <1>6, <3>1, <3>2
      <4>2. PICK c \in cuts : c <= cursor /\ i.end <= c + Overlap
        BY <1>8, <3>4, <4>1
      <4>3. c \in Nat /\ c \in cuts'
        BY <1>2, TranscriberAssumption DEF TypeOK, Units
      <4>4. c <= u /\ u < c + Overlap
        BY <1>4, <3>1, <3>2, <4>1, <4>2, <4>3
      <4>5. QED
        BY <4>3, <4>4
    <3>5. QED
      BY <3>3, <3>4
  <2>4. QED
    BY <2>2, <2>3
<1>12. RewindIsAtCut'
  <2>1. SUFFICES ASSUME blindCut', cursor' - 1 \in voiced
                 PROVE  \E c \in cuts' : emittedUntil' <= c /\ c <= cursor'
    BY <1>7 DEF RewindIsAtCut
  <2>2. CASE new = {} /\ UNCHANGED <<cursor, blindCut>>
    BY <1>2, <1>3, <2>1, <2>2 DEF RewindIsAtCut
  <2>3. CASE ready = spoken /\ cursor' = pass.end /\ pass.end \in cuts'
    <3>1. emittedUntil' <= cursor'
      BY DecodeEffect
    <3>2. QED
      BY <1>4, <2>3, <3>1
  <2>4. CASE ready = spoken /\ cursor' = pass.end /\ new = {}
    <3>1. PICK i \in spoken : i.start <= pass.end - 1 /\ pass.end - 1 < i.end
      BY <1>4, <1>9, <2>1, <2>4
    <3>2. i \in ready \ new /\ cursor < i.end
      BY <1>4, <1>6, <2>4, <3>1
    <3>3. PICK c \in cuts : emittedUntil <= c /\ c <= cursor
      BY <1>8, <3>2
    <3>4. c \in cuts' /\ c \in Nat
      BY <1>2, TranscriberAssumption DEF TypeOK, Units
    <3>5. emittedUntil' = emittedUntil
      BY <1>2, <1>3, <2>4
    <3>6. QED
      BY <1>4, <2>4, <3>3, <3>4, <3>5
  <2>5. QED
    BY <1>2, <1>3, <2>1, <2>2, <2>3, <2>4
<1>13. QED
  BY <1>11, <1>12

\* Capture adds behind nobody's back, and a pass that fails records what it skips.
LEMMA LossStep ==
  ASSUME TypeOK, EmittedIsBehind, PassIsAhead, RewindIsAtCut, LossIsAtCuts, [Next]_vars
  PROVE  LossIsAtCuts' /\ RewindIsAtCut'
<1>1. cursor \in 0 .. captured /\ captured \in Nat /\ voiced \in SUBSET Nat
  BY TranscriberAssumption DEF TypeOK, Units
<1>2. ASSUME NEW speech \in BOOLEAN, Append(speech)
      PROVE  LossIsAtCuts' /\ RewindIsAtCut'
  <2>1. UNCHANGED <<cursor, blindCut, emittedUntil, transcript, lost, cuts>>
    BY <1>2 DEF Append, cursorVars, historyVars
  <2>2. voiced' \in {voiced, voiced \cup {captured}}
    BY <1>2 DEF Append
  <2>3. LossIsAtCuts'
    BY <1>1, <2>1, <2>2 DEF LossIsAtCuts
  <2>4. cursor' - 1 \in voiced' => cursor - 1 \in voiced
    BY <1>1, <2>1, <2>2
  <2>5. QED
    BY <2>1, <2>3, <2>4 DEF RewindIsAtCut
<1>3. CASE Close \/ Stop \/ PassBegins \/ WorkerEnds \/ UNCHANGED vars
  <2>1. UNCHANGED <<voiced, cursor, blindCut, emittedUntil, transcript, lost, cuts>>
    BY <1>3 DEF Close, Stop, PassBegins, WorkerEnds, vars, audioVars, cursorVars,
       historyVars
  <2>2. QED
    BY <2>1 DEF LossIsAtCuts, RewindIsAtCut
<1>4. CASE PassFails
  <2>1. /\ UNCHANGED <<voiced, transcript, emittedUntil>> /\ cursor' = pass.end
        /\ lost' = lost \cup (pass.start .. pass.end - 1)
        /\ cuts' = cuts \cup {pass.end}
    BY <1>4 DEF PassFails, audioVars
  <2>2. /\ pass.start \in Nat /\ pass.end \in Nat /\ pass.start <= cursor
        /\ cursor < pass.end /\ emittedUntil \in Nat /\ emittedUntil <= cursor
    BY <1>4, WindowFacts, TranscriberAssumption
       DEF PassFails, TypeOK, Pass, Units, EmittedIsBehind, PassIsAhead
  <2>3. LossIsAtCuts'
    <3>1. SUFFICES ASSUME NEW u \in voiced, u < pass.end, ~(u \in lost')
                   PROVE  \/ \E i \in transcript : i.start <= u /\ u < i.end
                          \/ \E c \in cuts' : c <= u /\ u < c + Overlap
      BY <2>1 DEF LossIsAtCuts
    <3>2. u < cursor /\ u \notin lost
      BY <1>1, <2>1, <2>2, <3>1
    <3>3. QED
      BY <2>1, <3>2 DEF LossIsAtCuts
  <2>4. RewindIsAtCut'
    <3>1. pass.end \in cuts'
      BY <2>1
    <3>2. emittedUntil' = emittedUntil /\ emittedUntil <= pass.end /\ pass.end <= cursor'
      BY <1>1, <2>1, <2>2
    <3>3. emittedUntil' <= pass.end
      BY <3>2
    <3>4. QED
      BY <3>1, <3>2, <3>3 DEF RewindIsAtCut
  <2>5. QED
    BY <2>3, <2>4
<1>5. CASE PassDecodes
  BY <1>5, DecodeLosesAtCuts
<1>6. QED
  BY <1>2, <1>3, <1>4, <1>5 DEF Next, WorkerStep

-----------------------------------------------------------------------------
(* The theorems.                                                             *)

LEMMA InitInvariant == Init => IInv
<1> SUFFICES ASSUME Init
             PROVE  IInv
  OBVIOUS
<1>1. NoPass \in Pass
  BY TranscriberAssumption DEF NoPass, Pass, Units
<1>2. TypeOK
  <2>1. 0 \in Units /\ 0 \in 0 .. MaxDrain /\ 0 \in 0 .. 0
    BY TranscriberAssumption DEF Units
  <2>2. captured \in Units /\ cursor \in 0 .. captured /\ passes \in 0 .. MaxDrain
        /\ emittedUntil \in Units
    BY <2>1 DEF Init
  <2>3. pass \in Pass
    BY <1>1 DEF Init
  <2>4. voiced = {} /\ closed = FALSE /\ stopped = FALSE /\ at = "waiting"
        /\ blindCut = FALSE /\ transcript = {} /\ lost = {} /\ cuts = {}
    BY DEF Init
  <2>5. QED
    BY <2>2, <2>3, <2>4 DEF TypeOK, At
<1>3. /\ EmittedIsBehind /\ PassIsAhead /\ SegmentsAreCovered /\ RepeatsAreShort
      /\ RewindIsAtCut /\ LossIsAtCuts
  BY DEF Init, EmittedIsBehind, PassIsAhead, SegmentsAreCovered, RepeatsAreShort,
     RewindIsAtCut, LossIsAtCuts
<1>4. QED
  BY <1>2, <1>3 DEF IInv

LEMMA StepInvariant == IInv /\ [Next]_vars => IInv'
  BY TypeOKStep, ForwardStep, PassIsAheadStep, SegmentsStep, LossStep DEF IInv

THEOREM Invariance == Spec => []IInv
  BY InitInvariant, StepInvariant, PTL DEF Spec

\* All state keeps its type: above all the worker never consumes more than was captured.
THEOREM TypeCorrect == Spec => []TypeOK
<1>1. IInv => TypeOK
  BY DEF IInv
<1>2. QED
  BY <1>1, Invariance, PTL

\* No two segments of a transcript have more audio in common than one rewind, nor half of
\* both: incremental.rs reads again what it emitted only after a blind cut, and drops there
\* what is mostly old.
THEOREM NothingIsEmittedTwice == Spec => []RepeatsAreShort
<1>1. IInv => RepeatsAreShort
  BY DEF IInv
<1>2. QED
  BY <1>1, Invariance, PTL

\* Audio behind the cursor was heard: speech that is in no segment was in the window of a
\* pass that failed, or begins less than one rewind after a place where incremental.rs cut
\* speech blindly or skipped a window.
THEOREM SpeechIsLostOnlyAtCuts == Spec => []LossIsAtCuts
<1>1. IInv => LossIsAtCuts
  BY DEF IInv
<1>2. QED
  BY <1>1, Invariance, PTL

\* The cursor and the covered part of the transcript never go back, whatever the decoder
\* returns and however often it fails.
THEOREM CursorNeverGoesBack == Spec => NeverBack
<1>1. IInv /\ [Next]_vars => [cursor' >= cursor /\ emittedUntil' >= emittedUntil]_vars
  BY ForwardStep DEF IInv
<1>2. QED
  BY <1>1, Invariance, PTL DEF Spec, NeverBack
=============================================================================
