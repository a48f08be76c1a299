-------------------------- MODULE MeetingGenProofs --------------------------
(* The answer key of a made-up meeting says what the meeting says, whatever the     *)
(* people, features, days and ranges are, and however often an item is taken back.    *)
EXTENDS MeetingSummary, WellFoundedInduction, NaturalsInduction, SequenceTheorems, TLAPS

-----------------------------------------------------------------------------
(* The lines that are spoken, in one sequence, say the words of the items: the talk  *)
(* between them says none.                                                             *)
IsSequence(s) == s \in Seq(Range(s))
WordsIn(lines) == UNION Range(lines)

LEMMA SeqIsSequence ==
    ASSUME NEW S, NEW s \in Seq(S)
    PROVE  IsSequence(s) /\ DOMAIN s = 1..Len(s) /\ Range(s) \subseteq S
  <1>1. DOMAIN s = 1..Len(s) /\ Len(s) \in Nat /\ s \in [1..Len(s) -> S]
    OBVIOUS
  <1>2. s \in [1..Len(s) -> Range(s)]
    BY <1>1 DEF Range
  <1>3. s \in Seq(Range(s))
    BY <1>1, <1>2
  <1> QED
    BY <1>1, <1>3 DEF IsSequence, Range

LEMMA RangeOfConcat ==
    ASSUME NEW s, NEW t, IsSequence(s), IsSequence(t)
    PROVE  /\ IsSequence(s \o t)
           /\ Range(s \o t) = Range(s) \cup Range(t)
           /\ Len(s \o t) = Len(s) + Len(t)
           /\ SubSeq(s \o t, 1, Len(s)) = s
  <1> DEFINE S == Range(s) \cup Range(t)
  <1>1. s \in Seq(S) /\ t \in Seq(S)
    BY DEF IsSequence
  <1>2. s \o t \in Seq(S) /\ Len(s \o t) = Len(s) + Len(t)
        /\ DOMAIN (s \o t) = 1..Len(s) + Len(t)
        /\ \A i \in 1..Len(s) + Len(t) : (s \o t)[i] = IF i <= Len(s) THEN s[i] ELSE t[i - Len(s)]
    BY <1>1
  <1>3. Range(s \o t) = S
    <2>1. \A x \in Range(s \o t) : x \in S
      BY <1>2 DEF Range
    <2>2. ASSUME NEW x \in Range(s) PROVE x \in Range(s \o t)
      <3>1. PICK i \in 1..Len(s) : x = s[i]
        BY <1>1 DEF Range
      <3>2. i \in 1..Len(s) + Len(t) /\ (s \o t)[i] = s[i]
        BY <1>1, <1>2, <3>1
      <3> QED
        BY <1>2, <3>1, <3>2 DEF Range
    <2>3. ASSUME NEW x \in Range(t) PROVE x \in Range(s \o t)
      <3>1. PICK i \in 1..Len(t) : x = t[i]
        BY <1>1 DEF Range
      <3>2. i + Len(s) \in 1..Len(s) + Len(t) /\ (s \o t)[i + Len(s)] = t[i]
        <4>1. Len(s) \in Nat /\ Len(t) \in Nat /\ i + Len(s) \in 1..Len(s) + Len(t) /\ ~(i + Len(s) <= Len(s)) /\ (i + Len(s)) - Len(s) = i
          BY <1>1, <3>1
        <4> QED
          BY <1>2, <4>1
      <3> QED
        BY <1>2, <3>1, <3>2 DEF Range
    <2> QED
      BY <2>1, <2>2, <2>3
  <1>4. SubSeq(s \o t, 1, Len(s)) = s
    <2>1. Len(s) \in Nat /\ Len(t) \in Nat
      BY <1>1
    <2>2. SubSeq(s \o t, 1, Len(s)) = [i \in 1..Len(s) |-> (s \o t)[i]]
      BY <1>2, <2>1
    <2>3. s = [i \in 1..Len(s) |-> s[i]]
      BY <1>1
    <2> QED
      BY <1>2, <2>1, <2>2, <2>3
  <1> QED
    BY <1>2, <1>3, <1>4 DEF IsSequence

(* Every natural number that is in a set with zero and the successors of its members. *)
LEMMA NatIsReached ==
    ASSUME NEW P, 0 \in P, \A n \in Nat : n \in P => n + 1 \in P
    PROVE  Nat \subseteq P
  <1> SUFFICES ASSUME ~(Nat \subseteq P) PROVE FALSE
    OBVIOUS
  <1> DEFINE Bad == {n \in Nat : n \notin P}
  <1>1. Bad # {} /\ Bad \subseteq Nat
    OBVIOUS
  <1>3. PICK n \in Bad : \A m \in Bad : ~(m < n)
    <2> HIDE DEF Bad
    <2>1. PICK n \in Bad : \A m \in Bad : <<m, n>> \notin OpToRel(<, Nat)
      BY <1>1, NatLessThanWellFounded, WFMin
    <2>2. \A m \in Bad : ~(m < n)
      BY <1>1, <2>1 DEF OpToRel
    <2> QED
      BY <2>2
  <1>4. n # 0 /\ n \in Nat /\ n - 1 \in Nat
    OBVIOUS
  <1>5. n - 1 \notin Bad
    BY <1>3, <1>4
  <1> QED
    BY <1>4, <1>5

(* FlattenSeq is a function that is defined by its own values: there is one.           *)
LEMMA FlattenStep ==
    ASSUME NEW ss, IsSequence(ss), Len(ss) # 0
    PROVE  \E Flat : /\ FlattenSeq(ss) = Flat[Len(ss)]
                     /\ \A i \in 1..Len(ss) : Flat[i] = IF i = 1 THEN ss[i] ELSE Flat[i - 1] \o ss[i]
  <1> DEFINE
        Flattens(f, n) == f = [i \in 1..n |-> IF i = 1 THEN ss[i] ELSE f[i - 1] \o ss[i]]
        P == {n \in Nat : \E f : Flattens(f, n)}
        Flat == CHOOSE f : Flattens(f, Len(ss))
  <1>1. Len(ss) \in Nat
    BY DEF IsSequence
  <1>2. 0 \in P
    <2> DEFINE f == [i \in 1..0 |-> ss[i]]
    <2>1. Flattens(f, 0)
      OBVIOUS
    <2> QED
      BY <2>1
  <1>3. ASSUME NEW n \in Nat, n \in P PROVE n + 1 \in P
    <2>1. PICK f : Flattens(f, n)
      BY <1>3
    <2> DEFINE g == [i \in 1..n + 1 |-> IF i = 1 THEN ss[i] ELSE f[i - 1] \o ss[i]]
    <2>2. \A i \in 1..n : g[i] = f[i]
      <3>1. \A i \in 1..n : f[i] = IF i = 1 THEN ss[i] ELSE f[i - 1] \o ss[i]
        BY <2>1
      <3>2. \A i \in 1..n : g[i] = IF i = 1 THEN ss[i] ELSE f[i - 1] \o ss[i]
        OBVIOUS
      <3> HIDE DEF g
      <3> QED
        BY <3>1, <3>2
    <2>3. \A i \in 1..n + 1 : i # 1 => i - 1 \in 1..n
      OBVIOUS
    <2>4. g = [i \in 1..n + 1 |-> IF i = 1 THEN ss[i] ELSE g[i - 1] \o ss[i]]
      <3> HIDE DEF Flattens
      <3> SUFFICES ASSUME NEW i \in 1..n + 1
                   PROVE  (IF i = 1 THEN ss[i] ELSE f[i - 1] \o ss[i]) = (IF i = 1 THEN ss[i] ELSE g[i - 1] \o ss[i])
        OBVIOUS
      <3> HIDE DEF g
      <3> QED
        BY <2>2, <2>3
    <2> QED
      <3>1. Flattens(g, n + 1)
        BY <2>4
      <3> HIDE DEF Flattens, g
      <3> QED
        BY <3>1
  <1>4. Len(ss) \in P
    <2> HIDE DEF P
    <2> QED
      BY <1>1, <1>2, <1>3, NatIsReached
  <1>5. Flattens(Flat, Len(ss))
    <2> HIDE DEF Flattens
    <2> QED
      BY <1>4
  <1>6. FlattenSeq(ss) = Flat[Len(ss)]
    BY DEF FlattenSeq
  <1>7. \A i \in 1..Len(ss) : Flat[i] = IF i = 1 THEN ss[i] ELSE Flat[i - 1] \o ss[i]
    <2> HIDE DEF Flat
    <2> QED
      BY <1>5
  <1> HIDE DEF Flat
  <1> QED
    BY <1>6, <1>7

LEMMA FlattenSays ==
    ASSUME NEW ss, IsSequence(ss), Len(ss) # 0,
           \A i \in 1..Len(ss) : IsSequence(ss[i])
    PROVE  /\ IsSequence(FlattenSeq(ss))
           /\ Range(FlattenSeq(ss)) = UNION {Range(ss[i]) : i \in 1..Len(ss)}
  <1>1. PICK Flat : /\ FlattenSeq(ss) = Flat[Len(ss)]
                 /\ \A i \in 1..Len(ss) : Flat[i] = IF i = 1 THEN ss[i] ELSE Flat[i - 1] \o ss[i]
    BY FlattenStep
  <1> DEFINE
        Upto(n) == UNION {Range(ss[i]) : i \in 1..n}
        P == {n \in Nat : n \in 1..Len(ss) => IsSequence(Flat[n]) /\ Range(Flat[n]) = Upto(n)}
  <1>2. Len(ss) \in Nat
    BY DEF IsSequence
  <1>3. 0 \in P
    OBVIOUS
  <1>4. ASSUME NEW n \in Nat, n \in P PROVE n + 1 \in P
    <2>1. \A m, x : x \in Upto(m) <=> \E i \in 1..m : x \in Range(ss[i])
      OBVIOUS
    <2> SUFFICES ASSUME n + 1 \in 1..Len(ss)
                 PROVE  IsSequence(Flat[n + 1]) /\ Range(Flat[n + 1]) = Upto(n + 1)
      OBVIOUS
    <2> HIDE DEF Upto
    <2>2. CASE n = 0
      <3>1. Flat[n + 1] = ss[n + 1] /\ IsSequence(ss[n + 1]) /\ 1..n + 1 = {1} /\ n + 1 = 1
        BY <1>1, <2>2
      <3>2. \A x : x \in Range(Flat[n + 1]) <=> x \in Upto(n + 1)
        BY <2>1, <3>1
      <3> QED
        BY <3>1, <3>2
    <2>3. CASE n # 0
      <3>1. n \in 1..Len(ss) /\ n + 1 # 1 /\ (n + 1) - 1 = n /\ 1..n + 1 = (1..n) \cup {n + 1}
        BY <1>2, <2>3
      <3>2. Flat[n + 1] = Flat[n] \o ss[n + 1] /\ IsSequence(Flat[n]) /\ IsSequence(ss[n + 1])
            /\ Range(Flat[n]) = Upto(n)
        BY <1>1, <1>4, <3>1
      <3>3. IsSequence(Flat[n + 1]) /\ Range(Flat[n + 1]) = Range(Flat[n]) \cup Range(ss[n + 1])
        BY <3>2, RangeOfConcat
      <3>4. \A x : x \in Upto(n + 1) <=> x \in Upto(n) \cup Range(ss[n + 1])
        BY <2>1, <3>1
      <3>5. Upto(n + 1) = Upto(n) \cup Range(ss[n + 1])
        BY <3>4
      <3> QED
        BY <3>2, <3>3, <3>5
    <2> QED
      BY <2>2, <2>3
  <1>5. Len(ss) \in P
    <2> HIDE DEF P
    <2> QED
      BY <1>2, <1>3, <1>4, NatIsReached
  <1> QED
    BY <1>1, <1>2, <1>5

(* What is said is what the lines of the items say.                                      *)
SaidOf(bs) == UNION {WordsIn(b.lines) : b \in Range(bs)}
Speaks(block) == IsSequence(block.lines) /\ Len(block.lines) > 0

LEMMA SpokenSays ==
    ASSUME NEW block, Speaks(block)
    PROVE  IsSequence(Spoken(block)) /\ WordsIn(Spoken(block)) = WordsIn(block.lines)
  <1> DEFINE l == block.lines
             s == <<l[1], {}>>
             t == Tail(l)
  <1>1. l \in Seq(Range(l)) /\ Len(l) \in Nat /\ Len(l) > 0
    BY DEF Speaks, IsSequence
  <1>2. t \in Seq(Range(l)) /\ Len(t) = Len(l) - 1 /\ \A i \in 1..Len(t) : t[i] = l[i + 1]
    <2> HIDE DEF l
    <2> SUFFICES ASSUME NEW S, l \in Seq(S)
                 PROVE  Tail(l) \in Seq(S) /\ Len(Tail(l)) = Len(l) - 1
                        /\ \A i \in 1..Len(l) - 1 : Tail(l)[i] = l[i + 1]
      BY <1>1
    <2> QED
      BY <1>1
  <1>3. IsSequence(s) /\ \A x : x \in Range(s) <=> x \in {l[1], {}}
    <2>1. \A x : x \in Range(s) <=> x \in {l[1], {}}
      BY DEF Range
    <2>2. s \in Seq({l[1], {}})
      OBVIOUS
    <2>3. Range(s) = {l[1], {}}
      BY <2>1
    <2> QED
      BY <2>1, <2>2, <2>3 DEF IsSequence
  <1>4. IsSequence(t) /\ \A x : x \in Range(t) <=> \E i \in 2..Len(l) : x = l[i]
    <2>1. DOMAIN t = 1..Len(l) - 1
      BY <1>2
    <2>2. \A x : x \in Range(t) <=> \E i \in 1..Len(l) - 1 : x = l[i + 1]
      BY <1>2, <2>1 DEF Range
    <2>3. \A x : (\E i \in 1..Len(l) - 1 : x = l[i + 1]) => \E i \in 2..Len(l) : x = l[i]
      BY <1>1
    <2>4. ASSUME NEW i \in 2..Len(l) PROVE i - 1 \in 1..Len(l) - 1 /\ l[(i - 1) + 1] = l[i]
      BY <1>1
    <2>5. \A x : x \in Range(t) <=> \E i \in 2..Len(l) : x = l[i]
      BY <2>2, <2>3, <2>4
    <2>6. IsSequence(t)
      BY <1>2, SeqIsSequence
    <2> QED
      BY <2>5, <2>6
  <1>5. IsSequence(s \o t) /\ Range(s \o t) = Range(s) \cup Range(t)
    <2> HIDE DEF s, t
    <2> QED
      BY <1>3, <1>4, RangeOfConcat
  <1>6. \A x : x \in Range(l) <=> \E i \in 1..Len(l) : x = l[i]
    BY <1>1 DEF Range
  <1>7. \A x : x \in Range(l) \cup {{}} <=> x \in Range(s) \cup Range(t)
    <2>1. \A i \in 1..Len(l) : i = 1 \/ i \in 2..Len(l)
      BY <1>1
    <2>2. 1 \in 1..Len(l) /\ 2..Len(l) \subseteq 1..Len(l)
      BY <1>1
    <2> HIDE DEF s, t, l
    <2> QED
      BY <1>3, <1>4, <1>6, <2>1, <2>2
  <1>8. WordsIn(s \o t) = WordsIn(l)
    <2>1. Range(s \o t) = Range(l) \cup {{}}
      BY <1>5, <1>7
    <2> HIDE DEF s, t, l
    <2> QED
      BY <2>1 DEF WordsIn
  <1> QED
    BY <1>5, <1>8 DEF Spoken

LEMMA LinesSay ==
    ASSUME IsSequence(blocks), \A b \in Range(blocks) : Speaks(b)
    PROVE  Said = SaidOf(blocks)
  <1> DEFINE ss == [i \in DOMAIN blocks |-> Spoken(blocks[i])]
             talk == FlattenSeq(ss)
             edge == << {} >>
  <1>1. DOMAIN blocks = 1..Len(blocks) /\ Len(blocks) \in Nat
    BY DEF IsSequence
  <1>2. \A i \in 1..Len(blocks) : Speaks(blocks[i])
    BY <1>1 DEF Range
  <1>3. \A i \in 1..Len(blocks) : IsSequence(ss[i]) /\ WordsIn(ss[i]) = WordsIn(blocks[i].lines)
    BY <1>1, <1>2, SpokenSays
  <1>4. IsSequence(ss) /\ Len(ss) = Len(blocks)
    BY <1>1 DEF IsSequence, Range
  <1>5. IsSequence(edge) /\ Range(edge) = { {} }
    <2>1. Range(edge) = { {} }
      BY DEF Range
    <2> QED
      BY <2>1 DEF IsSequence
  <1>6. IsSequence(talk) /\ \A x : x \in Range(talk) <=> \E i \in 1..Len(blocks) : x \in Range(ss[i])
    <2> HIDE DEF ss
    <2>1. CASE Len(ss) = 0
      <3>1. talk = << >> /\ Range(talk) = {}
        BY <1>4, <2>1 DEF FlattenSeq, IsSequence, Range
      <3> QED
        BY <1>4, <2>1, <3>1 DEF IsSequence
    <2>2. CASE Len(ss) # 0
      BY <1>3, <1>4, <2>2, FlattenSays
    <2> QED
      BY <2>1, <2>2
  <1>7. \A x : x \in Range(Lines) <=> x = {} \/ x \in Range(talk)
    <2> HIDE DEF talk, edge
    <2>1. IsSequence(edge \o talk) /\ Range(edge \o talk) = Range(edge) \cup Range(talk)
      BY <1>5, <1>6, RangeOfConcat
    <2>2. Range((edge \o talk) \o edge) = Range(edge \o talk) \cup Range(edge)
      BY <1>5, <2>1, RangeOfConcat
    <2>3. Lines = (edge \o talk) \o edge
      BY DEF Lines, talk, edge, ss
    <2> QED
      BY <1>5, <2>1, <2>2, <2>3
  <1>8. \A w : w \in Said <=> \E i \in 1..Len(blocks) : w \in WordsIn(ss[i])
    <2> HIDE DEF talk, ss
    <2>1. \A w : w \in Said <=> \E x \in Range(Lines) : w \in x
      BY DEF Said
    <2>2. \A i, w : w \in WordsIn(ss[i]) <=> \E x \in Range(ss[i]) : w \in x
      BY DEF WordsIn
    <2> QED
      BY <1>6, <1>7, <2>1, <2>2
  <1>9. \A w : w \in SaidOf(blocks) <=> \E i \in 1..Len(blocks) : w \in WordsIn(blocks[i].lines)
    BY <1>1 DEF SaidOf, Range
  <1>10. \A w : w \in Said <=> w \in SaidOf(blocks)
    <2> HIDE DEF ss
    <2> QED
      BY <1>3, <1>8, <1>9
  <1> QED
    BY <1>10

-----------------------------------------------------------------------------
(* What an item plants it says: its numbers and its date are in its lines, and no others, *)
(* and so is every keyword of its facts.                                                    *)
NumbersIn(words) == {w[2] : w \in {x \in words : x[1] = "number"}}
DatesIn(words) == {w[2] : w \in {x \in words : x[1] = "date"}}
DatesOf(item, d) == IF item \in Dateless THEN {} ELSE {d.date}

Says(facts, lines, item, d) ==
    LET said == WordsIn(lines)
    IN  /\ NumbersIn(said) = Range(d.numbers) /\ Range(facts.numbers) = Range(d.numbers)
        /\ DatesIn(said) = DatesOf(item, d)
        /\ \A f \in Planted \ {"numbers"} : \A fact \in Range(facts[f]) : fact.keywords \subseteq said
        /\ \A action \in Range(facts.actions) :
                item \notin Dateless /\ action.due = d.date /\ action.owner = d.owner
WellMade(facts, lines) ==
    /\ IsSequence(lines) /\ Len(lines) > 0
    /\ DOMAIN facts = Planted
    /\ \A f \in Planted : IsSequence(facts[f])
    /\ \A f \in Planted \ {"numbers"} : Len(facts[f]) <= 1
Honest(block, item, d) ==
    WellMade(block.facts, block.lines) /\ Says(block.facts, block.lines, item, d)

LEMMA ItemIs ==
    ASSUME NEW facts, NEW lines, DOMAIN facts \subseteq Planted
    PROVE  /\ Item(facts, lines).lines = lines
           /\ DOMAIN Item(facts, lines).facts = Planted
           /\ \A f \in Planted : Item(facts, lines).facts[f] = IF f \in DOMAIN facts THEN facts[f] ELSE << >>
  BY DEF Item, Nothing, Planted, Repeatable

(* The words of tuples of lines. *)
LEMMA Words4 ==
    ASSUME NEW a, NEW b, NEW c, NEW d
    PROVE  IsSequence(<<a, b, c, d>>) /\ WordsIn(<<a, b, c, d>>) = a \cup b \cup c \cup d
  <1>1. \A x : x \in Range(<<a, b, c, d>>) <=> x \in {a, b, c, d}
    BY DEF Range
  <1>2. Range(<<a, b, c, d>>) = {a, b, c, d}
    BY <1>1
  <1> QED
    BY <1>2 DEF IsSequence, WordsIn

LEMMA Words5 ==
    ASSUME NEW a, NEW b, NEW c, NEW d, NEW e
    PROVE  IsSequence(<<a, b, c, d, e>>) /\ WordsIn(<<a, b, c, d, e>>) = a \cup b \cup c \cup d \cup e
  <1>1. \A x : x \in Range(<<a, b, c, d, e>>) <=> x \in {a, b, c, d, e}
    BY DEF Range
  <1>2. Range(<<a, b, c, d, e>>) = {a, b, c, d, e}
    BY <1>1
  <1> QED
    BY <1>2 DEF IsSequence, WordsIn

LEMMA Words6 ==
    ASSUME NEW a, NEW b, NEW c, NEW d, NEW e, NEW f
    PROVE  /\ IsSequence(<<a, b, c, d, e, f>>)
           /\ WordsIn(<<a, b, c, d, e, f>>) = a \cup b \cup c \cup d \cup e \cup f
  <1>1. \A x : x \in Range(<<a, b, c, d, e, f>>) <=> x \in {a, b, c, d, e, f}
    BY DEF Range
  <1>2. Range(<<a, b, c, d, e, f>>) = {a, b, c, d, e, f}
    BY <1>1
  <1> QED
    BY <1>2 DEF IsSequence, WordsIn

LEMMA Words7 ==
    ASSUME NEW a, NEW b, NEW c, NEW d, NEW e, NEW f, NEW g
    PROVE  /\ IsSequence(<<a, b, c, d, e, f, g>>)
           /\ WordsIn(<<a, b, c, d, e, f, g>>) = a \cup b \cup c \cup d \cup e \cup f \cup g
  <1>1. \A x : x \in Range(<<a, b, c, d, e, f, g>>) <=> x \in {a, b, c, d, e, f, g}
    BY DEF Range
  <1>2. Range(<<a, b, c, d, e, f, g>>) = {a, b, c, d, e, f, g}
    BY <1>1
  <1> QED
    BY <1>2 DEF IsSequence, WordsIn

LEMMA One ==
    ASSUME NEW a
    PROVE  IsSequence(<<a>>) /\ Range(<<a>>) = {a} /\ Len(<<a>>) = 1
  <1>1. Range(<<a>>) = {a}
    BY DEF Range
  <1> QED
    BY <1>1 DEF IsSequence

LEMMA None ==
    IsSequence(<< >>) /\ Range(<< >>) = {} /\ Len(<< >>) = 0
  BY DEF IsSequence, Range

(* What is drawn for an item.                                                                *)
LEMMA DrawnNumbers ==
    ASSUME GenAssumption, NEW item \in ItemNames, NEW d \in Draws(item)
    PROVE  /\ IsSequence(d.numbers) /\ Len(d.numbers) = SaysNumbers[item]
           /\ SaysNumbers[item] = 0 => Range(d.numbers) = {}
           /\ SaysNumbers[item] = 1 => Range(d.numbers) = {d.numbers[1]}
           /\ SaysNumbers[item] = 2 => Range(d.numbers) = {d.numbers[1], d.numbers[2]}
  <1>1. d.numbers \in Numbers(Ranges[item])
    BY DEF Draws
  <1>2. d.numbers \in [DOMAIN Ranges[item] -> UNION Range(Ranges[item])]
    BY <1>1 DEF Numbers
  <1>3. DOMAIN Ranges[item] = 1..SaysNumbers[item] /\ SaysNumbers[item] \in Nat
    BY GenAssumption DEF GenAssumption, SaysNumbers
  <1>4. d.numbers \in Seq(UNION Range(Ranges[item])) /\ Len(d.numbers) = SaysNumbers[item]
    BY <1>2, <1>3
  <1>5. \A x : x \in Range(d.numbers) <=> \E i \in 1..SaysNumbers[item] : x = d.numbers[i]
    BY <1>2, <1>3 DEF Range
  <1>6. 1..0 = {} /\ 1..1 = {1} /\ 1..2 = {1, 2}
    OBVIOUS
  <1>7. IsSequence(d.numbers)
    BY <1>4, SeqIsSequence
  <1>8. SaysNumbers[item] = 0 => Range(d.numbers) = {}
    BY <1>5, <1>6
  <1>9. SaysNumbers[item] = 1 => Range(d.numbers) = {d.numbers[1]}
    BY <1>5, <1>6
  <1>10. SaysNumbers[item] = 2 => Range(d.numbers) = {d.numbers[1], d.numbers[2]}
    BY <1>5, <1>6
  <1> QED
    BY <1>4, <1>7, <1>8, <1>9, <1>10

LEMMA NamesOfItems ==
    ItemNames = {"release", "budget", "metrics", "question", "hiring", "incident", "goal",
                 "vacation", "training", "feedback", "price", "timeline", "sla"}
  <1>1. \A x : x \in Range(Items) <=> x \in {Items.weekly, Items.one_on_one, Items.customer}
    BY DEF Range, Items
  <1>2. ItemNames = Items.weekly \cup Items.one_on_one \cup Items.customer
    BY <1>1 DEF ItemNames
  <1> QED
    BY <1>2 DEF Items

(* What kind of word it is.                                                                  *)
LEMMA WordKinds ==
    /\ \A x : F(x)[1] = "feature" /\ W(x)[1] = "word" /\ T(x)[1] = "date" /\ T(x)[2] = x
    /\ \A n, unit : N(n, unit)[1] = "number" /\ N(n, unit)[2] = n
  BY DEF F, T, W, N

LEMMA NumbersAre ==
    ASSUME NEW words, NEW y
    PROVE  /\ y \in NumbersIn(words) <=> \E w \in words : w[1] = "number" /\ w[2] = y
           /\ y \in DatesIn(words) <=> \E w \in words : w[1] = "date" /\ w[2] = y
  BY DEF NumbersIn, DatesIn

AtMostOne(list, said) ==
    list = << >> \/ \E fact : list = <<fact>> /\ fact.keywords \subseteq said
IsFor(list, item, d) ==
    list = << >> \/ \E action : list = <<action>> /\ item \notin Dateless /\ action.due = d.date /\ action.owner = d.owner

LEMMA HonestWhen ==
    ASSUME NEW block, NEW item, NEW d, NEW said,
           DOMAIN block.facts = Planted,
           IsSequence(block.lines), Len(block.lines) > 0, WordsIn(block.lines) = said,
           \A f \in Planted \ {"numbers"} : AtMostOne(block.facts[f], said),
           IsFor(block.facts.actions, item, d),
           IsSequence(block.facts.numbers), Range(block.facts.numbers) = Range(d.numbers),
           NumbersIn(said) = Range(d.numbers), DatesIn(said) = DatesOf(item, d)
    PROVE  Honest(block, item, d)
  <1>1. ASSUME NEW f \in Planted \ {"numbers"}
        PROVE  /\ IsSequence(block.facts[f]) /\ Len(block.facts[f]) <= 1
               /\ \A fact \in Range(block.facts[f]) : fact.keywords \subseteq said
    <2>1. CASE block.facts[f] = << >>
      BY <2>1, None
    <2>2. CASE \E fact : block.facts[f] = <<fact>> /\ fact.keywords \subseteq said
      BY <2>2, One
    <2> QED
      BY <2>1, <2>2 DEF AtMostOne
  <1>2. \A action \in Range(block.facts.actions) :
            item \notin Dateless /\ action.due = d.date /\ action.owner = d.owner
    <2>1. CASE block.facts.actions = << >>
      BY <2>1, None
    <2>2. CASE \E action : block.facts.actions = <<action>> /\ item \notin Dateless /\ action.due = d.date /\ action.owner = d.owner
      BY <2>2, One
    <2> QED
      BY <2>1, <2>2 DEF IsFor
  <1>3. WellMade(block.facts, block.lines)
    BY <1>1 DEF WellMade
  <1>4. Says(block.facts, block.lines, item, d)
    BY <1>1, <1>2 DEF Says
  <1> QED
    BY <1>3, <1>4 DEF Honest

LEMMA ListsAre ==
    ASSUME NEW said
    PROVE  /\ AtMostOne(<< >>, said)
           /\ \A fact : fact.keywords \subseteq said => AtMostOne(<<fact>>, said)
           /\ \A item, d : IsFor(<< >>, item, d)
           /\ \A item, d, action :
                (item \notin Dateless /\ action.due = d.date /\ action.owner = d.owner) => IsFor(<<action>>, item, d)
  BY DEF AtMostOne, IsFor

LEMMA ReleaseIsHonest ==
    ASSUME GenAssumption, NEW d \in Draws("release")
    PROVE  Honest(Release(d), "release", d)
  <1> DEFINE block == Release(d)
             said == {F(d.feature), N(d.numbers[1], "bugs"), T(d.date), W("checklist")}
  <1>1. IsSequence(block.lines) /\ Len(block.lines) > 0 /\ WordsIn(block.lines) = said
    BY Words6 DEF Release, Item
  <1>2. Range(d.numbers) = {d.numbers[1]} /\ DatesOf("release", d) = {d.date}
    BY NamesOfItems, DrawnNumbers DEF SaysNumbers, Dateless, DatesOf
  <1>3. \A w \in said : \/ w = F(d.feature) \/ w = N(d.numbers[1], "bugs")
                        \/ w = T(d.date) \/ w = W("checklist")
    OBVIOUS
  <1>4. /\ N(d.numbers[1], "bugs") \in said /\ T(d.date) \in said
    OBVIOUS
  <1>5. NumbersIn(said) = Range(d.numbers) /\ DatesIn(said) = DatesOf("release", d)
    <2> HIDE DEF said
    <2>1. \A y : y \in NumbersIn(said) <=> y = d.numbers[1]
      BY <1>3, <1>4, WordKinds, NumbersAre
    <2>2. \A y : y \in DatesIn(said) <=> y = d.date
      BY <1>3, <1>4, WordKinds, NumbersAre
    <2> QED
      BY <1>2, <2>1, <2>2
  <1>6. DOMAIN block.facts = Planted
    BY DEF Release, Item, Nothing, Planted, Repeatable
  <1>7. /\ AtMostOne(block.facts.decisions, said) /\ AtMostOne(block.facts.actions, said)
        /\ AtMostOne(block.facts.open_questions, said) /\ AtMostOne(block.facts.withdrawn, said)
        /\ IsFor(block.facts.actions, "release", d)
    BY ListsAre DEF Release, Item, Nothing, Fact, Action, Dateless
  <1>8. IsSequence(block.facts.numbers) /\ Range(block.facts.numbers) = Range(d.numbers)
    BY <1>2, NamesOfItems, DrawnNumbers, One, None DEF Release, Item, Nothing
  <1> HIDE DEF block, said
  <1>9. \A f \in Planted \ {"numbers"} : AtMostOne(block.facts[f], said)
    BY <1>7 DEF Planted, Repeatable
  <1>10. Honest(block, "release", d)
    BY <1>1, <1>5, <1>6, <1>7, <1>8, <1>9, HonestWhen
  <1> QED
    BY <1>10 DEF block

LEMMA BudgetIsHonest ==
    ASSUME GenAssumption, NEW d \in Draws("budget")
    PROVE  Honest(Budget(d), "budget", d)
  <1> DEFINE block == Budget(d)
             said == {F(d.feature), N(d.numbers[1], "won"), TakenBack, N(d.numbers[2],
                      "won"), W("quote"), T(d.date)}
  <1>1. IsSequence(block.lines) /\ Len(block.lines) > 0 /\ WordsIn(block.lines) = said
    BY Words7 DEF Budget, Item
  <1>2. Range(d.numbers) = {d.numbers[1], d.numbers[2]} /\ DatesOf("budget", d) = {d.date}
    BY NamesOfItems, DrawnNumbers DEF SaysNumbers, Dateless, DatesOf
  <1>3. \A w \in said : \/ w = F(d.feature) \/ w = N(d.numbers[1], "won")
                        \/ w = TakenBack \/ w = N(d.numbers[2], "won") \/ w = W("quote")
                        \/ w = T(d.date)
    OBVIOUS
  <1>4. /\ N(d.numbers[1], "won") \in said /\ N(d.numbers[2], "won") \in said
        /\ T(d.date) \in said
    OBVIOUS
  <1>5. NumbersIn(said) = Range(d.numbers) /\ DatesIn(said) = DatesOf("budget", d)
    <2> HIDE DEF said
    <2>1. \A y : y \in NumbersIn(said) <=> y = d.numbers[1] \/ y = d.numbers[2]
      BY <1>3, <1>4, WordKinds, NumbersAre DEF TakenBack
    <2>2. \A y : y \in DatesIn(said) <=> y = d.date
      BY <1>3, <1>4, WordKinds, NumbersAre DEF TakenBack
    <2> QED
      BY <1>2, <2>1, <2>2
  <1>6. DOMAIN block.facts = Planted
    BY DEF Budget, Item, Nothing, Planted, Repeatable
  <1>7. /\ AtMostOne(block.facts.decisions, said) /\ AtMostOne(block.facts.actions, said)
        /\ AtMostOne(block.facts.open_questions, said) /\ AtMostOne(block.facts.withdrawn, said)
        /\ IsFor(block.facts.actions, "budget", d)
    BY ListsAre DEF Budget, Item, Nothing, Fact, Action, Dateless
  <1>8. IsSequence(block.facts.numbers) /\ Range(block.facts.numbers) = Range(d.numbers)
    BY <1>2, NamesOfItems, DrawnNumbers, One, None DEF Budget, Item, Nothing
  <1> HIDE DEF block, said
  <1>9. \A f \in Planted \ {"numbers"} : AtMostOne(block.facts[f], said)
    BY <1>7 DEF Planted, Repeatable
  <1>10. Honest(block, "budget", d)
    BY <1>1, <1>5, <1>6, <1>7, <1>8, <1>9, HonestWhen
  <1> QED
    BY <1>10 DEF block

LEMMA MetricsIsHonest ==
    ASSUME GenAssumption, NEW d \in Draws("metrics")
    PROVE  Honest(Metrics(d), "metrics", d)
  <1> DEFINE block == Metrics(d)
             said == {F(d.feature), N(d.numbers[1], "percent"), N(d.numbers[2],
                      "percent"), W("keep")}
  <1>1. IsSequence(block.lines) /\ Len(block.lines) > 0 /\ WordsIn(block.lines) = said
    BY Words4 DEF Metrics, Item
  <1>2. Range(d.numbers) = {d.numbers[1], d.numbers[2]} /\ DatesOf("metrics", d) = {}
    BY NamesOfItems, DrawnNumbers DEF SaysNumbers, Dateless, DatesOf
  <1>3. \A w \in said : \/ w = F(d.feature) \/ w = N(d.numbers[1], "percent")
                        \/ w = N(d.numbers[2], "percent") \/ w = W("keep")
    OBVIOUS
  <1>4. /\ N(d.numbers[1], "percent") \in said /\ N(d.numbers[2], "percent") \in said
    OBVIOUS
  <1>5. NumbersIn(said) = Range(d.numbers) /\ DatesIn(said) = DatesOf("metrics", d)
    <2> HIDE DEF said
    <2>1. \A y : y \in NumbersIn(said) <=> y = d.numbers[1] \/ y = d.numbers[2]
      BY <1>3, <1>4, WordKinds, NumbersAre
    <2>2. \A y : y \in DatesIn(said) <=> FALSE
      BY <1>3, <1>4, WordKinds, NumbersAre
    <2> QED
      BY <1>2, <2>1, <2>2
  <1>6. DOMAIN block.facts = Planted
    BY DEF Metrics, Item, Nothing, Planted, Repeatable
  <1>7. /\ AtMostOne(block.facts.decisions, said) /\ AtMostOne(block.facts.actions, said)
        /\ AtMostOne(block.facts.open_questions, said) /\ AtMostOne(block.facts.withdrawn, said)
        /\ IsFor(block.facts.actions, "metrics", d)
    BY ListsAre DEF Metrics, Item, Nothing, Fact, Action, Dateless
  <1>8. IsSequence(block.facts.numbers) /\ Range(block.facts.numbers) = Range(d.numbers)
    BY <1>2, NamesOfItems, DrawnNumbers, One, None DEF Metrics, Item, Nothing
  <1> HIDE DEF block, said
  <1>9. \A f \in Planted \ {"numbers"} : AtMostOne(block.facts[f], said)
    BY <1>7 DEF Planted, Repeatable
  <1>10. Honest(block, "metrics", d)
    BY <1>1, <1>5, <1>6, <1>7, <1>8, <1>9, HonestWhen
  <1> QED
    BY <1>10 DEF block

LEMMA QuestionIsHonest ==
    ASSUME GenAssumption, NEW d \in Draws("question")
    PROVE  Honest(Question(d), "question", d)
  <1> DEFINE block == Question(d)
             said == {F(d.feature), W("retention")}
  <1>1. IsSequence(block.lines) /\ Len(block.lines) > 0 /\ WordsIn(block.lines) = said
    BY Words4 DEF Question, Item
  <1>2. Range(d.numbers) = {} /\ DatesOf("question", d) = {}
    BY NamesOfItems, DrawnNumbers DEF SaysNumbers, Dateless, DatesOf
  <1>3. \A w \in said : \/ w = F(d.feature) \/ w = W("retention")
    OBVIOUS
  <1>4. NumbersIn(said) = Range(d.numbers) /\ DatesIn(said) = DatesOf("question", d)
    <2> HIDE DEF said
    <2>1. \A y : y \in NumbersIn(said) <=> FALSE
      BY <1>3, WordKinds, NumbersAre
    <2>2. \A y : y \in DatesIn(said) <=> FALSE
      BY <1>3, WordKinds, NumbersAre
    <2> QED
      BY <1>2, <2>1, <2>2
  <1>5. DOMAIN block.facts = Planted
    BY DEF Question, Item, Nothing, Planted, Repeatable
  <1>6. /\ AtMostOne(block.facts.decisions, said) /\ AtMostOne(block.facts.actions, said)
        /\ AtMostOne(block.facts.open_questions, said) /\ AtMostOne(block.facts.withdrawn, said)
        /\ IsFor(block.facts.actions, "question", d)
    BY ListsAre DEF Question, Item, Nothing, Fact, Action, Dateless
  <1>7. IsSequence(block.facts.numbers) /\ Range(block.facts.numbers) = Range(d.numbers)
    BY <1>2, NamesOfItems, DrawnNumbers, One, None DEF Question, Item, Nothing
  <1> HIDE DEF block, said
  <1>8. \A f \in Planted \ {"numbers"} : AtMostOne(block.facts[f], said)
    BY <1>6 DEF Planted, Repeatable
  <1>9. Honest(block, "question", d)
    BY <1>1, <1>4, <1>5, <1>6, <1>7, <1>8, HonestWhen
  <1> QED
    BY <1>9 DEF block

LEMMA HiringIsHonest ==
    ASSUME GenAssumption, NEW d \in Draws("hiring")
    PROVE  Honest(Hiring(d), "hiring", d)
  <1> DEFINE block == Hiring(d)
             said == {N(d.numbers[1], "heads"), W("hiring"), W("job_post"), T(d.date)}
  <1>1. IsSequence(block.lines) /\ Len(block.lines) > 0 /\ WordsIn(block.lines) = said
    BY Words6 DEF Hiring, Item
  <1>2. Range(d.numbers) = {d.numbers[1]} /\ DatesOf("hiring", d) = {d.date}
    BY NamesOfItems, DrawnNumbers DEF SaysNumbers, Dateless, DatesOf
  <1>3. \A w \in said : \/ w = N(d.numbers[1], "heads") \/ w = W("hiring")
                        \/ w = W("job_post") \/ w = T(d.date)
    OBVIOUS
  <1>4. /\ N(d.numbers[1], "heads") \in said /\ T(d.date) \in said
    OBVIOUS
  <1>5. NumbersIn(said) = Range(d.numbers) /\ DatesIn(said) = DatesOf("hiring", d)
    <2> HIDE DEF said
    <2>1. \A y : y \in NumbersIn(said) <=> y = d.numbers[1]
      BY <1>3, <1>4, WordKinds, NumbersAre
    <2>2. \A y : y \in DatesIn(said) <=> y = d.date
      BY <1>3, <1>4, WordKinds, NumbersAre
    <2> QED
      BY <1>2, <2>1, <2>2
  <1>6. DOMAIN block.facts = Planted
    BY DEF Hiring, Item, Nothing, Planted, Repeatable
  <1>7. /\ AtMostOne(block.facts.decisions, said) /\ AtMostOne(block.facts.actions, said)
        /\ AtMostOne(block.facts.open_questions, said) /\ AtMostOne(block.facts.withdrawn, said)
        /\ IsFor(block.facts.actions, "hiring", d)
    BY ListsAre DEF Hiring, Item, Nothing, Fact, Action, Dateless
  <1>8. IsSequence(block.facts.numbers) /\ Range(block.facts.numbers) = Range(d.numbers)
    BY <1>2, NamesOfItems, DrawnNumbers, One, None DEF Hiring, Item, Nothing
  <1> HIDE DEF block, said
  <1>9. \A f \in Planted \ {"numbers"} : AtMostOne(block.facts[f], said)
    BY <1>7 DEF Planted, Repeatable
  <1>10. Honest(block, "hiring", d)
    BY <1>1, <1>5, <1>6, <1>7, <1>8, <1>9, HonestWhen
  <1> QED
    BY <1>10 DEF block

LEMMA IncidentIsHonest ==
    ASSUME GenAssumption, NEW d \in Draws("incident")
    PROVE  Honest(Incident(d), "incident", d)
  <1> DEFINE block == Incident(d)
             said == {F(d.feature), N(d.numbers[1], "minutes"), W("alarm"),
                      W("report"), T(d.date)}
  <1>1. IsSequence(block.lines) /\ Len(block.lines) > 0 /\ WordsIn(block.lines) = said
    BY Words6 DEF Incident, Item
  <1>2. Range(d.numbers) = {d.numbers[1]} /\ DatesOf("incident", d) = {d.date}
    BY NamesOfItems, DrawnNumbers DEF SaysNumbers, Dateless, DatesOf
  <1>3. \A w \in said : \/ w = F(d.feature) \/ w = N(d.numbers[1], "minutes")
                        \/ w = W("alarm") \/ w = W("report") \/ w = T(d.date)
    OBVIOUS
  <1>4. /\ N(d.numbers[1], "minutes") \in said /\ T(d.date) \in said
    OBVIOUS
  <1>5. NumbersIn(said) = Range(d.numbers) /\ DatesIn(said) = DatesOf("incident", d)
    <2> HIDE DEF said
    <2>1. \A y : y \in NumbersIn(said) <=> y = d.numbers[1]
      BY <1>3, <1>4, WordKinds, NumbersAre
    <2>2. \A y : y \in DatesIn(said) <=> y = d.date
      BY <1>3, <1>4, WordKinds, NumbersAre
    <2> QED
      BY <1>2, <2>1, <2>2
  <1>6. DOMAIN block.facts = Planted
    BY DEF Incident, Item, Nothing, Planted, Repeatable
  <1>7. /\ AtMostOne(block.facts.decisions, said) /\ AtMostOne(block.facts.actions, said)
        /\ AtMostOne(block.facts.open_questions, said) /\ AtMostOne(block.facts.withdrawn, said)
        /\ IsFor(block.facts.actions, "incident", d)
    BY ListsAre DEF Incident, Item, Nothing, Fact, Action, Dateless
  <1>8. IsSequence(block.facts.numbers) /\ Range(block.facts.numbers) = Range(d.numbers)
    BY <1>2, NamesOfItems, DrawnNumbers, One, None DEF Incident, Item, Nothing
  <1> HIDE DEF block, said
  <1>9. \A f \in Planted \ {"numbers"} : AtMostOne(block.facts[f], said)
    BY <1>7 DEF Planted, Repeatable
  <1>10. Honest(block, "incident", d)
    BY <1>1, <1>5, <1>6, <1>7, <1>8, <1>9, HonestWhen
  <1> QED
    BY <1>10 DEF block

LEMMA GoalIsHonest ==
    ASSUME GenAssumption, NEW d \in Draws("goal")
    PROVE  Honest(Goal(d), "goal", d)
  <1> DEFINE block == Goal(d)
             said == {W("goal"), F(d.feature), W("plan"), T(d.date)}
  <1>1. IsSequence(block.lines) /\ Len(block.lines) > 0 /\ WordsIn(block.lines) = said
    BY Words5 DEF Goal, Item
  <1>2. Range(d.numbers) = {} /\ DatesOf("goal", d) = {d.date}
    BY NamesOfItems, DrawnNumbers DEF SaysNumbers, Dateless, DatesOf
  <1>3. \A w \in said : \/ w = W("goal") \/ w = F(d.feature) \/ w = W("plan")
                        \/ w = T(d.date)
    OBVIOUS
  <1>4. /\ T(d.date) \in said
    OBVIOUS
  <1>5. NumbersIn(said) = Range(d.numbers) /\ DatesIn(said) = DatesOf("goal", d)
    <2> HIDE DEF said
    <2>1. \A y : y \in NumbersIn(said) <=> FALSE
      BY <1>3, <1>4, WordKinds, NumbersAre
    <2>2. \A y : y \in DatesIn(said) <=> y = d.date
      BY <1>3, <1>4, WordKinds, NumbersAre
    <2> QED
      BY <1>2, <2>1, <2>2
  <1>6. DOMAIN block.facts = Planted
    BY DEF Goal, Item, Nothing, Planted, Repeatable
  <1>7. /\ AtMostOne(block.facts.decisions, said) /\ AtMostOne(block.facts.actions, said)
        /\ AtMostOne(block.facts.open_questions, said) /\ AtMostOne(block.facts.withdrawn, said)
        /\ IsFor(block.facts.actions, "goal", d)
    BY ListsAre DEF Goal, Item, Nothing, Fact, Action, Dateless
  <1>8. IsSequence(block.facts.numbers) /\ Range(block.facts.numbers) = Range(d.numbers)
    BY <1>2, NamesOfItems, DrawnNumbers, One, None DEF Goal, Item, Nothing
  <1> HIDE DEF block, said
  <1>9. \A f \in Planted \ {"numbers"} : AtMostOne(block.facts[f], said)
    BY <1>7 DEF Planted, Repeatable
  <1>10. Honest(block, "goal", d)
    BY <1>1, <1>5, <1>6, <1>7, <1>8, <1>9, HonestWhen
  <1> QED
    BY <1>10 DEF block

LEMMA VacationIsHonest ==
    ASSUME GenAssumption, NEW d \in Draws("vacation")
    PROVE  Honest(Vacation(d), "vacation", d)
  <1> DEFINE block == Vacation(d)
             said == {W("vacation"), T(d.date), N(d.numbers[1], "days")}
  <1>1. IsSequence(block.lines) /\ Len(block.lines) > 0 /\ WordsIn(block.lines) = said
    BY Words4 DEF Vacation, Item
  <1>2. Range(d.numbers) = {d.numbers[1]} /\ DatesOf("vacation", d) = {d.date}
    BY NamesOfItems, DrawnNumbers DEF SaysNumbers, Dateless, DatesOf
  <1>3. \A w \in said : \/ w = W("vacation") \/ w = T(d.date)
                        \/ w = N(d.numbers[1], "days")
    OBVIOUS
  <1>4. /\ T(d.date) \in said /\ N(d.numbers[1], "days") \in said
    OBVIOUS
  <1>5. NumbersIn(said) = Range(d.numbers) /\ DatesIn(said) = DatesOf("vacation", d)
    <2> HIDE DEF said
    <2>1. \A y : y \in NumbersIn(said) <=> y = d.numbers[1]
      BY <1>3, <1>4, WordKinds, NumbersAre
    <2>2. \A y : y \in DatesIn(said) <=> y = d.date
      BY <1>3, <1>4, WordKinds, NumbersAre
    <2> QED
      BY <1>2, <2>1, <2>2
  <1>6. DOMAIN block.facts = Planted
    BY DEF Vacation, Item, Nothing, Planted, Repeatable
  <1>7. /\ AtMostOne(block.facts.decisions, said) /\ AtMostOne(block.facts.actions, said)
        /\ AtMostOne(block.facts.open_questions, said) /\ AtMostOne(block.facts.withdrawn, said)
        /\ IsFor(block.facts.actions, "vacation", d)
    BY ListsAre DEF Vacation, Item, Nothing, Fact, Action, Dateless
  <1>8. IsSequence(block.facts.numbers) /\ Range(block.facts.numbers) = Range(d.numbers)
    BY <1>2, NamesOfItems, DrawnNumbers, One, None DEF Vacation, Item, Nothing
  <1> HIDE DEF block, said
  <1>9. \A f \in Planted \ {"numbers"} : AtMostOne(block.facts[f], said)
    BY <1>7 DEF Planted, Repeatable
  <1>10. Honest(block, "vacation", d)
    BY <1>1, <1>5, <1>6, <1>7, <1>8, <1>9, HonestWhen
  <1> QED
    BY <1>10 DEF block

LEMMA TrainingIsHonest ==
    ASSUME GenAssumption, NEW d \in Draws("training")
    PROVE  Honest(Training(d), "training", d)
  <1> DEFINE block == Training(d)
             said == {W("conference"), TakenBack, W("course"), N(d.numbers[1], "won"),
                      W("courses"), T(d.date)}
  <1>1. IsSequence(block.lines) /\ Len(block.lines) > 0 /\ WordsIn(block.lines) = said
    BY Words7 DEF Training, Item
  <1>2. Range(d.numbers) = {d.numbers[1]} /\ DatesOf("training", d) = {d.date}
    BY NamesOfItems, DrawnNumbers DEF SaysNumbers, Dateless, DatesOf
  <1>3. \A w \in said : \/ w = W("conference") \/ w = TakenBack \/ w = W("course")
                        \/ w = N(d.numbers[1], "won") \/ w = W("courses")
                        \/ w = T(d.date)
    OBVIOUS
  <1>4. /\ N(d.numbers[1], "won") \in said /\ T(d.date) \in said
    OBVIOUS
  <1>5. NumbersIn(said) = Range(d.numbers) /\ DatesIn(said) = DatesOf("training", d)
    <2> HIDE DEF said
    <2>1. \A y : y \in NumbersIn(said) <=> y = d.numbers[1]
      BY <1>3, <1>4, WordKinds, NumbersAre DEF TakenBack
    <2>2. \A y : y \in DatesIn(said) <=> y = d.date
      BY <1>3, <1>4, WordKinds, NumbersAre DEF TakenBack
    <2> QED
      BY <1>2, <2>1, <2>2
  <1>6. DOMAIN block.facts = Planted
    BY DEF Training, Item, Nothing, Planted, Repeatable
  <1>7. /\ AtMostOne(block.facts.decisions, said) /\ AtMostOne(block.facts.actions, said)
        /\ AtMostOne(block.facts.open_questions, said) /\ AtMostOne(block.facts.withdrawn, said)
        /\ IsFor(block.facts.actions, "training", d)
    BY ListsAre DEF Training, Item, Nothing, Fact, Action, Dateless
  <1>8. IsSequence(block.facts.numbers) /\ Range(block.facts.numbers) = Range(d.numbers)
    BY <1>2, NamesOfItems, DrawnNumbers, One, None DEF Training, Item, Nothing
  <1> HIDE DEF block, said
  <1>9. \A f \in Planted \ {"numbers"} : AtMostOne(block.facts[f], said)
    BY <1>7 DEF Planted, Repeatable
  <1>10. Honest(block, "training", d)
    BY <1>1, <1>5, <1>6, <1>7, <1>8, <1>9, HonestWhen
  <1> QED
    BY <1>10 DEF block

LEMMA FeedbackIsHonest ==
    ASSUME GenAssumption, NEW d \in Draws("feedback")
    PROVE  Honest(Feedback(d), "feedback", d)
  <1> DEFINE block == Feedback(d)
             said == {W("code_review")}
  <1>1. IsSequence(block.lines) /\ Len(block.lines) > 0 /\ WordsIn(block.lines) = said
    BY Words4 DEF Feedback, Item
  <1>2. Range(d.numbers) = {} /\ DatesOf("feedback", d) = {}
    BY NamesOfItems, DrawnNumbers DEF SaysNumbers, Dateless, DatesOf
  <1>3. \A w \in said : \/ w = W("code_review")
    OBVIOUS
  <1>4. NumbersIn(said) = Range(d.numbers) /\ DatesIn(said) = DatesOf("feedback", d)
    <2> HIDE DEF said
    <2>1. \A y : y \in NumbersIn(said) <=> FALSE
      BY <1>3, WordKinds, NumbersAre
    <2>2. \A y : y \in DatesIn(said) <=> FALSE
      BY <1>3, WordKinds, NumbersAre
    <2> QED
      BY <1>2, <2>1, <2>2
  <1>5. DOMAIN block.facts = Planted
    BY DEF Feedback, Item, Nothing, Planted, Repeatable
  <1>6. /\ AtMostOne(block.facts.decisions, said) /\ AtMostOne(block.facts.actions, said)
        /\ AtMostOne(block.facts.open_questions, said) /\ AtMostOne(block.facts.withdrawn, said)
        /\ IsFor(block.facts.actions, "feedback", d)
    BY ListsAre DEF Feedback, Item, Nothing, Fact, Action, Dateless
  <1>7. IsSequence(block.facts.numbers) /\ Range(block.facts.numbers) = Range(d.numbers)
    BY <1>2, NamesOfItems, DrawnNumbers, One, None DEF Feedback, Item, Nothing
  <1> HIDE DEF block, said
  <1>8. \A f \in Planted \ {"numbers"} : AtMostOne(block.facts[f], said)
    BY <1>6 DEF Planted, Repeatable
  <1>9. Honest(block, "feedback", d)
    BY <1>1, <1>4, <1>5, <1>6, <1>7, <1>8, HonestWhen
  <1> QED
    BY <1>9 DEF block

LEMMA PriceIsHonest ==
    ASSUME GenAssumption, NEW d \in Draws("price")
    PROVE  Honest(Price(d), "price", d)
  <1> DEFINE block == Price(d)
             said == {W("price"), N(d.numbers[1], "each"), TakenBack, N(d.numbers[2],
                      "each")}
  <1>1. IsSequence(block.lines) /\ Len(block.lines) > 0 /\ WordsIn(block.lines) = said
    BY Words4 DEF Price, Item
  <1>2. Range(d.numbers) = {d.numbers[1], d.numbers[2]} /\ DatesOf("price", d) = {}
    BY NamesOfItems, DrawnNumbers DEF SaysNumbers, Dateless, DatesOf
  <1>3. \A w \in said : \/ w = W("price") \/ w = N(d.numbers[1], "each")
                        \/ w = TakenBack \/ w = N(d.numbers[2], "each")
    OBVIOUS
  <1>4. /\ N(d.numbers[1], "each") \in said /\ N(d.numbers[2], "each") \in said
    OBVIOUS
  <1>5. NumbersIn(said) = Range(d.numbers) /\ DatesIn(said) = DatesOf("price", d)
    <2> HIDE DEF said
    <2>1. \A y : y \in NumbersIn(said) <=> y = d.numbers[1] \/ y = d.numbers[2]
      BY <1>3, <1>4, WordKinds, NumbersAre DEF TakenBack
    <2>2. \A y : y \in DatesIn(said) <=> FALSE
      BY <1>3, <1>4, WordKinds, NumbersAre DEF TakenBack
    <2> QED
      BY <1>2, <2>1, <2>2
  <1>6. DOMAIN block.facts = Planted
    BY DEF Price, Item, Nothing, Planted, Repeatable
  <1>7. /\ AtMostOne(block.facts.decisions, said) /\ AtMostOne(block.facts.actions, said)
        /\ AtMostOne(block.facts.open_questions, said) /\ AtMostOne(block.facts.withdrawn, said)
        /\ IsFor(block.facts.actions, "price", d)
    BY ListsAre DEF Price, Item, Nothing, Fact, Action, Dateless
  <1>8. IsSequence(block.facts.numbers) /\ Range(block.facts.numbers) = Range(d.numbers)
    BY <1>2, NamesOfItems, DrawnNumbers, One, None DEF Price, Item, Nothing
  <1> HIDE DEF block, said
  <1>9. \A f \in Planted \ {"numbers"} : AtMostOne(block.facts[f], said)
    BY <1>7 DEF Planted, Repeatable
  <1>10. Honest(block, "price", d)
    BY <1>1, <1>5, <1>6, <1>7, <1>8, <1>9, HonestWhen
  <1> QED
    BY <1>10 DEF block

LEMMA TimelineIsHonest ==
    ASSUME GenAssumption, NEW d \in Draws("timeline")
    PROVE  Honest(Timeline(d), "timeline", d)
  <1> DEFINE block == Timeline(d)
             said == {F(d.feature), W("pilot"), T(d.date), W("accounts")}
  <1>1. IsSequence(block.lines) /\ Len(block.lines) > 0 /\ WordsIn(block.lines) = said
    BY Words5 DEF Timeline, Item
  <1>2. Range(d.numbers) = {} /\ DatesOf("timeline", d) = {d.date}
    BY NamesOfItems, DrawnNumbers DEF SaysNumbers, Dateless, DatesOf
  <1>3. \A w \in said : \/ w = F(d.feature) \/ w = W("pilot") \/ w = T(d.date)
                        \/ w = W("accounts")
    OBVIOUS
  <1>4. /\ T(d.date) \in said
    OBVIOUS
  <1>5. NumbersIn(said) = Range(d.numbers) /\ DatesIn(said) = DatesOf("timeline", d)
    <2> HIDE DEF said
    <2>1. \A y : y \in NumbersIn(said) <=> FALSE
      BY <1>3, <1>4, WordKinds, NumbersAre
    <2>2. \A y : y \in DatesIn(said) <=> y = d.date
      BY <1>3, <1>4, WordKinds, NumbersAre
    <2> QED
      BY <1>2, <2>1, <2>2
  <1>6. DOMAIN block.facts = Planted
    BY DEF Timeline, Item, Nothing, Planted, Repeatable
  <1>7. /\ AtMostOne(block.facts.decisions, said) /\ AtMostOne(block.facts.actions, said)
        /\ AtMostOne(block.facts.open_questions, said) /\ AtMostOne(block.facts.withdrawn, said)
        /\ IsFor(block.facts.actions, "timeline", d)
    BY ListsAre DEF Timeline, Item, Nothing, Fact, Action, Dateless
  <1>8. IsSequence(block.facts.numbers) /\ Range(block.facts.numbers) = Range(d.numbers)
    BY <1>2, NamesOfItems, DrawnNumbers, One, None DEF Timeline, Item, Nothing
  <1> HIDE DEF block, said
  <1>9. \A f \in Planted \ {"numbers"} : AtMostOne(block.facts[f], said)
    BY <1>7 DEF Planted, Repeatable
  <1>10. Honest(block, "timeline", d)
    BY <1>1, <1>5, <1>6, <1>7, <1>8, <1>9, HonestWhen
  <1> QED
    BY <1>10 DEF block

LEMMA SlaIsHonest ==
    ASSUME GenAssumption, NEW d \in Draws("sla")
    PROVE  Honest(Sla(d), "sla", d)
  <1> DEFINE block == Sla(d)
             said == {W("outage"), N(d.numbers[1], "hours"), W("weekend"), W("cost")}
  <1>1. IsSequence(block.lines) /\ Len(block.lines) > 0 /\ WordsIn(block.lines) = said
    BY Words5 DEF Sla, Item
  <1>2. Range(d.numbers) = {d.numbers[1]} /\ DatesOf("sla", d) = {}
    BY NamesOfItems, DrawnNumbers DEF SaysNumbers, Dateless, DatesOf
  <1>3. \A w \in said : \/ w = W("outage") \/ w = N(d.numbers[1], "hours")
                        \/ w = W("weekend") \/ w = W("cost")
    OBVIOUS
  <1>4. /\ N(d.numbers[1], "hours") \in said
    OBVIOUS
  <1>5. NumbersIn(said) = Range(d.numbers) /\ DatesIn(said) = DatesOf("sla", d)
    <2> HIDE DEF said
    <2>1. \A y : y \in NumbersIn(said) <=> y = d.numbers[1]
      BY <1>3, <1>4, WordKinds, NumbersAre
    <2>2. \A y : y \in DatesIn(said) <=> FALSE
      BY <1>3, <1>4, WordKinds, NumbersAre
    <2> QED
      BY <1>2, <2>1, <2>2
  <1>6. DOMAIN block.facts = Planted
    BY DEF Sla, Item, Nothing, Planted, Repeatable
  <1>7. /\ AtMostOne(block.facts.decisions, said) /\ AtMostOne(block.facts.actions, said)
        /\ AtMostOne(block.facts.open_questions, said) /\ AtMostOne(block.facts.withdrawn, said)
        /\ IsFor(block.facts.actions, "sla", d)
    BY ListsAre DEF Sla, Item, Nothing, Fact, Action, Dateless
  <1>8. IsSequence(block.facts.numbers) /\ Range(block.facts.numbers) = Range(d.numbers)
    BY <1>2, NamesOfItems, DrawnNumbers, One, None DEF Sla, Item, Nothing
  <1> HIDE DEF block, said
  <1>9. \A f \in Planted \ {"numbers"} : AtMostOne(block.facts[f], said)
    BY <1>7 DEF Planted, Repeatable
  <1>10. Honest(block, "sla", d)
    BY <1>1, <1>5, <1>6, <1>7, <1>8, <1>9, HonestWhen
  <1> QED
    BY <1>10 DEF block

(* Whatever is drawn, the item is what its lines say.                                       *)
LEMMA BuiltIsHonest ==
    ASSUME GenAssumption, NEW item \in ItemNames, NEW d \in Draws(item)
    PROVE  Honest(Built(item, d), item, d)
  <1>1. CASE item = "release"
    BY <1>1, ReleaseIsHonest DEF Built
  <1>2. CASE item = "budget"
    BY <1>2, BudgetIsHonest DEF Built
  <1>3. CASE item = "metrics"
    BY <1>3, MetricsIsHonest DEF Built
  <1>4. CASE item = "question"
    BY <1>4, QuestionIsHonest DEF Built
  <1>5. CASE item = "hiring"
    BY <1>5, HiringIsHonest DEF Built
  <1>6. CASE item = "incident"
    BY <1>6, IncidentIsHonest DEF Built
  <1>7. CASE item = "goal"
    BY <1>7, GoalIsHonest DEF Built
  <1>8. CASE item = "vacation"
    BY <1>8, VacationIsHonest DEF Built
  <1>9. CASE item = "training"
    BY <1>9, TrainingIsHonest DEF Built
  <1>10. CASE item = "feedback"
    BY <1>10, FeedbackIsHonest DEF Built
  <1>11. CASE item = "price"
    BY <1>11, PriceIsHonest DEF Built
  <1>12. CASE item = "timeline"
    BY <1>12, TimelineIsHonest DEF Built
  <1>13. CASE item = "sla"
    BY <1>13, SlaIsHonest DEF Built
  <1> QED
    BY <1>1, <1>2, <1>3, <1>4, <1>5, <1>6, <1>7, <1>8, <1>9, <1>10, <1>11, <1>12, <1>13, NamesOfItems

-----------------------------------------------------------------------------
(* The invariant: the key, and the drawn values, are those of the blocks.  It holds of     *)
(* the blocks what KeyIsSound says of the lines, and adds that a deadline is a date that    *)
(* was used, for the next one to differ from.                                                *)
Decks == kind \in DOMAIN Items /\ items \subseteq Items[kind] /\ order \subseteq items
Lists ==
    /\ IsSequence(blocks) /\ \A b \in Range(blocks) : Speaks(b)
    /\ key = [f \in Planted |-> key[f]] /\ \A f \in Planted : IsSequence(key[f])
OneDeadlineEach ==
    /\ \A i, j \in DOMAIN key.actions : key.actions[i].due = key.actions[j].due => i = j
    /\ \A action \in Range(key.actions) : action.due \in used_dates
OneShapeEach ==
    \A f \in Repeatable : \A i, j \in DOMAIN key[f] : key[f][i].shape = key[f][j].shape => i = j
ValuesAreSaid ==
    /\ Range(key.numbers) = NumbersIn(SaidOf(blocks)) /\ used_numbers = Range(key.numbers)
    /\ used_dates = DatesIn(SaidOf(blocks))
FactsAreSaid ==
    \A f \in Planted \ {"numbers"} : \A fact \in Range(key[f]) : fact.keywords \subseteq SaidOf(blocks)
OwnersAttend == \A action \in Range(key.actions) : action.owner \in participants \ {lead}
GenInv ==
    /\ Decks /\ Lists /\ OneDeadlineEach /\ OneShapeEach
    /\ ValuesAreSaid /\ FactsAreSaid /\ OwnersAttend

LEMMA InvariantIsEnough ==
    ASSUME GenInv
    PROVE  KeyIsSound
  <1>1. Said = SaidOf(blocks)
    BY LinesSay DEF GenInv, Lists
  <1> QED
    BY <1>1 DEF GenInv, OneDeadlineEach, OneShapeEach, ValuesAreSaid, FactsAreSaid, OwnersAttend,
                KeyIsSound, NumbersIn, DatesIn

LEMMA Begins ==
    ASSUME GenInit
    PROVE  GenInv
  <1>1. Decks
    BY DEF GenInit, Decks
  <1>2. key = [f \in Planted |-> << >>] /\ blocks = << >>
    BY DEF GenInit, Nothing, Planted, Repeatable
  <1>3. SaidOf(blocks) = {} /\ NumbersIn({}) = {} /\ DatesIn({}) = {}
    BY <1>2, None DEF SaidOf, NumbersIn, DatesIn
  <1>4. \A f \in Planted : key[f] = << >>
    BY <1>2
  <1>5. "actions" \in Planted /\ "numbers" \in Planted /\ Repeatable \subseteq Planted
    BY DEF Planted
  <1>6. used_numbers = {} /\ used_dates = {}
    BY DEF GenInit
  <1>7. Lists
    BY <1>2, <1>4, None DEF Lists
  <1>8. OneDeadlineEach /\ OneShapeEach /\ OwnersAttend /\ FactsAreSaid
    BY <1>4, <1>5, None DEF OneDeadlineEach, OneShapeEach, OwnersAttend, FactsAreSaid
  <1>9. ValuesAreSaid
    BY <1>3, <1>4, <1>5, <1>6, None DEF ValuesAreSaid
  <1> QED
    BY <1>1, <1>7, <1>8, <1>9 DEF GenInv

LEMMA AtIndex ==
    ASSUME NEW s, NEW t, IsSequence(s), IsSequence(t), Len(t) <= 1, NEW i \in DOMAIN (s \o t)
    PROVE  \/ i \in DOMAIN s /\ (s \o t)[i] = s[i] /\ s[i] \in Range(s)
           \/ i = Len(s) + 1 /\ (s \o t)[i] = t[1] /\ t[1] \in Range(t)
  <1> DEFINE S == Range(s) \cup Range(t)
  <1>1. s \in Seq(S) /\ t \in Seq(S) /\ Len(s) \in Nat /\ Len(t) \in Nat
        /\ DOMAIN s = 1..Len(s) /\ DOMAIN t = 1..Len(t)
    BY DEF IsSequence
  <1>2. i \in 1..Len(s) + Len(t) /\ (s \o t)[i] = IF i <= Len(s) THEN s[i] ELSE t[i - Len(s)]
    BY <1>1
  <1>3. CASE i <= Len(s)
    BY <1>1, <1>2, <1>3 DEF Range
  <1>4. CASE ~(i <= Len(s))
    <2>1. Len(t) = 1 /\ i = Len(s) + 1 /\ i - Len(s) = 1 /\ 1 \in DOMAIN t
      BY <1>1, <1>2, <1>4
    <2> QED
      BY <1>2, <1>4, <2>1 DEF Range
  <1> QED
    BY <1>3, <1>4

(* One turn of the loop that keeps what it planted.                                           *)
LEMMA Kept ==
    ASSUME GenInv, NEW item \in ItemNames, NEW d \in Draws(item), NEW new, Honest(new, item, d),
           ~Repeats(new.facts),
           key' = Planting(new.facts), blocks' = Append(blocks, new),
           used_dates' = IF item \in Dateless THEN used_dates ELSE used_dates \cup {d.date},
           used_numbers' = used_numbers \cup Range(d.numbers),
           UNCHANGED <<participants, lead>>
    PROVE  /\ Lists' /\ OneDeadlineEach' /\ OneShapeEach'
           /\ ValuesAreSaid' /\ FactsAreSaid' /\ OwnersAttend'
  <1> DEFINE said == WordsIn(new.lines)
  <1>1. /\ \A f \in Planted : IsSequence(new.facts[f]) /\ IsSequence(key[f])
        /\ \A f \in Planted \ {"numbers"} : Len(new.facts[f]) <= 1
        /\ Speaks(new)
    BY DEF Honest, WellMade, GenInv, Lists, Speaks
  <1>2. "actions" \in Planted \ {"numbers"} /\ "numbers" \in Planted /\ Repeatable \subseteq Planted \ {"numbers"}
    BY DEF Planted, Repeatable
  <1>3. \A f \in Planted : key'[f] = key[f] \o new.facts[f]
    BY DEF Planting
  <1>4. \A f \in Planted : IsSequence(key'[f]) /\ Range(key'[f]) = Range(key[f]) \cup Range(new.facts[f])
    BY <1>1, <1>3, RangeOfConcat
  <1>5. IsSequence(blocks') /\ Range(blocks') = Range(blocks) \cup {new}
    <2>1. IsSequence(blocks)
      BY DEF GenInv, Lists
    <2>2. Append(blocks, new) = blocks \o <<new>>
      <3>1. blocks \in Seq(Range(blocks) \cup {new})
        BY <2>1 DEF IsSequence
      <3> QED
        BY <3>1, AppendIsConcat
    <2> QED
      BY <2>1, <2>2, One, RangeOfConcat
  <1>6. Lists'
    <2>1. key' = [f \in Planted |-> key'[f]]
      BY DEF Planting
    <2> QED
      BY <1>1, <1>4, <1>5, <2>1 DEF Lists, GenInv
  <1>7. SaidOf(blocks)' = SaidOf(blocks) \cup said
    <2>1. \A w : w \in SaidOf(blocks)' <=> w \in SaidOf(blocks) \cup said
      BY <1>5 DEF SaidOf
    <2> QED
      BY <2>1
  <1>8. OneDeadlineEach'
    <2> DEFINE t == new.facts.actions
               l == key.actions \o t
    <2>1. key.actions' = l
      BY <1>2, <1>3
    <2>2. \A action \in Range(t) : item \notin Dateless /\ action.due = d.date
      BY DEF Honest, Says
    <2>3. item \notin Dateless => d.date \notin used_dates
      BY DEF Draws
    <2>4. ASSUME NEW i \in DOMAIN l, NEW j \in DOMAIN l, l[i].due = l[j].due PROVE i = j
      <3>1. /\ (i \in DOMAIN key.actions /\ l[i] = key.actions[i] /\ l[i] \in Range(key.actions))
               \/ (i = Len(key.actions) + 1 /\ l[i] \in Range(t))
            /\ (j \in DOMAIN key.actions /\ l[j] = key.actions[j] /\ l[j] \in Range(key.actions))
               \/ (j = Len(key.actions) + 1 /\ l[j] \in Range(t))
        BY <1>1, <1>2, AtIndex
      <3> HIDE DEF t, l
      <3> QED
        BY <2>2, <2>3, <2>4, <3>1 DEF GenInv, OneDeadlineEach
    <2>5. ASSUME NEW action \in Range(l) PROVE action.due \in used_dates'
      <3>1. action \in Range(key.actions) \/ action \in Range(t)
        BY <1>2, <1>4, <2>1
      <3> HIDE DEF t, l
      <3> QED
        BY <2>2, <3>1 DEF GenInv, OneDeadlineEach
    <2> HIDE DEF t, l
    <2> QED
      BY <2>1, <2>4, <2>5 DEF OneDeadlineEach
  <1>9. OneShapeEach'
    <2> SUFFICES ASSUME NEW f \in Repeatable, NEW i \in DOMAIN key'[f], NEW j \in DOMAIN key'[f],
                        key'[f][i].shape = key'[f][j].shape
                 PROVE  i = j
      BY DEF OneShapeEach
    <2> DEFINE l == key[f] \o new.facts[f]
    <2>1. key'[f] = l /\ f \in Planted \ {"numbers"} /\ f \in Planted
      BY <1>2, <1>3
    <2>2. /\ (i \in DOMAIN key[f] /\ l[i] = key[f][i] /\ l[i] \in Range(key[f]))
             \/ (i = Len(key[f]) + 1 /\ l[i] \in Range(new.facts[f]))
          /\ (j \in DOMAIN key[f] /\ l[j] = key[f][j] /\ l[j] \in Range(key[f]))
             \/ (j = Len(key[f]) + 1 /\ l[j] \in Range(new.facts[f]))
      <3>1. i \in DOMAIN l /\ j \in DOMAIN l
        BY <2>1
      <3>2. IsSequence(key[f]) /\ IsSequence(new.facts[f]) /\ Len(new.facts[f]) <= 1
        BY <1>1, <2>1
      <3> QED
        BY <3>1, <3>2, AtIndex
    <2>3. \A x \in Range(new.facts[f]), y \in Range(key[f]) : x.shape # y.shape
      BY DEF Repeats
    <2> HIDE DEF l
    <2> QED
      BY <2>1, <2>2, <2>3 DEF GenInv, OneShapeEach
  <1>10. ValuesAreSaid'
    <2>1. Range(new.facts.numbers) = Range(d.numbers) /\ NumbersIn(said) = Range(d.numbers)
          /\ DatesIn(said) = DatesOf(item, d)
      BY DEF Honest, Says
    <2>2. NumbersIn(SaidOf(blocks) \cup said) = NumbersIn(SaidOf(blocks)) \cup NumbersIn(said)
      BY DEF NumbersIn
    <2>3. DatesIn(SaidOf(blocks) \cup said) = DatesIn(SaidOf(blocks)) \cup DatesIn(said)
      BY DEF DatesIn
    <2>4. Range(key.numbers)' = Range(key.numbers) \cup Range(d.numbers)
      BY <1>2, <1>4, <2>1
    <2>5. used_dates' = used_dates \cup DatesOf(item, d)
      BY DEF DatesOf
    <2>6. Range(key.numbers) = NumbersIn(SaidOf(blocks)) /\ used_numbers = Range(key.numbers)
          /\ used_dates = DatesIn(SaidOf(blocks))
      BY DEF GenInv, ValuesAreSaid
    <2>7. NumbersIn(SaidOf(blocks))' = NumbersIn(SaidOf(blocks) \cup said)
          /\ DatesIn(SaidOf(blocks))' = DatesIn(SaidOf(blocks) \cup said)
      BY <1>7 DEF NumbersIn, DatesIn
    <2> HIDE DEF said
    <2> QED
      BY <2>1, <2>2, <2>3, <2>4, <2>5, <2>6, <2>7 DEF ValuesAreSaid
  <1>11. FactsAreSaid'
    <2> SUFFICES ASSUME NEW f \in Planted \ {"numbers"}, NEW fact \in Range(key'[f])
                 PROVE  fact.keywords \subseteq SaidOf(blocks)'
      BY DEF FactsAreSaid
    <2>1. CASE fact \in Range(key[f])
      BY <1>7, <2>1 DEF GenInv, FactsAreSaid
    <2>2. CASE fact \in Range(new.facts[f])
      BY <1>7, <2>2 DEF Honest, Says
    <2> QED
      BY <1>4, <2>1, <2>2
  <1>12. OwnersAttend'
    <2>1. d.owner \in participants \ {lead}
      BY DEF Draws
    <2>2. \A action \in Range(new.facts.actions) : action.owner = d.owner
      BY DEF Honest, Says
    <2>3. Range(key.actions)' = Range(key.actions) \cup Range(new.facts.actions)
      BY <1>2, <1>4
    <2> QED
      BY <2>1, <2>2, <2>3 DEF GenInv, OwnersAttend
  <1> QED
    BY <1>6, <1>8, <1>9, <1>10, <1>11, <1>12

(* One that takes it back: the lists are cut to what they were.                                *)
LEMMA CutOffIsBack ==
    ASSUME Lists, NEW facts, \A f \in Planted : IsSequence(facts[f])
    PROVE  CutOff(Planting(facts)) = key
  <1>1. ASSUME NEW f \in Planted
        PROVE  SubSeq(Planting(facts)[f], 1, Len(key[f])) = key[f]
    <2>1. Planting(facts)[f] = key[f] \o facts[f]
      BY DEF Planting
    <2> QED
      BY <2>1, RangeOfConcat DEF Lists
  <1>2. CutOff(Planting(facts)) = [f \in Planted |-> key[f]]
    BY <1>1 DEF CutOff
  <1> QED
    BY <1>2 DEF Lists

LEMMA GenStep ==
    ASSUME GenAssumption, GenInv, [Next]_vars
    PROVE  GenInv'
  <1>1. CASE Plants
    <2>1. PICK item \in Round : \E d \in Draws(item) :
             LET new == Built(item, d)
                 again == Repeats(new.facts)
                 out == again /\ misses[item] + 1 >= MaxMisses
             IN  /\ key' = IF again THEN CutOff(Planting(new.facts)) ELSE Planting(new.facts)
                 /\ blocks' = IF again THEN blocks ELSE Append(blocks, new)
                 /\ used_dates' = IF again \/ item \in Dateless THEN used_dates ELSE used_dates \cup {d.date}
                 /\ used_numbers' = IF again THEN used_numbers ELSE used_numbers \cup Range(d.numbers)
                 /\ items' = IF out THEN items \ {item} ELSE items
                 /\ order' = Round \ {item}
      BY <1>1 DEF Plants
    <2>2. PICK d \in Draws(item) :
             LET new == Built(item, d)
                 again == Repeats(new.facts)
                 out == again /\ misses[item] + 1 >= MaxMisses
             IN  /\ key' = IF again THEN CutOff(Planting(new.facts)) ELSE Planting(new.facts)
                 /\ blocks' = IF again THEN blocks ELSE Append(blocks, new)
                 /\ used_dates' = IF again \/ item \in Dateless THEN used_dates ELSE used_dates \cup {d.date}
                 /\ used_numbers' = IF again THEN used_numbers ELSE used_numbers \cup Range(d.numbers)
                 /\ items' = IF out THEN items \ {item} ELSE items
                 /\ order' = Round \ {item}
      BY <2>1
    <2> DEFINE new == Built(item, d)
    <2>3. UNCHANGED <<kind, participants, lead>>
      BY <1>1 DEF Plants
    <2>4. Decks /\ item \in items /\ Round \subseteq items
      BY DEF GenInv, Decks, Round
    <2>5. item \in ItemNames
      BY <2>4 DEF Decks, ItemNames, Range
    <2>6. Honest(new, item, d)
      BY <2>5, BuiltIsHonest
    <2>7. Decks'
      <3> HIDE DEF new
      <3> QED
        BY <2>2, <2>3, <2>4 DEF Decks
    <2>8. CASE Repeats(new.facts)
      <3>1. \A f \in Planted : IsSequence(new.facts[f])
        BY <2>6 DEF Honest, WellMade
      <3>2. key' = key
        BY <2>2, <2>8, <3>1, CutOffIsBack DEF GenInv
      <3>3. UNCHANGED <<key, blocks, used_dates, used_numbers, participants, lead>>
        BY <2>2, <2>3, <2>8, <3>2
      <3> QED
        BY <2>7, <3>3 DEF GenInv, Lists, OneDeadlineEach, OneShapeEach, ValuesAreSaid, FactsAreSaid,
                          OwnersAttend, SaidOf
    <2>9. CASE ~Repeats(new.facts)
      <3>1. /\ key' = Planting(new.facts) /\ blocks' = Append(blocks, new)
            /\ used_dates' = IF item \in Dateless THEN used_dates ELSE used_dates \cup {d.date}
            /\ used_numbers' = used_numbers \cup Range(d.numbers)
        BY <2>2, <2>9
      <3> HIDE DEF new
      <3>2. /\ Lists' /\ OneDeadlineEach' /\ OneShapeEach'
            /\ ValuesAreSaid' /\ FactsAreSaid' /\ OwnersAttend'
        BY <2>3, <2>5, <2>6, <2>9, <3>1, Kept
      <3> QED
        BY <2>7, <3>2 DEF GenInv
    <2> QED
      BY <2>8, <2>9
  <1>2. CASE UNCHANGED generator
    BY <1>2 DEF generator, GenInv, Decks, Lists, OneDeadlineEach, OneShapeEach, ValuesAreSaid,
                FactsAreSaid, OwnersAttend, SaidOf
  <1>3. Plants \/ UNCHANGED generator
    BY DEF Next, vars, Generates, Starts, Refuses, Fails, AnswersWhole, AnswersChunk, Merges,
           AppMerges, Scores, Ended
  <1> QED
    BY <1>1, <1>2, <1>3

(* The key of every meeting is sound (KeyIsSound): deadlines and shapes do not repeat, its    *)
(* numbers are the ones said, every keyword is said, and an item that generate of              *)
(* meeting_gen.py took back left nothing in any list.  Of the constants it is assumed that      *)
(* an item draws as many numbers as its lines say.                                               *)
THEOREM TheKeyIsSound ==
    ASSUME GenAssumption
    PROVE  Spec => []KeyIsSound
  <1>1. Init => GenInv
    BY Begins DEF Init
  <1>2. GenInv /\ [Next]_vars => GenInv'
    BY GenStep
  <1>3. GenInv => KeyIsSound
    BY InvariantIsEnough
  <1> QED
    BY <1>1, <1>2, <1>3, PTL DEF Spec

=============================================================================
