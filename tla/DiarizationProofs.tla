------------------------- MODULE DiarizationProofs -------------------------
(* The pairing of speakers that der.assign returns is the best there is, for every *)
(* matrix of overlaps: the prices of rows and columns show it.  And the labels that  *)
(* diar_chunk.py and diar_pipe.py give a meeting are sound, for every meeting,        *)
(* setting and linkage: each stage of the clustering is shown to be of the one before. *)
(* So are the turns, and the score der.py gives them.                                   *)
EXTENDS Diarization, FiniteSetTheorems, WellFoundedInduction, NaturalsInduction, TLAPS

-----------------------------------------------------------------------------
(* Sums.  SumFunctionOnSet takes the elements one by one, in some order; there is   *)
(* such a function, and what it gives adds up.                                        *)
LEMMA NatIsReached ==
    ASSUME NEW P, 0 \in P, \A n \in Nat : n \in P => n + 1 \in P
    PROVE  Nat \subseteq P
  <1> SUFFICES ASSUME ~(Nat \subseteq P) PROVE FALSE
    OBVIOUS
  <1> DEFINE Bad == {n \in Nat : n \notin P}
  <1>1. Bad # {} /\ Bad \subseteq Nat
    OBVIOUS
  <1>2. PICK n \in Bad : \A m \in Bad : ~(m < n)
    <2> HIDE DEF Bad
    <2>1. PICK n \in Bad : \A m \in Bad : <<m, n>> \notin OpToRel(<, Nat)
      BY <1>1, NatLessThanWellFounded, WFMin
    <2>2. \A m \in Bad : ~(m < n)
      BY <1>1, <2>1 DEF OpToRel
    <2> QED
      BY <2>2
  <1>3. n # 0 /\ n \in Nat /\ n - 1 \in Nat
    OBVIOUS
  <1>4. n - 1 \notin Bad
    BY <1>2, <1>3
  <1> QED
    BY <1>3, <1>4

Pick(S) == CHOOSE x \in S : TRUE
Rest(S) == S \ {Pick(S)}
Adds(it, f, C) == it = [S \in C |-> IF S = {} THEN 0 ELSE f[Pick(S)] + it[Rest(S)]]

(* One element less.                                                                  *)
LEMMA RestIsSmaller ==
    ASSUME NEW S, IsFiniteSet(S), S # {}
    PROVE  /\ Pick(S) \in S /\ Rest(S) \subseteq S /\ IsFiniteSet(Rest(S))
           /\ S = Rest(S) \cup {Pick(S)} /\ Pick(S) \notin Rest(S)
           /\ Cardinality(S) \in Nat /\ Cardinality(S) # 0 /\ Cardinality(Rest(S)) = Cardinality(S) - 1
  <1>1. Pick(S) \in S
    BY DEF Pick
  <1>2. IsFiniteSet(Rest(S)) /\ Cardinality(Rest(S)) = Cardinality(S) - 1
    BY <1>1, FS_RemoveElement DEF Rest
  <1>3. Cardinality(S) \in Nat /\ Cardinality(S) # 0
    BY FS_CardinalityType, FS_EmptySet
  <1> QED
    BY <1>1, <1>2, <1>3 DEF Rest

(* The function that the fold defines exists on all subsets of a finite set. *)
LEMMA SumExists ==
    ASSUME NEW f, NEW S, IsFiniteSet(S)
    PROVE  \E it : Adds(it, f, SUBSET S)
  <1> DEFINE C(n) == {T \in SUBSET S : Cardinality(T) <= n}
             P == {n \in Nat : \E it : Adds(it, f, C(n))}
  <1>1. \A T \in SUBSET S : IsFiniteSet(T) /\ Cardinality(T) \in Nat /\ Cardinality(T) <= Cardinality(S)
    BY FS_Subset, FS_CardinalityType
  <1>2. 0 \in P
    <2> DEFINE it == [T \in C(0) |-> 0]
    <2>1. \A T \in C(0) : T = {}
      BY <1>1, FS_EmptySet
    <2>2. Adds(it, f, C(0))
      BY <2>1 DEF Adds
    <2> QED
      BY <2>2
  <1>3. ASSUME NEW n \in Nat, n \in P PROVE n + 1 \in P
    <2>1. PICK it : Adds(it, f, C(n))
      BY <1>3
    <2> DEFINE more == [T \in C(n + 1) |-> IF T = {} THEN 0 ELSE f[Pick(T)] + it[Rest(T)]]
    <2>2. \A T \in C(n) : T \in C(n + 1) /\ it[T] = more[T]
      <3>1. \A T \in C(n) : T \in C(n + 1)
        BY <1>1
      <3>2. \A T \in C(n) : it[T] = IF T = {} THEN 0 ELSE f[Pick(T)] + it[Rest(T)]
        BY <2>1 DEF Adds
      <3> QED
        BY <3>1, <3>2
    <2>3. \A T \in C(n + 1) : T # {} => Rest(T) \in C(n)
      BY <1>1, RestIsSmaller
    <2>4. Adds(more, f, C(n + 1))
      <3>1. \A T \in C(n + 1) : (IF T = {} THEN 0 ELSE f[Pick(T)] + it[Rest(T)])
                                  = (IF T = {} THEN 0 ELSE f[Pick(T)] + more[Rest(T)])
        <4> HIDE DEF C, more
        <4> QED
          BY <2>2, <2>3
      <3> HIDE DEF C
      <3> QED
        BY <3>1 DEF Adds
    <2> HIDE DEF more, C
    <2> QED
      BY <2>4
  <1>4. Cardinality(S) \in P
    <2>1. Cardinality(S) \in Nat
      BY FS_CardinalityType
    <2> HIDE DEF P
    <2> QED
      BY <1>2, <1>3, <2>1, NatIsReached
  <1>5. C(Cardinality(S)) = SUBSET S
    BY <1>1
  <1> HIDE DEF C
  <1> QED
    BY <1>4, <1>5

(* The sum is the value of that function. *)
LEMMA SumIs ==
    ASSUME NEW f, NEW S, IsFiniteSet(S)
    PROVE  \E it : Adds(it, f, SUBSET S) /\ SumFunctionOnSet(f, S) = it[S]
  <1> DEFINE it == CHOOSE g : Adds(g, f, SUBSET S)
  <1>1. Adds(it, f, SUBSET S)
    BY SumExists
  <1>2. SumFunctionOnSet(f, S) = it[S]
    BY DEF SumFunctionOnSet, FoldFunctionOnSet, MapThenFoldSet, Adds, Pick, Rest
  <1> QED
    BY <1>1, <1>2

(* A set of subsets that has each one whose smaller ones it has, has all.               *)
LEMMA BySize ==
    ASSUME NEW S, IsFiniteSet(S), NEW P,
           \A T \in SUBSET S :
              (\A R \in SUBSET S : Cardinality(R) < Cardinality(T) => R \in P) => T \in P
    PROVE  SUBSET S \subseteq P
  <1> DEFINE Q == {n \in Nat : \A T \in SUBSET S : Cardinality(T) < n => T \in P}
  <1>1. \A T \in SUBSET S : Cardinality(T) \in Nat
    BY FS_Subset, FS_CardinalityType
  <1>2. 0 \in Q
    BY <1>1
  <1>3. ASSUME NEW n \in Nat, n \in Q PROVE n + 1 \in Q
    <2> SUFFICES ASSUME NEW T \in SUBSET S, Cardinality(T) < n + 1 PROVE T \in P
      OBVIOUS
    <2>1. \A R \in SUBSET S : Cardinality(R) < Cardinality(T) => Cardinality(R) < n
      BY <1>1
    <2>2. \A R \in SUBSET S : Cardinality(R) < Cardinality(T) => R \in P
      BY <1>3, <2>1
    <2> QED
      BY <2>2
  <1>4. Nat \subseteq Q
    <2> HIDE DEF Q
    <2> QED
      BY <1>2, <1>3, NatIsReached
  <1>5. ASSUME NEW T \in SUBSET S PROVE T \in P
    <2>1. Cardinality(T) + 1 \in Q /\ Cardinality(T) < Cardinality(T) + 1
      BY <1>1, <1>4
    <2> QED
      BY <2>1
  <1> QED
    BY <1>5

(* The sum over a set does not depend on the larger set it was found in. *)
LEMMA SumsAgree ==
    ASSUME NEW f, NEW S, NEW T, NEW it, NEW that, IsFiniteSet(S), T \in SUBSET S,
           Adds(it, f, SUBSET S), Adds(that, f, SUBSET T)
    PROVE  it[T] = that[T]
  <1> DEFINE P == {R \in SUBSET T : it[R] = that[R]}
  <1>1. IsFiniteSet(T)
    BY FS_Subset
  <1>2. ASSUME NEW R \in SUBSET T, \A Q \in SUBSET T : Cardinality(Q) < Cardinality(R) => Q \in P
        PROVE  R \in P
    <2>1. it[R] = IF R = {} THEN 0 ELSE f[Pick(R)] + it[Rest(R)]
      BY DEF Adds
    <2>2. that[R] = IF R = {} THEN 0 ELSE f[Pick(R)] + that[Rest(R)]
      BY DEF Adds
    <2>3. R # {} => it[Rest(R)] = that[Rest(R)]
      <3> SUFFICES ASSUME R # {} PROVE Rest(R) \in P
        OBVIOUS
      <3>1. IsFiniteSet(R)
        BY <1>1, FS_Subset
      <3>2. Rest(R) \in SUBSET T /\ Cardinality(Rest(R)) < Cardinality(R)
        BY <3>1, RestIsSmaller
      <3> QED
        BY <1>2, <3>2
    <2> QED
      BY <2>1, <2>2, <2>3
  <1>3. SUBSET T \subseteq P
    <2> HIDE DEF P
    <2> QED
      BY <1>1, <1>2, BySize
  <1> QED
    BY <1>3

(* The sum taken apart at the element the fold picks. *)
LEMMA SumStep ==
    ASSUME NEW f, NEW S, IsFiniteSet(S)
    PROVE  SumFunctionOnSet(f, S) = IF S = {} THEN 0 ELSE f[Pick(S)] + SumFunctionOnSet(f, Rest(S))
  <1>1. PICK it : Adds(it, f, SUBSET S) /\ SumFunctionOnSet(f, S) = it[S]
    BY SumIs
  <1>2. it[S] = IF S = {} THEN 0 ELSE f[Pick(S)] + it[Rest(S)]
    BY <1>1 DEF Adds
  <1>3. CASE S = {}
    BY <1>1, <1>2, <1>3
  <1>4. CASE S # {}
    <2>1. Rest(S) \in SUBSET S /\ IsFiniteSet(Rest(S))
      BY <1>4, RestIsSmaller
    <2>2. PICK that : Adds(that, f, SUBSET Rest(S)) /\ SumFunctionOnSet(f, Rest(S)) = that[Rest(S)]
      BY <2>1, SumIs
    <2>3. it[Rest(S)] = that[Rest(S)]
      <3>1. Adds(it, f, SUBSET S)
        BY <1>1
      <3>2. ASSUME NEW R, R \in SUBSET S, Adds(that, f, SUBSET R) PROVE it[R] = that[R]
        BY <3>1, <3>2, SumsAgree
      <3> QED
        BY <2>1, <2>2, <3>2
    <2> QED
      BY <1>1, <1>2, <1>4, <2>2, <2>3
  <1> QED
    BY <1>3, <1>4

(* A sum of integers is one, and any element may be taken first.                          *)
LEMMA SumIsInt ==
    ASSUME NEW S, IsFiniteSet(S), NEW f, \A x \in S : f[x] \in Int
    PROVE  SumFunctionOnSet(f, S) \in Int
  <1> DEFINE P == {T \in SUBSET S : SumFunctionOnSet(f, T) \in Int}
  <1>1. ASSUME NEW T \in SUBSET S, \A R \in SUBSET S : Cardinality(R) < Cardinality(T) => R \in P
        PROVE  T \in P
    <2>1. IsFiniteSet(T)
      BY FS_Subset
    <2>2. CASE T = {}
      <3>1. SumFunctionOnSet(f, T) = 0
        BY <2>1, <2>2, SumStep
      <3> QED
        BY <3>1
    <2>3. CASE T # {}
      <3>1. Rest(T) \in SUBSET S /\ Cardinality(Rest(T)) < Cardinality(T) /\ Pick(T) \in S
        BY <2>1, <2>3, RestIsSmaller
      <3>2. SumFunctionOnSet(f, Rest(T)) \in Int
        BY <1>1, <3>1
      <3>3. SumFunctionOnSet(f, T) = f[Pick(T)] + SumFunctionOnSet(f, Rest(T)) /\ f[Pick(T)] \in Int
        BY <2>1, <2>3, <3>1, SumStep
      <3> QED
        BY <3>2, <3>3
    <2> QED
      BY <2>2, <2>3
  <1>2. SUBSET S \subseteq P
    <2> HIDE DEF P
    <2> QED
      BY <1>1, BySize
  <1> QED
    BY <1>2

(* The sum taken apart at any element. *)
LEMMA SumTakes ==
    ASSUME NEW S, IsFiniteSet(S), NEW f, \A x \in S : f[x] \in Int, NEW a \in S
    PROVE  SumFunctionOnSet(f, S) = f[a] + SumFunctionOnSet(f, S \ {a})
  <1> DEFINE P == {T \in SUBSET S : \A x \in T : SumFunctionOnSet(f, T) = f[x] + SumFunctionOnSet(f, T \ {x})}
  <1>1. ASSUME NEW T \in SUBSET S, \A R \in SUBSET S : Cardinality(R) < Cardinality(T) => R \in P
        PROVE  T \in P
    <2> SUFFICES ASSUME NEW x \in T
                 PROVE  SumFunctionOnSet(f, T) = f[x] + SumFunctionOnSet(f, T \ {x})
      OBVIOUS
    <2> DEFINE y == Pick(T)
    <2>1. IsFiniteSet(T) /\ T # {}
      BY FS_Subset
    <2>2. y \in T /\ SumFunctionOnSet(f, T) = f[y] + SumFunctionOnSet(f, T \ {y})
      BY <2>1, SumStep, RestIsSmaller DEF Rest
    <2>3. CASE x = y
      BY <2>2, <2>3
    <2>4. CASE x # y
      <3>1. \A z \in T : T \ {z} \in SUBSET S /\ Cardinality(T \ {z}) < Cardinality(T)
        <4>1. \A z \in T : Cardinality(T \ {z}) = Cardinality(T) - 1
          BY <2>1, FS_RemoveElement
        <4>2. Cardinality(T) \in Nat
          BY <2>1, FS_CardinalityType
        <4> QED
          BY <4>1, <4>2
      <3>2. T \ {x} \in P /\ T \ {y} \in P
        BY <1>1, <2>2, <3>1
      <3>3. (T \ {x}) \ {y} = (T \ {y}) \ {x} /\ y \in T \ {x} /\ x \in T \ {y}
        BY <2>2, <2>4
      <3>4. SumFunctionOnSet(f, T \ {x}) = f[y] + SumFunctionOnSet(f, (T \ {x}) \ {y})
        BY <3>2, <3>3
      <3>5. SumFunctionOnSet(f, T \ {y}) = f[x] + SumFunctionOnSet(f, (T \ {y}) \ {x})
        BY <3>2, <3>3
      <3>6. f[x] \in Int /\ f[y] \in Int /\ SumFunctionOnSet(f, (T \ {x}) \ {y}) \in Int
        <4>1. IsFiniteSet((T \ {x}) \ {y}) /\ (T \ {x}) \ {y} \subseteq S
          BY FS_Subset
        <4> QED
          BY <2>2, <4>1, SumIsInt
      <3> DEFINE rest == SumFunctionOnSet(f, (T \ {x}) \ {y})
      <3>7. SumFunctionOnSet(f, T) = f[y] + (f[x] + rest) /\ SumFunctionOnSet(f, T \ {x}) = f[y] + rest
        BY <2>2, <3>3, <3>4, <3>5
      <3> HIDE DEF rest, y
      <3>8. f[x] \in Int /\ f[y] \in Int /\ rest \in Int
        BY <3>6 DEF rest
      <3> QED
        BY <3>7, <3>8
    <2> QED
      BY <2>3, <2>4
  <1>2. SUBSET S \subseteq P
    <2> HIDE DEF P
    <2> QED
      BY <1>1, BySize
  <1> QED
    BY <1>2

(* A sum of sums, and one of natural numbers.                                               *)
LEMMA SumOfParts ==
    ASSUME NEW S, IsFiniteSet(S), NEW f, NEW g, NEW h,
           \A x \in S : f[x] \in Int /\ g[x] \in Int /\ h[x] \in Int
    PROVE  /\ (\A x \in S : h[x] <= f[x] + g[x]) =>
                SumFunctionOnSet(h, S) <= SumFunctionOnSet(f, S) + SumFunctionOnSet(g, S)
           /\ (\A x \in S : f[x] + g[x] <= h[x]) =>
                SumFunctionOnSet(f, S) + SumFunctionOnSet(g, S) <= SumFunctionOnSet(h, S)
  <1> DEFINE P == {T \in SUBSET S :
                /\ (\A x \in T : h[x] <= f[x] + g[x]) =>
                     SumFunctionOnSet(h, T) <= SumFunctionOnSet(f, T) + SumFunctionOnSet(g, T)
                /\ (\A x \in T : f[x] + g[x] <= h[x]) =>
                     SumFunctionOnSet(f, T) + SumFunctionOnSet(g, T) <= SumFunctionOnSet(h, T)}
  <1>1. ASSUME NEW T \in SUBSET S, \A R \in SUBSET S : Cardinality(R) < Cardinality(T) => R \in P
        PROVE  T \in P
    <2>1. IsFiniteSet(T)
      BY FS_Subset
    <2>2. CASE T = {}
      <3>1. SumFunctionOnSet(h, T) = 0 /\ SumFunctionOnSet(f, T) = 0 /\ SumFunctionOnSet(g, T) = 0
        BY <2>1, <2>2, SumStep
      <3> QED
        BY <3>1
    <2>3. CASE T # {}
      <3> DEFINE R == Rest(T)
                 x == Pick(T)
                 H == SumFunctionOnSet(h, R)
                 F == SumFunctionOnSet(f, R)
                 G == SumFunctionOnSet(g, R)
      <3>1. R \in SUBSET S /\ Cardinality(R) < Cardinality(T) /\ x \in S /\ x \in T
            /\ IsFiniteSet(R) /\ R \subseteq T
        BY <2>1, <2>3, RestIsSmaller
      <3>2. R \in P
        BY <1>1, <3>1
      <3>3. /\ SumFunctionOnSet(h, T) = h[x] + H
            /\ SumFunctionOnSet(f, T) = f[x] + F
            /\ SumFunctionOnSet(g, T) = g[x] + G
        BY <2>1, <2>3, SumStep
      <3>4. H \in Int /\ F \in Int /\ G \in Int
        BY <3>1, SumIsInt
      <3>5. h[x] \in Int /\ f[x] \in Int /\ g[x] \in Int
        BY <3>1
      <3>6. (\A y \in T : h[y] <= f[y] + g[y]) => H <= F + G /\ h[x] <= f[x] + g[x]
        BY <3>1, <3>2
      <3>7. (\A y \in T : f[y] + g[y] <= h[y]) => F + G <= H /\ f[x] + g[x] <= h[x]
        BY <3>1, <3>2
      <3> HIDE DEF R, x, H, F, G
      <3> QED
        BY <3>3, <3>4, <3>5, <3>6, <3>7
    <2> QED
      BY <2>2, <2>3
  <1>2. S \in P
    <2> HIDE DEF P
    <2> QED
      BY <1>1, BySize
  <1> QED
    BY <1>2

(* A sum of natural numbers is one. *)
LEMMA SumIsNat ==
    ASSUME NEW S, IsFiniteSet(S), NEW f, \A x \in S : f[x] \in Nat
    PROVE  SumFunctionOnSet(f, S) \in Nat
  <1> DEFINE P == {T \in SUBSET S : SumFunctionOnSet(f, T) \in Nat}
  <1>1. ASSUME NEW T \in SUBSET S, \A R \in SUBSET S : Cardinality(R) < Cardinality(T) => R \in P
        PROVE  T \in P
    <2>1. IsFiniteSet(T)
      BY FS_Subset
    <2>2. CASE T = {}
      <3>1. SumFunctionOnSet(f, T) = 0
        BY <2>1, <2>2, SumStep
      <3> QED
        BY <3>1
    <2>3. CASE T # {}
      <3>1. Rest(T) \in SUBSET S /\ Cardinality(Rest(T)) < Cardinality(T) /\ Pick(T) \in S
        BY <2>1, <2>3, RestIsSmaller
      <3>2. SumFunctionOnSet(f, Rest(T)) \in Nat
        BY <1>1, <3>1
      <3>3. SumFunctionOnSet(f, T) = f[Pick(T)] + SumFunctionOnSet(f, Rest(T)) /\ f[Pick(T)] \in Nat
        BY <2>1, <2>3, <3>1, SumStep
      <3> QED
        BY <3>2, <3>3
    <2> QED
      BY <2>2, <2>3
  <1>2. S \in P
    <2> HIDE DEF P
    <2> QED
      BY <1>1, BySize
  <1> QED
    BY <1>2

(* What each of S has that is not zero, one of T has as well, at the same place, and no   *)
(* two of S have the same place: the sum over T is not smaller.                             *)
LEMMA Dominates ==
    ASSUME NEW S, IsFiniteSet(S), NEW T, IsFiniteSet(T), NEW f, NEW g, NEW a, NEW b,
           \A s \in S : f[s] \in Nat, \A t \in T : g[t] \in Nat,
           \A s, r \in S : a[s] = a[r] => s = r,
           \A s \in S : f[s] = 0 \/ \E t \in T : b[t] = a[s] /\ g[t] = f[s]
    PROVE  SumFunctionOnSet(f, S) <= SumFunctionOnSet(g, T)
  <1> DEFINE Has(A, B) == \A s \in A : f[s] = 0 \/ \E t \in B : b[t] = a[s] /\ g[t] = f[s]
             P == {A \in SUBSET S : \A B \in SUBSET T :
                     Has(A, B) => SumFunctionOnSet(f, A) <= SumFunctionOnSet(g, B)}
  <1>0. /\ \A A \in SUBSET S : IsFiniteSet(A) /\ SumFunctionOnSet(f, A) \in Nat
        /\ \A B \in SUBSET T : IsFiniteSet(B) /\ SumFunctionOnSet(g, B) \in Nat
    BY FS_Subset, SumIsNat
  <1>1. ASSUME NEW A \in SUBSET S, \A R \in SUBSET S : Cardinality(R) < Cardinality(A) => R \in P
        PROVE  A \in P
    <2> SUFFICES ASSUME NEW B \in SUBSET T, Has(A, B)
                 PROVE  SumFunctionOnSet(f, A) <= SumFunctionOnSet(g, B)
      OBVIOUS
    <2>1. CASE A = {}
      <3>1. SumFunctionOnSet(f, A) = 0
        BY <1>0, <2>1, SumStep
      <3> QED
        BY <1>0, <3>1
    <2>2. CASE A # {}
      <3> DEFINE R == Rest(A)
                 s == Pick(A)
      <3>1. R \in SUBSET S /\ Cardinality(R) < Cardinality(A) /\ s \in A /\ R = A \ {s}
        <4>1. IsFiniteSet(A)
          BY <1>0
        <4>2. /\ Pick(A) \in A /\ Rest(A) \subseteq A /\ Cardinality(A) \in Nat
              /\ Cardinality(Rest(A)) = Cardinality(A) - 1
          BY <2>2, <4>1, RestIsSmaller
        <4> QED
          BY <4>2 DEF Rest
      <3>2. R \in P
        BY <1>1, <3>1
      <3>3. SumFunctionOnSet(f, A) = f[s] + SumFunctionOnSet(f, R)
        BY <1>0, <2>2, SumStep
      <3>4. f[s] \in Nat /\ SumFunctionOnSet(f, R) \in Nat
        BY <1>0, <3>1
      <3>5. CASE f[s] = 0
        <4>1. Has(R, B)
          BY <3>1
        <4>2. SumFunctionOnSet(f, R) <= SumFunctionOnSet(g, B)
          BY <3>2, <4>1
        <4>3. SumFunctionOnSet(f, A) = SumFunctionOnSet(f, R)
          <5> HIDE DEF s, R
          <5> QED
            BY <3>3, <3>4, <3>5
        <4> QED
          BY <4>2, <4>3
      <3>6. CASE f[s] # 0
        <4>1. PICK t \in B : b[t] = a[s] /\ g[t] = f[s]
          BY <3>1, <3>6
        <4>2. Has(R, B \ {t})
          <5> SUFFICES ASSUME NEW r \in R, f[r] # 0
                       PROVE  \E k \in B \ {t} : b[k] = a[r] /\ g[k] = f[r]
            OBVIOUS
          <5>1. PICK k \in B : b[k] = a[r] /\ g[k] = f[r]
            BY <3>1
          <5>2. r \in S /\ s \in S /\ r # s
            BY <3>1
          <5>3. k # t
            BY <4>1, <5>1, <5>2
          <5> QED
            BY <5>1, <5>3
        <4>3. SumFunctionOnSet(f, R) <= SumFunctionOnSet(g, B \ {t})
          BY <3>2, <4>2
        <4>4. SumFunctionOnSet(g, B) = g[t] + SumFunctionOnSet(g, B \ {t})
          <5>1. IsFiniteSet(B) /\ \A x \in B : g[x] \in Int
            BY <1>0
          <5> QED
            BY <5>1, SumTakes
        <4>5. SumFunctionOnSet(g, B \ {t}) \in Nat
          BY <1>0
        <4> DEFINE rest == SumFunctionOnSet(g, B \ {t})
                   more == SumFunctionOnSet(f, R)
        <4>6. more <= rest /\ SumFunctionOnSet(g, B) = f[s] + rest /\ SumFunctionOnSet(f, A) = f[s] + more
          BY <3>3, <4>1, <4>3, <4>4
        <4>7. more \in Nat /\ rest \in Nat /\ f[s] \in Nat
          BY <3>4, <4>5
        <4> HIDE DEF rest, more, s
        <4> QED
          BY <4>6, <4>7
      <3> QED
        BY <3>5, <3>6
    <2> QED
      BY <2>1, <2>2
  <1>2. S \in P
    <2> HIDE DEF P
    <2> QED
      BY <1>1, BySize
  <1> QED
    BY <1>2

(* A finite set of numbers has a least and a greatest.                                       *)
LEMMA HasExtremes ==
    ASSUME NEW S, IsFiniteSet(S), S # {}, S \subseteq Int
    PROVE  /\ Min(S) \in S /\ \A y \in S : Min(S) <= y
           /\ Max(S) \in S /\ \A y \in S : y <= Max(S)
  <1> DEFINE P == {T \in SUBSET S : T = {} \/ ((\E x \in T : \A y \in T : x <= y) /\ \E x \in T : \A y \in T : x >= y)}
  <1>1. ASSUME NEW T \in SUBSET S, \A R \in SUBSET S : Cardinality(R) < Cardinality(T) => R \in P
        PROVE  T \in P
    <2> SUFFICES ASSUME T # {} PROVE (\E x \in T : \A y \in T : x <= y) /\ \E x \in T : \A y \in T : x >= y
      OBVIOUS
    <2>1. IsFiniteSet(T)
      BY FS_Subset
    <2> DEFINE R == Rest(T)
               a == Pick(T)
    <2>2. R \in SUBSET S /\ Cardinality(R) < Cardinality(T) /\ T = R \cup {a} /\ a \in Int
      <3>1. /\ Pick(T) \in T /\ Rest(T) \subseteq T /\ Cardinality(T) \in Nat
            /\ Cardinality(Rest(T)) = Cardinality(T) - 1 /\ T = Rest(T) \cup {Pick(T)}
        BY <2>1, RestIsSmaller
      <3>2. Pick(T) \in Int /\ Rest(T) \in SUBSET S
        BY <3>1
      <3>3. Cardinality(Rest(T)) < Cardinality(T)
        BY <3>1
      <3> QED
        BY <3>1, <3>2, <3>3
    <2>3. R \in P
      BY <1>1, <2>2
    <2>4. CASE R = {}
      <3>1. a \in T /\ \A y \in T : a <= y /\ a >= y
        BY <2>2, <2>4
      <3> QED
        BY <3>1
    <2>5. CASE R # {}
      <3>1. PICK l \in R : \A y \in R : l <= y
        BY <2>3, <2>5
      <3>2. PICK h \in R : \A y \in R : h >= y
        BY <2>3, <2>5
      <3> DEFINE l1 == IF a <= l THEN a ELSE l
                 h1 == IF a >= h THEN a ELSE h
      <3>3. R \subseteq Int /\ a \in Int
        BY <2>2
      <3>4. l1 \in T /\ h1 \in T
        BY <2>2
      <3> HIDE DEF a, R
      <3>5. \A y \in T : l1 <= y
        BY <2>2, <3>1, <3>3
      <3>6. \A y \in T : h1 >= y
        BY <2>2, <3>2, <3>3
      <3> HIDE DEF l1, h1
      <3> QED
        BY <3>4, <3>5, <3>6
    <2> QED
      BY <2>4, <2>5
  <1>2. S \in P
    <2> HIDE DEF P
    <2> QED
      BY <1>1, BySize
  <1>3. Min(S) \in S /\ \A y \in S : Min(S) <= y
    BY <1>2 DEF Min
  <1>4. Max(S) \in S /\ \A y \in S : Max(S) >= y
    BY <1>2 DEF Max
  <1> QED
    BY <1>3, <1>4

-----------------------------------------------------------------------------
(* The invariant of the matching.  Filled are the places whose row stands: all columns   *)
(* when no row is being inserted, place 0 too while the row in it looks for a free one,   *)
(* and all but the one it is at on the way back.                                            *)
IsMatrix(w) == \E n, m \in Nat : w \in [1..n -> [1..m -> Nat]]
Filled == IF j0 = Nowhere THEN Columns ELSE IF back THEN Slots \ {j0} ELSE Slots
Left(i, j) == Cost(i, j) - u[i] - v[j]
Tight(i, j) == Left(i, j) = 0

Sizes == \E n, m \in Nat : n <= m /\ weights \in [1..n -> [1..m -> Nat]] /\ Columns = 1..m
Types ==
    /\ row \in 0..Cardinality(Rows) /\ j0 \in Slots \cup {Nowhere} /\ used \subseteq Slots
    /\ back \in BOOLEAN /\ (j0 = Nowhere => ~back)
    /\ u \in [0..Cardinality(Rows) -> Int] /\ v \in [Slots -> Int] /\ minv \in [Slots -> Int]
    /\ p \in [Slots -> 0..row] /\ way \in [Slots -> Slots]
(* No pair is worth more than its prices.                                                   *)
Prices ==
    /\ \A i \in Rows, j \in Columns : Left(i, j) >= 0
    /\ \A j \in Columns : v[j] <= 0
    /\ \A i \in Rows : i > row => u[i] = 0
(* A row has one place, and the pair is worth its prices; a free column costs nothing.      *)
Matched ==
    /\ \A j, k \in Filled : p[j] = p[k] /\ p[j] # 0 => j = k
    /\ \A i \in 1..row : \E j \in Filled : p[j] = i
    /\ \A j \in Filled \cap Columns : IF p[j] = 0 THEN v[j] = 0 ELSE Tight(p[j], j)
(* The way to a settled column is over one that was settled earlier, whose row would fit.   *)
Follows(rank, j) == way[j] \in used /\ rank[way[j]] < rank[j] /\ Tight(p[way[j]], j)
Looked ==
    /\ 0 \in used /\ j0 # 0
    /\ \A j \in Columns \ used :
         /\ way[j] \in used /\ minv[j] = Left(p[way[j]], j)
         /\ \A k \in used : minv[j] <= Left(p[k], j)
Searching ==
    j0 # Nowhere /\ ~back =>
      /\ p[0] = row /\ row # 0 /\ j0 \notin used /\ \A j \in used \cup {j0} : p[j] # 0
      /\ used = {} => j0 = 0 /\ u[row] = 0 /\ \A j \in Columns : minv[j] = INF
      /\ used # {} => Looked
      /\ \E rank \in [Slots -> Nat] :
           /\ \A j \in used : rank[j] < rank[j0]
           /\ \A j \in (used \cup {j0}) \ {0} : Follows(rank, j)
Returning ==
    back =>
      /\ j0 \in Columns
      /\ \E rank \in [Slots -> Nat] :
           /\ Follows(rank, j0)
           /\ \A j \in used : rank[j] < rank[j0] => p[j] # 0 /\ (j # 0 => Follows(rank, j))
HInv == Sizes /\ Types /\ Prices /\ Matched /\ Searching /\ Returning

(* The rows, columns and slots of a matrix are intervals. *)
LEMMA Basics ==
    ASSUME Sizes
    PROVE  /\ Cardinality(Rows) \in Nat /\ Cardinality(Columns) \in Nat
           /\ Cardinality(Rows) <= Cardinality(Columns)
           /\ Rows = 1..Cardinality(Rows) /\ Columns = 1..Cardinality(Columns)
           /\ Slots = 0..Cardinality(Columns) /\ weights \in [Rows -> [Columns -> Nat]]
  <1>1. PICK n, m \in Nat : n <= m /\ weights \in [1..n -> [1..m -> Nat]] /\ Columns = 1..m
    BY DEF Sizes
  <1>2. Rows = 1..n
    BY <1>1 DEF Rows
  <1>3. Cardinality(Rows) = n /\ Cardinality(Columns) = m
    BY <1>1, <1>2, FS_Interval
  <1> QED
    BY <1>1, <1>2, <1>3 DEF Slots

(* The largest weight of a matrix is a number, and no weight is larger. *)
LEMMA LargestWeight ==
    ASSUME NEW n \in Nat, NEW m \in Nat, n # 0, m # 0, NEW w \in [1..n -> [1..m -> Nat]]
    PROVE  LET big == Max(UNION {Range(w[k]) : k \in DOMAIN w})
           IN  big \in Nat /\ \A i \in 1..n, j \in 1..m : w[i][j] <= big
  <1> DEFINE All == UNION {Range(w[k]) : k \in DOMAIN w}
             Cells == (1..n) \X (1..m)
             f == [c \in Cells |-> w[c[1]][c[2]]]
  <1>1. \A k \in 1..n : Range(w[k]) = {w[k][j] : j \in 1..m}
    BY DEF Range
  <1>2. f \in Surjection(Cells, All)
    <2>1. ASSUME NEW c \in Cells PROVE f[c] \in All
      <3>1. c[1] \in 1..n /\ c[2] \in 1..m
        OBVIOUS
      <3> QED
        BY <1>1, <3>1
    <2>2. ASSUME NEW x \in All PROVE \E c \in Cells : f[c] = x
      <3>1. PICK k \in 1..n : x \in Range(w[k])
        OBVIOUS
      <3>2. PICK j \in 1..m : x = w[k][j]
        BY <1>1, <3>1
      <3>3. <<k, j>> \in Cells /\ f[<<k, j>>] = x
        BY <3>2
      <3> QED
        BY <3>3
    <2>3. f \in [Cells -> All]
      <3> HIDE DEF All, Cells
      <3> QED
        BY <2>1
    <2> HIDE DEF All, Cells, f
    <2> QED
      BY <2>2, <2>3 DEF Surjection
  <1>3. IsFiniteSet(All)
    <2>1. IsFiniteSet(Cells)
      <3>1. IsFiniteSet(1..n) /\ IsFiniteSet(1..m)
        BY FS_Interval
      <3> QED
        BY <3>1, FS_Product
    <2> HIDE DEF All, Cells, f
    <2> QED
      BY <1>2, <2>1, FS_Surjection
  <1>4. All \subseteq Nat /\ \A i \in 1..n, j \in 1..m : w[i][j] \in All
    <2>1. DOMAIN w = 1..n
      OBVIOUS
    <2>2. \A i \in 1..n, j \in 1..m : w[i][j] \in Range(w[i]) /\ w[i][j] \in Nat
      BY <1>1
    <2>3. \A i \in 1..n : Range(w[i]) \subseteq All
      BY <2>1
    <2>4. \A i \in 1..n : Range(w[i]) \subseteq Nat
      BY <1>1
    <2>5. All \subseteq Nat
      BY <2>1, <2>4
    <2> HIDE DEF All
    <2> QED
      BY <2>2, <2>3, <2>5
  <1>5. All # {}
    <2>1. 1 \in 1..n /\ 1 \in 1..m
      OBVIOUS
    <2> QED
      BY <1>4, <2>1
  <1>6. Max(All) \in All /\ \A y \in All : y <= Max(All)
    <2>1. All \subseteq Int
      BY <1>4
    <2> HIDE DEF All
    <2> QED
      BY <1>3, <1>5, <2>1, HasExtremes
  <1> HIDE DEF All
  <1>7. Max(All) \in Nat /\ \A i \in 1..n, j \in 1..m : w[i][j] <= Max(All)
    BY <1>4, <1>6
  <1> QED
    BY <1>7 DEF All

(* Costs are what a weight falls short of the largest (assign of der.py). *)
LEMMA CostsAreBounded ==
    ASSUME Sizes, Rows # {}
    PROVE  Big \in Nat /\ \A i \in Rows, j \in Columns : Cost(i, j) \in 0..Big
  <1>1. PICK n, m \in Nat : n <= m /\ weights \in [1..n -> [1..m -> Nat]] /\ Columns = 1..m
    BY DEF Sizes
  <1>2. Rows = 1..n /\ n # 0 /\ m # 0
    BY <1>1 DEF Rows
  <1>3. Big \in Nat /\ \A i \in Rows, j \in Columns : weights[i][j] <= Big
    BY <1>1, <1>2, LargestWeight DEF Big, Rows
  <1>4. \A i \in Rows, j \in Columns : weights[i][j] \in Nat
    BY <1>1, <1>2
  <1> QED
    BY <1>3, <1>4 DEF Cost

(* Fewer rows than places: one place is free, and it is a column.                            *)
LEMMA SomeColumnIsFree ==
    ASSUME Sizes, Types, \A j, k \in Columns : p[j] = p[k] /\ p[j] # 0 => j = k,
           NEW i \in 1..row, \A j \in Columns : p[j] # i
    PROVE  \E j \in Columns : p[j] = 0
  <1> SUFFICES ASSUME \A j \in Columns : p[j] # 0 PROVE FALSE
    OBVIOUS
  <1> DEFINE M == Cardinality(Columns)
             others == (1..row) \ {i}
             f == [j \in Columns |-> p[j]]
  <1>1. /\ Cardinality(Rows) \in Nat /\ M \in Nat /\ Cardinality(Rows) <= M
        /\ Columns = 1..M /\ Slots = 0..M
    BY Basics
  <1>2. row \in Nat /\ row <= M /\ p \in [Slots -> 0..row]
    BY <1>1 DEF Types
  <1>3. f \in [Columns -> others]
    BY <1>1, <1>2
  <1>4. IsFiniteSet(Columns) /\ IsFiniteSet(1..row) /\ Cardinality(1..row) = row
    BY <1>1, <1>2, FS_Interval
  <1>5. IsFiniteSet(others) /\ Cardinality(others) = row - 1
    BY <1>4, FS_RemoveElement
  <1>6. Cardinality(others) < Cardinality(Columns)
    BY <1>1, <1>2, <1>5
  <1>7. PICK x, y \in Columns : x # y /\ f[x] = f[y]
    <2> HIDE DEF f, others
    <2> QED
      BY <1>3, <1>4, <1>5, <1>6, FS_PigeonHole
  <1> QED
    BY <1>7

(* The start of the matching.                                                                 *)
LEMMA ShorterIsWide ==
    ASSUME NEW w, IsMatrix(w)
    PROVE  \E n, m \in Nat : n <= m /\ Shorter(w) \in [1..n -> [1..m -> Nat]] /\ (n = 0 => m = 0)
  <1>1. PICK n, m \in Nat : w \in [1..n -> [1..m -> Nat]]
    BY DEF IsMatrix
  <1>2. DOMAIN w = 1..n /\ Cardinality(1..n) = n /\ Cardinality(1..m) = m
    BY <1>1, FS_Interval
  <1>3. CASE n = 0
    <2>1. DOMAIN w = {} /\ w \in [1..0 -> [1..0 -> Nat]]
      BY <1>1, <1>2, <1>3
    <2>2. Shorter(w) = w
      BY <2>1 DEF Shorter, Turned
    <2> QED
      BY <2>1, <2>2
  <1>4. CASE n # 0
    <2>1. 1 \in 1..n /\ DOMAIN w[1] = 1..m /\ DOMAIN w # {}
      <3>1. 1 \in 1..n
        BY <1>4
      <3>2. w[1] \in [1..m -> Nat]
        BY <1>1, <3>1
      <3> QED
        BY <1>2, <3>1, <3>2
    <2>2. Turned(w) <=> n > m
      BY <1>2, <2>1 DEF Turned
    <2>3. CASE n > m
      <3>1. Shorter(w) = [j \in 1..m |-> [i \in 1..n |-> w[i][j]]]
        BY <1>2, <2>1, <2>2, <2>3 DEF Shorter, Transposed
      <3>2. Shorter(w) \in [1..m -> [1..n -> Nat]]
        BY <1>1, <3>1
      <3>3. CASE m = 0
        <4>1. Shorter(w) \in [1..0 -> [1..0 -> Nat]]
          BY <3>1, <3>3
        <4> QED
          BY <4>1
      <3>4. CASE m # 0
        <4>1. m <= n /\ (m = 0 => n = 0)
          BY <2>3, <3>4
        <4> WITNESS m \in Nat, n \in Nat
        <4> QED
          BY <3>2, <4>1
      <3> QED
        BY <3>3, <3>4
    <2>4. CASE ~(n > m)
      <3>1. Shorter(w) = w /\ n <= m
        BY <2>2, <2>4 DEF Shorter
      <3> QED
        BY <1>1, <1>4, <3>1
    <2> QED
      BY <2>3, <2>4
  <1> QED
    BY <1>3, <1>4

(* The invariant holds before the first row. *)
LEMMA BeginsSound ==
    ASSUME NEW w, IsMatrix(w), Begin(w)
    PROVE  HInv'
  <1>1. PICK n, m \in Nat : n <= m /\ weights' \in [1..n -> [1..m -> Nat]] /\ (n = 0 => m = 0)
    BY ShorterIsWide DEF Begin
  <1>2. Rows' = 1..n /\ Columns' = 1..m
    <2>1. Rows' = 1..n
      BY <1>1 DEF Rows
    <2>2. CASE n = 0
      BY <1>1, <2>1, <2>2 DEF Columns
    <2>3. CASE n # 0
      <3>1. 1 \in 1..n /\ Rows' # {}
        BY <2>1, <2>3
      <3>2. weights'[1] \in [1..m -> Nat]
        BY <1>1, <3>1
      <3> QED
        <4>1. Columns' = DOMAIN weights'[1]
          BY <3>1 DEF Columns
        <4>2. DOMAIN weights'[1] = 1..m
          BY <3>2
        <4> QED
          BY <2>1, <4>1, <4>2
    <2> QED
      BY <2>1, <2>2, <2>3
  <1>3. Cardinality(Rows') = n /\ Cardinality(Columns') = m /\ Slots' = 0..m
    <2>1. Cardinality(1..n) = n /\ Cardinality(1..m) = m
      BY FS_Interval
    <2> QED
      BY <1>2, <2>1 DEF Slots
  <1>4. /\ row' = 0 /\ j0' = Nowhere /\ back' = FALSE /\ used' = {}
        /\ u' = [k \in 0..n |-> 0] /\ v' = [k \in 0..m |-> 0] /\ p' = [k \in 0..m |-> 0]
        /\ way' = [k \in 0..m |-> 0] /\ minv' = [k \in 0..m |-> 0]
    BY <1>3 DEF Begin, Zeros
  <1>5. Sizes'
    BY <1>1, <1>2 DEF Sizes
  <1>6. Types'
    <2>1. /\ row' \in 0..n /\ j0' = Nowhere /\ used' \subseteq Slots' /\ back' = FALSE
          /\ u' \in [0..n -> Int] /\ v' \in [0..m -> Int] /\ minv' \in [0..m -> Int]
          /\ p' \in [0..m -> 0..row'] /\ way' \in [0..m -> 0..m]
      BY <1>4
    <2> QED
      BY <1>3, <2>1 DEF Types
  <1>7. ASSUME NEW i \in Rows', NEW j \in Columns' PROVE Left(i, j)' >= 0
    <2>1. n # 0 /\ m # 0
      BY <1>2
    <2>2. Big' \in Nat /\ weights'[i][j] <= Big' /\ weights'[i][j] \in Nat
      BY <1>1, <1>2, <2>1, LargestWeight DEF Big, Rows
    <2>3. u'[i] = 0 /\ v'[j] = 0
      BY <1>2, <1>4
    <2> QED
      BY <2>2, <2>3 DEF Left, Cost
  <1>8. Prices'
    BY <1>2, <1>4, <1>7 DEF Prices
  <1>9. Matched'
    BY <1>2, <1>3, <1>4 DEF Matched, Filled
  <1>10. Searching' /\ Returning'
    BY <1>4 DEF Searching, Returning
  <1> QED
    BY <1>5, <1>6, <1>8, <1>9, <1>10 DEF HInv

(* Why the prices show it: whatever rows are placed elsewhere, a pair weighs at most what  *)
(* its prices leave, and the placed ones weigh that; only placed columns have a price.       *)
LEMMA BestAtRest ==
    ASSUME HInv
    PROVE  BestSoFar
  <1> SUFFICES ASSUME j0 = Nowhere
               PROVE  /\ Placed = 1..row
                      /\ \A j, k \in Columns : p[j] = p[k] /\ p[j] # 0 => j = k
                      /\ \A other \in Injection(1..row, Columns) :
                           WeightOf(other) <= WeightOf([i \in 1..row |-> PlaceOf(i)])
    BY DEF BestSoFar
  <1> DEFINE N == Cardinality(Rows)
             M == Cardinality(Columns)
  <1>1. /\ N \in Nat /\ M \in Nat /\ N <= M /\ Rows = 1..N /\ Columns = 1..M
        /\ Slots = 0..M /\ weights \in [Rows -> [Columns -> Nat]]
    BY Basics DEF HInv
  <1>2. /\ row \in 0..N /\ u \in [0..N -> Int] /\ v \in [Slots -> Int] /\ p \in [Slots -> 0..row]
    BY DEF HInv, Types
  <1>3. Filled = Columns /\ Filled \cap Columns = Columns
    BY DEF Filled
  <1>4. /\ \A j, k \in Columns : p[j] = p[k] /\ p[j] # 0 => j = k
        /\ \A i \in 1..row : \E j \in Columns : p[j] = i
        /\ \A j \in Columns : IF p[j] = 0 THEN v[j] = 0 ELSE Tight(p[j], j)
    BY <1>3 DEF HInv, Matched
  <1>5. Placed = 1..row
    <2>1. \A j \in Columns : p[j] \in 0..row
      BY <1>1, <1>2
    <2>2. ASSUME NEW x \in Placed PROVE x \in 1..row
      BY <2>1 DEF Placed
    <2>3. ASSUME NEW x \in 1..row PROVE x \in Placed
      BY <1>4 DEF Placed
    <2> QED
      BY <2>2, <2>3
  <1>6. ASSUME NEW other \in Injection(1..row, Columns)
        PROVE  WeightOf(other) <= WeightOf([i \in 1..row |-> PlaceOf(i)])
    <2> DEFINE R == 1..row
               place == [i \in R |-> PlaceOf(i)]
               wo == [i \in DOMAIN other |-> weights[i][other[i]]]
               wp == [i \in DOMAIN place |-> weights[i][place[i]]]
               f == [i \in R |-> Big - u[i]]
               go == [i \in R |-> 0 - v[other[i]]]
               gp == [i \in R |-> 0 - v[place[i]]]
    <2>1. other \in [R -> Columns] /\ \A i, k \in R : other[i] = other[k] => i = k
      BY DEF Injection, IsInjective
    <2>2. \A i \in R : place[i] \in Columns /\ p[place[i]] = i
      BY <1>4 DEF PlaceOf
    <2>3. IsFiniteSet(R)
      BY <1>1, <1>2, FS_Interval
    <2>4. DOMAIN other = R /\ DOMAIN place = R /\ R \subseteq Rows /\ R \subseteq 0..N
      BY <1>1, <1>2, <2>1
    <2>5. WeightOf(other) = SumFunctionOnSet(wo, R) /\ WeightOf(place) = SumFunctionOnSet(wp, R)
      BY <2>4 DEF WeightOf, SumFunction
    <2>6. R # {} => Big \in Nat
      BY <2>4, CostsAreBounded DEF HInv
    <2>7. ASSUME NEW i \in R
          PROVE  /\ wo[i] \in Int /\ wp[i] \in Int /\ f[i] \in Int /\ go[i] \in Nat /\ gp[i] \in Nat
                 /\ wo[i] <= f[i] + go[i] /\ f[i] + gp[i] <= wp[i]
      <3>1. /\ i \in Rows /\ u[i] \in Int /\ Big \in Nat
            /\ other[i] \in Columns /\ place[i] \in Columns /\ p[place[i]] = i /\ i # 0
        BY <1>2, <2>1, <2>2, <2>4, <2>6
      <3>2. /\ v[other[i]] \in Int /\ v[place[i]] \in Int /\ v[other[i]] <= 0 /\ v[place[i]] <= 0
            /\ weights[i][other[i]] \in Nat /\ weights[i][place[i]] \in Nat
        <4>1. weights[i] \in [Columns -> Nat]
          BY <1>1, <3>1
        <4>2. \A j \in Columns : weights[i][j] \in Nat /\ v[j] \in Int /\ v[j] <= 0
          BY <1>1, <1>2, <4>1 DEF HInv, Prices
        <4> HIDE DEF place
        <4> QED
          BY <3>1, <4>2
      <3>3. Left(i, other[i]) >= 0 /\ Left(i, place[i]) = 0
        BY <1>4, <3>1 DEF HInv, Prices, Tight
      <3>4. /\ wo[i] = weights[i][other[i]] /\ wp[i] = weights[i][place[i]] /\ f[i] = Big - u[i]
            /\ go[i] = 0 - v[other[i]] /\ gp[i] = 0 - v[place[i]]
        BY <2>4
      <3> HIDE DEF wo, wp, f, go, gp, place
      <3>5. /\ (Big - weights[i][other[i]]) - u[i] - v[other[i]] >= 0
            /\ (Big - weights[i][place[i]]) - u[i] - v[place[i]] = 0
        BY <3>3 DEF Left, Cost
      <3>6. wo[i] \in Int /\ wp[i] \in Int /\ f[i] \in Int /\ go[i] \in Nat /\ gp[i] \in Nat
        <4>1. wo[i] \in Int /\ wp[i] \in Int
          BY <3>2, <3>4
        <4>2. f[i] \in Int
          BY <3>1, <3>4
        <4>3. go[i] \in Nat
          BY <3>2, <3>4
        <4>4. gp[i] \in Nat
          BY <3>2, <3>4
        <4> QED
          BY <4>1, <4>2, <4>3, <4>4
      <3>7. weights[i][other[i]] <= (Big - u[i]) + (0 - v[other[i]])
        <4>1. PICK b \in Int, w \in Int, x \in Int, y \in Int :
                b = Big /\ w = weights[i][other[i]] /\ x = u[i] /\ y = v[other[i]]
          BY <3>1, <3>2
        <4>2. (b - w) - x - y >= 0
          BY <3>5, <4>1
        <4>3. w <= (b - x) + (0 - y)
          BY <4>2
        <4> QED
          BY <4>1, <4>3
      <3>8. (Big - u[i]) + (0 - v[place[i]]) <= weights[i][place[i]]
        <4>1. PICK b \in Int, w \in Int, x \in Int, y \in Int :
                b = Big /\ w = weights[i][place[i]] /\ x = u[i] /\ y = v[place[i]]
          BY <3>1, <3>2
        <4>2. (b - w) - x - y = 0
          BY <3>5, <4>1
        <4>3. (b - x) + (0 - y) <= w
          BY <4>2
        <4> QED
          BY <4>1, <4>3
      <3> QED
        BY <3>4, <3>6, <3>7, <3>8
    <2>8. ASSUME NEW i \in R
          PROVE  go[i] = 0 \/ \E k \in R : place[k] = other[i] /\ gp[k] = go[i]
      <3> SUFFICES ASSUME go[i] # 0 PROVE \E k \in R : place[k] = other[i] /\ gp[k] = go[i]
        OBVIOUS
      <3>1. other[i] \in Columns /\ v[other[i]] # 0
        BY <1>1, <1>2, <2>1
      <3>2. p[other[i]] \in R
        <4>1. p[other[i]] # 0
          BY <1>4, <3>1
        <4> QED
          BY <1>1, <1>2, <3>1, <4>1
      <3>3. place[p[other[i]]] = other[i]
        <4>1. place[p[other[i]]] \in Columns /\ p[place[p[other[i]]]] = p[other[i]] /\ p[other[i]] # 0
          BY <2>2, <3>2
        <4> HIDE DEF place
        <4> QED
          BY <1>4, <3>1, <4>1
      <3> QED
        BY <3>2, <3>3
    <2> HIDE DEF place, wo, wp, f, go, gp, R
    <2>9. SumFunctionOnSet(wo, R) <= SumFunctionOnSet(f, R) + SumFunctionOnSet(go, R)
      <3>1. \A i \in R : f[i] \in Int /\ go[i] \in Int /\ wo[i] \in Int
        BY <2>7
      <3>2. \A i \in R : wo[i] <= f[i] + go[i]
        BY <2>7
      <3> QED
        BY <2>3, <3>1, <3>2, SumOfParts
    <2>10. SumFunctionOnSet(f, R) + SumFunctionOnSet(gp, R) <= SumFunctionOnSet(wp, R)
      <3>1. \A i \in R : f[i] \in Int /\ gp[i] \in Int /\ wp[i] \in Int
        BY <2>7
      <3>2. \A i \in R : f[i] + gp[i] <= wp[i]
        BY <2>7
      <3> QED
        BY <2>3, <3>1, <3>2, SumOfParts
    <2>11. SumFunctionOnSet(go, R) <= SumFunctionOnSet(gp, R)
      BY <2>1, <2>3, <2>7, <2>8, Dominates
    <2>12. /\ SumFunctionOnSet(wo, R) \in Int /\ SumFunctionOnSet(wp, R) \in Int
           /\ SumFunctionOnSet(f, R) \in Int /\ SumFunctionOnSet(go, R) \in Int
           /\ SumFunctionOnSet(gp, R) \in Int
      BY <2>3, <2>7, SumIsInt
    <2>13. WeightOf(other) <= WeightOf(place)
      BY <2>5, <2>9, <2>10, <2>11, <2>12
    <2> QED
      BY <2>13 DEF place, R
  <1> QED
    BY <1>4, <1>5, <1>6

(* The next row: it stands in place 0, which belongs to no column.                           *)
LEMMA InsertKeeps ==
    ASSUME HInv, Insert
    PROVE  HInv'
  <1> DEFINE N == Cardinality(Rows)
             M == Cardinality(Columns)
  <1>1. /\ N \in Nat /\ M \in Nat /\ N <= M /\ Rows = 1..N /\ Columns = 1..M /\ Slots = 0..M
    BY Basics DEF HInv
  <1>2. Rows' = Rows /\ Columns' = Columns /\ Slots' = Slots /\ Cardinality(Rows)' = N
    BY DEF Insert, Rows, Columns, Slots
  <1>3. \A i, j : Cost(i, j)' = Cost(i, j) /\ Left(i, j)' = Left(i, j)
    BY DEF Insert, Cost, Big, Rows, Left
  <1>4. /\ j0 = Nowhere /\ j0' = 0 /\ row < N /\ row' = row + 1 /\ ~back /\ back' = back
        /\ used' = {} /\ u' = u /\ v' = v /\ way' = way
        /\ p' = [p EXCEPT ![0] = row + 1] /\ minv' = [k \in Slots |-> INF]
    BY DEF Insert, HInv, Types
  <1>5. /\ row \in 0..N /\ u \in [0..N -> Int] /\ v \in [Slots -> Int]
        /\ p \in [Slots -> 0..row] /\ way \in [Slots -> Slots]
    BY DEF HInv, Types
  <1>6. row + 1 \in Rows
    BY <1>1, <1>4, <1>5
  <1>7. Big \in Nat /\ INF \in Int /\ INF' = INF
    <2>1. Big \in Nat
      BY <1>6, CostsAreBounded DEF HInv
    <2>2. Big' = Big
      BY DEF Insert, Big, Rows
    <2> QED
      BY <2>1, <2>2 DEF INF
  <1>8. Filled = Columns /\ Filled' = Slots
    BY <1>2, <1>4 DEF Filled, Nowhere
  <1>9. Sizes'
    BY <1>2 DEF HInv, Sizes, Insert
  <1>10. Types'
    <2>1. row' \in 0..N /\ j0' \in Slots /\ used' \subseteq Slots /\ p' \in [Slots -> 0..row']
      BY <1>1, <1>4, <1>5
    <2>2. minv' \in [Slots -> Int]
      BY <1>4, <1>7
    <2>3. u' \in [0..N -> Int] /\ v' \in [Slots -> Int] /\ way' \in [Slots -> Slots] /\ back' = FALSE
      BY <1>4, <1>5 DEF HInv, Types
    <2>4. j0' # Nowhere
      BY <1>4 DEF Nowhere
    <2> QED
      BY <1>2, <2>1, <2>2, <2>3, <2>4 DEF Types
  <1>11. Prices'
    BY <1>1, <1>2, <1>3, <1>4, <1>5 DEF HInv, Prices
  <1>12. Matched'
    <2>1. p'[0] = row + 1 /\ \A j \in Columns : p'[j] = p[j] /\ p[j] \in 0..row
      BY <1>1, <1>4, <1>5
    <2>2. \A j \in Slots : j = 0 \/ j \in Columns
      BY <1>1
    <2>3. /\ \A j, k \in Columns : p[j] = p[k] /\ p[j] # 0 => j = k
          /\ \A i \in 1..row : \E j \in Columns : p[j] = i
          /\ \A j \in Columns : IF p[j] = 0 THEN v[j] = 0 ELSE Tight(p[j], j)
      BY <1>8 DEF HInv, Matched
    <2>4. ASSUME NEW j \in Slots, NEW k \in Slots, p'[j] = p'[k], p'[j] # 0 PROVE j = k
      <3>1. \A l \in Columns : p'[l] # row + 1
        <4>1. row \in Nat
          BY <1>1, <1>5
        <4> QED
          BY <2>1, <4>1
      <3> QED
        BY <2>1, <2>2, <2>3, <2>4, <3>1
    <2>5. ASSUME NEW i \in 1..row' PROVE \E j \in Slots : p'[j] = i
      <3>1. CASE i = row + 1
        BY <1>1, <2>1, <3>1
      <3>2. CASE i # row + 1
        <4>1. i \in 1..row /\ Columns \subseteq Slots
          BY <1>1, <1>4, <1>5, <3>2
        <4>2. PICK j \in Columns : p[j] = i
          BY <2>3, <4>1
        <4> QED
          BY <2>1, <4>1, <4>2
      <3> QED
        BY <3>1, <3>2
    <2>6. \A j \in Columns : (IF p[j] = 0 THEN v[j] = 0 ELSE Tight(p[j], j))'
      <3> SUFFICES ASSUME NEW j \in Columns, p'[j] # 0 PROVE Left(p[j], j)' = 0
        BY <1>4, <2>1, <2>3 DEF Tight
      <3>1. Left(p[j], j) = 0 /\ p'[j] = p[j]
        BY <2>1, <2>3 DEF Tight
      <3> QED
        BY <1>4, <3>1 DEF Insert, Left, Cost, Big, Rows
    <2>7. Slots \cap Columns = Columns
      BY <1>1
    <2> QED
      BY <1>2, <1>8, <2>4, <2>5, <2>6, <2>7 DEF Matched
  <1>13. Searching'
    <2>1. p'[0] = row' /\ row' # 0 /\ u'[row'] = 0
      <3>1. row + 1 > row /\ row + 1 # 0 /\ 0 \in Slots
        BY <1>1, <1>5
      <3>2. u[row + 1] = 0
        BY <1>6, <3>1 DEF HInv, Prices
      <3> QED
        BY <1>4, <1>5, <3>1, <3>2
    <2>2. \A j \in Columns : minv'[j] = INF
      BY <1>1, <1>4
    <2>3. \E rank \in [Slots -> Nat] :
             /\ \A j \in {} : rank[j] < rank[0]
             /\ \A j \in ({} \cup {0}) \ {0} : Follows(rank, j)'
      <3>1. [j \in Slots |-> 0] \in [Slots -> Nat]
        OBVIOUS
      <3> QED
        BY <3>1
    <2> QED
      BY <1>2, <1>4, <1>7, <2>1, <2>2, <2>3 DEF Searching
  <1>14. Returning'
    BY <1>4 DEF Returning
  <1> QED
    BY <1>9, <1>10, <1>11, <1>12, <1>13, <1>14 DEF HInv

(* One step back: the row of the column before moves to this one, which it fits.              *)
LEMMA AugmentKeeps ==
    ASSUME HInv, Augment
    PROVE  HInv'
  <1> DEFINE N == Cardinality(Rows)
             M == Cardinality(Columns)
  <1>0. PICK k : k = way[j0]
    OBVIOUS
  <1>1. /\ N \in Nat /\ M \in Nat /\ N <= M /\ Rows = 1..N /\ Columns = 1..M /\ Slots = 0..M
    BY Basics DEF HInv
  <1>2. Rows' = Rows /\ Columns' = Columns /\ Slots' = Slots /\ Cardinality(Rows)' = N
    BY DEF Augment, Rows, Columns, Slots
  <1>3. \A i, j : Left(i, j)' = Left(i, j)
    BY DEF Augment, Cost, Big, Rows, Left
  <1>4. /\ back /\ row' = row /\ used' = used /\ u' = u /\ v' = v /\ way' = way /\ minv' = minv
        /\ p' = [p EXCEPT ![j0] = p[k]]
        /\ j0' = (IF k = 0 THEN Nowhere ELSE k) /\ back' = (k # 0)
    BY <1>0 DEF Augment
  <1>5. /\ row \in 0..N /\ u \in [0..N -> Int] /\ v \in [Slots -> Int] /\ minv \in [Slots -> Int]
        /\ p \in [Slots -> 0..row] /\ way \in [Slots -> Slots] /\ used \subseteq Slots
        /\ j0 # Nowhere
    BY <1>4 DEF HInv, Types
  <1>6. j0 \in Columns
    BY <1>4 DEF HInv, Returning
  <1>7. PICK rank \in [Slots -> Nat] :
          /\ Follows(rank, j0)
          /\ \A j \in used : rank[j] < rank[j0] => p[j] # 0 /\ (j # 0 => Follows(rank, j))
    BY <1>4 DEF HInv, Returning
  <1>8. k \in used /\ k \in Slots /\ rank[k] < rank[j0] /\ k # j0 /\ p[k] # 0 /\ Left(p[k], j0) = 0
    <2>1. k \in used /\ rank[k] < rank[j0] /\ Left(p[k], j0) = 0
      BY <1>0, <1>7 DEF Follows, Tight
    <2>2. rank[j0] \in Nat
      BY <1>1, <1>6, <1>7
    <2>3. k \in Slots
      BY <1>5, <2>1
    <2> QED
      BY <1>7, <2>1, <2>2, <2>3
  <1>9. Filled = Slots \ {j0} /\ Filled' = Slots \ {k}
    <2>1. Filled = Slots \ {j0}
      BY <1>4, <1>5 DEF Filled
    <2>2. CASE k = 0
      <3>1. Filled' = Columns
        BY <1>2, <1>4, <2>2 DEF Filled
      <3> QED
        BY <1>1, <2>1, <2>2, <3>1
    <2>3. CASE k # 0
      <3>1. k # Nowhere
        <4>1. k \in Nat
          BY <1>1, <1>8
        <4> QED
          BY <4>1 DEF Nowhere
      <3>2. j0' = k /\ back'
        BY <1>4, <2>3
      <3> QED
        BY <1>2, <2>1, <3>1, <3>2 DEF Filled
    <2> QED
      BY <2>2, <2>3
  <1>10. p' \in [Slots -> 0..row] /\ p'[j0] = p[k] /\ \A j \in Slots : j # j0 => p'[j] = p[j]
    <2>1. j0 \in Slots /\ k \in Slots
      BY <1>1, <1>6, <1>8
    <2>2. p[k] \in 0..row
      BY <1>5, <2>1
    <2> QED
      BY <1>4, <1>5, <2>1, <2>2
  <1>11. Sizes'
    BY <1>2 DEF HInv, Sizes, Augment
  <1>12. Types'
    <2>1. j0' \in Slots \cup {Nowhere} /\ back' \in BOOLEAN /\ (j0' = Nowhere => ~back')
      <3>1. k # 0 => k # Nowhere
        BY <1>1, <1>8 DEF Nowhere
      <3> QED
        BY <1>4, <1>8, <3>1
    <2> QED
      BY <1>2, <1>4, <1>5, <1>10, <2>1 DEF Types
  <1>13. Prices'
    BY <1>2, <1>3, <1>4 DEF HInv, Prices
  <1>14. Matched'
    <2>1. /\ \A j, l \in Slots \ {j0} : p[j] = p[l] /\ p[j] # 0 => j = l
          /\ \A i \in 1..row : \E j \in Slots \ {j0} : p[j] = i
          /\ \A j \in (Slots \ {j0}) \cap Columns : IF p[j] = 0 THEN v[j] = 0 ELSE Tight(p[j], j)
      BY <1>9 DEF HInv, Matched
    <2>2. ASSUME NEW j \in Slots \ {k}, NEW l \in Slots \ {k}, p'[j] = p'[l], p'[j] # 0 PROVE j = l
      <3>1. CASE j = j0 /\ l = j0
        BY <3>1
      <3>2. CASE j # j0 /\ l # j0
        BY <1>10, <2>1, <2>2, <3>2
      <3>3. CASE j = j0 /\ l # j0
        BY <1>8, <1>10, <2>1, <2>2, <3>3
      <3>4. CASE j # j0 /\ l = j0
        BY <1>8, <1>10, <2>1, <2>2, <3>4
      <3> QED
        BY <3>1, <3>2, <3>3, <3>4
    <2>3. ASSUME NEW i \in 1..row PROVE \E j \in Slots \ {k} : p'[j] = i
      <3>1. PICK j \in Slots \ {j0} : p[j] = i
        BY <2>1
      <3>2. CASE j = k
        <4>1. j0 \in Slots \ {k} /\ p'[j0] = i
          BY <1>1, <1>6, <1>8, <1>10, <3>1, <3>2
        <4> QED
          BY <4>1
      <3>3. CASE j # k
        BY <1>10, <3>1, <3>3
      <3> QED
        BY <3>2, <3>3
    <2>4. ASSUME NEW j \in (Slots \ {k}) \cap Columns
          PROVE  (IF p[j] = 0 THEN v[j] = 0 ELSE Tight(p[j], j))'
      <3>1. CASE j = j0
        <4>1. p'[j] # 0 /\ Left(p'[j], j) = 0
          BY <1>8, <1>10, <3>1
        <4> QED
          BY <1>3, <4>1 DEF Tight
      <3>2. CASE j # j0
        <4>1. p'[j] = p[j] /\ v'[j] = v[j]
          BY <1>4, <1>10, <3>2
        <4>2. IF p[j] = 0 THEN v[j] = 0 ELSE Left(p[j], j) = 0
          BY <2>1, <3>2 DEF Tight
        <4> QED
          BY <1>3, <4>1, <4>2 DEF Tight
      <3> QED
        BY <3>1, <3>2
    <2> QED
      BY <1>2, <1>4, <1>9, <2>2, <2>3, <2>4 DEF Matched
  <1>15. Searching'
    BY <1>4 DEF Searching
  <1>16. Returning'
    <2> SUFFICES ASSUME k # 0 PROVE Returning'
      BY <1>4 DEF Returning
    <2>1. j0' = k /\ k \in Columns
      BY <1>1, <1>4, <1>8
    <2>2. ASSUME NEW j \in used, j # 0, rank[j] < rank[j0], Follows(rank, j)
          PROVE  Follows(rank, j)'
      <3>1. way[j] \in used /\ rank[way[j]] < rank[j] /\ Left(p[way[j]], j) = 0
        BY <2>2 DEF Follows, Tight
      <3>2. way[j] # j0 /\ way[j] \in Slots
        <4>1. way[j] \in Slots /\ j \in Slots /\ j0 \in Slots
          <5>1. used \subseteq Slots
            BY <1>5
          <5>2. j0 \in Slots
            BY <1>1, <1>6
          <5> QED
            BY <2>2, <3>1, <5>1, <5>2
        <4>2. rank[j] \in Nat /\ rank[j0] \in Nat /\ rank[way[j]] \in Nat
          BY <1>7, <4>1
        <4>3. rank[way[j]] < rank[j0]
          BY <2>2, <3>1, <4>2
        <4> QED
          BY <4>1, <4>2, <4>3
      <3>3. p'[way[j]] = p[way[j]]
        BY <1>10, <3>2
      <3> QED
        BY <1>3, <1>4, <3>1, <3>3 DEF Follows, Tight
    <2>3. Follows(rank, k)'
      <3>1. Follows(rank, k)
        BY <1>7, <1>8
      <3> QED
        BY <1>8, <2>2, <3>1
    <2>4. ASSUME NEW j \in used, rank[j] < rank[k] PROVE p'[j] # 0 /\ (j # 0 => Follows(rank, j)')
      <3>1. rank[j] < rank[j0] /\ j # j0
        <4>1. rank[j] \in Nat /\ rank[j0] \in Nat /\ rank[k] \in Nat
          <5>1. j \in Slots /\ j0 \in Slots /\ k \in Slots
            BY <1>1, <1>5, <1>6, <1>8
          <5> QED
            BY <1>7, <5>1
        <4> QED
          BY <1>8, <2>4, <4>1
      <3>2. p'[j] = p[j]
        BY <1>5, <1>10, <3>1
      <3> QED
        BY <1>7, <2>2, <3>1, <3>2
    <2>5. Follows(rank, j0)'
      BY <2>1, <2>3 DEF Follows, Tight, Left, Cost, Big, Rows
    <2>6. \A j \in used' : rank[j] < rank[j0'] => p'[j] # 0 /\ (j # 0 => Follows(rank, j)')
      BY <1>4, <2>1, <2>4
    <2>7. rank \in [Slots' -> Nat]
      BY <1>2, <1>7
    <2> QED
      BY <1>2, <2>1, <2>5, <2>6, <2>7 DEF Returning
  <1> QED
    BY <1>11, <1>12, <1>13, <1>14, <1>15, <1>16 DEF HInv

(* A look: the columns settled so far get cheaper by what the nearest open one is away, and   *)
(* their rows dearer by as much, so that one more pair is worth its prices.                     *)
LEMMA GrowKeeps ==
    ASSUME HInv, Grow
    PROVE  HInv'
  <1> DEFINE N == Cardinality(Rows)
             M == Cardinality(Columns)
  <1>1. /\ N \in Nat /\ M \in Nat /\ N <= M /\ Rows = 1..N /\ Columns = 1..M /\ Slots = 0..M
    BY Basics DEF HInv
  <1>2. Rows' = Rows /\ Columns' = Columns /\ Slots' = Slots /\ Cardinality(Rows)' = N
    BY DEF Grow, Rows, Columns, Slots
  <1>a. PICK settled : settled = used \cup {j0}
    OBVIOUS
  <1>b. PICK open : open = Columns \ settled
    OBVIOUS
  <1>c. PICK near : near = [j \in Slots |-> IF j \in open /\ Reduced(j) < minv[j] THEN Reduced(j) ELSE minv[j]]
    OBVIOUS
  <1>d. PICK delta : delta = Min({near[j] : j \in open})
    OBVIOUS
  <1>e. PICK j1 : j1 = Min({j \in open : near[j] = delta})
    OBVIOUS
  <1>3. /\ settled = used \cup {j0} /\ open = Columns \ settled
        /\ near = [j \in Slots |-> IF j \in open /\ Reduced(j) < minv[j] THEN Reduced(j) ELSE minv[j]]
        /\ delta = Min({near[j] : j \in open})
        /\ j1 = Min({j \in open : near[j] = delta})
        /\ used' = settled
        /\ way' = [j \in Slots |-> IF j \in open /\ Reduced(j) < minv[j] THEN j0 ELSE way[j]]
        /\ u' = [i \in DOMAIN u |-> u[i] + IF \E j \in settled : p[j] = i THEN delta ELSE 0]
        /\ v' = [j \in Slots |-> IF j \in settled THEN v[j] - delta ELSE v[j]]
        /\ minv' = [j \in Slots |-> IF j \in settled THEN near[j] ELSE near[j] - delta]
        /\ j0' = j1 /\ back' = (p[j1] = 0)
    BY <1>a, <1>b, <1>c, <1>d, <1>e DEF Grow
  <1>4. j0 # Nowhere /\ ~back /\ weights' = weights /\ row' = row /\ p' = p
    BY DEF Grow
  <1>5. /\ row \in 0..N /\ u \in [0..N -> Int] /\ v \in [Slots -> Int] /\ minv \in [Slots -> Int]
        /\ p \in [Slots -> 0..row] /\ way \in [Slots -> Slots] /\ used \subseteq Slots
        /\ j0 \in Slots
    BY <1>4 DEF HInv, Types
  <1>6. /\ p[0] = row /\ row # 0 /\ j0 \notin used
        /\ \A j \in settled : p[j] # 0
        /\ used = {} => j0 = 0 /\ u[row] = 0 /\ \A j \in Columns : minv[j] = INF
        /\ used # {} => Looked
    BY <1>3, <1>4 DEF HInv, Searching
  <1>7. /\ settled \subseteq Slots /\ 0 \in settled /\ j0 \in settled
        /\ open \subseteq Columns /\ open \subseteq Slots /\ settled \cap open = {}
        /\ \A j \in Columns : j \in settled \/ j \in open
    BY <1>1, <1>3, <1>5, <1>6 DEF Looked
  <1>8. /\ \A j, k \in Slots : p[j] = p[k] /\ p[j] # 0 => j = k
        /\ \A i \in 1..row : \E j \in Slots : p[j] = i
        /\ \A j \in Columns : IF p[j] = 0 THEN v[j] = 0 ELSE Left(p[j], j) = 0
    <2>1. Filled = Slots /\ Slots \cap Columns = Columns
      BY <1>1, <1>4 DEF Filled
    <2> QED
      BY <2>1 DEF HInv, Matched, Tight
  <1>9. /\ row \in Rows
        /\ \A j \in Slots : p[j] # 0 => p[j] \in Rows /\ p[j] \in 0..N
    <2>1. row \in 1..N
      BY <1>1, <1>5, <1>6
    <2>2. ASSUME NEW j \in Slots, p[j] # 0 PROVE p[j] \in 1..N
      <3>1. p[j] \in 0..row
        BY <1>5
      <3> QED
        BY <1>1, <2>1, <2>2, <3>1
    <2>3. \A x \in 1..N : x \in Rows /\ x \in 0..N
      BY <1>1
    <2> QED
      BY <2>1, <2>2, <2>3
  <1>10. Big \in Nat /\ \A i \in Rows, j \in Columns : Cost(i, j) \in 0..Big
    BY <1>9, CostsAreBounded DEF HInv
  <1>11. \A i \in Rows, j \in Columns : Left(i, j) \in Nat
    <2> SUFFICES ASSUME NEW i \in Rows, NEW j \in Columns PROVE Left(i, j) \in Nat
      OBVIOUS
    <2>1. Cost(i, j) \in Int /\ u[i] \in Int /\ v[j] \in Int
      BY <1>1, <1>5, <1>10
    <2>2. Left(i, j) >= 0
      BY DEF HInv, Prices
    <2> QED
      BY <2>1, <2>2 DEF Left
  (* A free column is open, and keeps every price above -Big.                                    *)
  <1>12. PICK free \in open : p[free] = 0
    <2>1. \A j \in Columns : p[j] # row
      BY <1>1, <1>6, <1>8
    <2>2. row \in 1..row
      BY <1>1, <1>5, <1>6
    <2>3. \A j, k \in Columns : p[j] = p[k] /\ p[j] # 0 => j = k
      BY <1>1, <1>8
    <2>4. \E j \in Columns : p[j] = 0
      BY <2>1, <2>2, <2>3, SomeColumnIsFree DEF HInv
    <2> QED
      BY <1>6, <1>7, <2>4
  <1>13. ASSUME used = {}, NEW j \in Columns PROVE Reduced(j) < INF
    <2>1. free \in Columns /\ v[free] = 0 /\ v[j] \in Int
      BY <1>1, <1>5, <1>7, <1>8, <1>12
    <2>2. 0 - v[j] <= Big
      <3>1. CASE p[j] = 0
        BY <1>8, <1>10, <3>1
      <3>2. CASE p[j] # 0
        <4>1. p[j] \in Rows /\ j \in Slots /\ Left(p[j], j) = 0 /\ Left(p[j], free) >= 0
          BY <1>1, <1>8, <1>9, <1>11, <2>1, <3>2
        <4>2. PICK x \in Int, c \in 0..Big, d \in 0..Big, y \in Int :
                x = u[p[j]] /\ c = Cost(p[j], j) /\ d = Cost(p[j], free) /\ y = v[j]
          <5>1. u[p[j]] \in Int
            BY <1>1, <1>5, <4>1
          <5>2. Cost(p[j], j) \in 0..Big /\ Cost(p[j], free) \in 0..Big
            BY <1>10, <2>1, <4>1
          <5> QED
            BY ONLY <2>1, <5>1, <5>2
        <4>3. c - x - y = 0 /\ d - x - 0 >= 0
          BY <2>1, <4>1, <4>2 DEF Left
        <4>4. 0 - y <= Big
          BY <1>10, <4>3
        <4> QED
          BY <4>2, <4>4
      <3> QED
        BY <3>1, <3>2
    <2>3. Reduced(j) = Cost(row, j) - 0 - v[j] /\ Cost(row, j) \in 0..Big
      BY <1>6, <1>9, <1>10, <1>13 DEF Reduced
    <2> QED
      BY <1>10, <2>1, <2>2, <2>3 DEF INF
  (* What the search knows of an open column after the look.                                      *)
  <1>14. ASSUME NEW j \in open
         PROVE  /\ near[j] \in Nat /\ way'[j] \in settled /\ near[j] = Left(p[way'[j]], j)
                /\ \A k \in settled : near[j] <= Left(p[k], j)
    <2>1. j \in Columns /\ j \in Slots /\ p[j0] \in Rows /\ Reduced(j) = Left(p[j0], j)
          /\ Reduced(j) \in Nat /\ minv[j] \in Int
      BY <1>5, <1>6, <1>7, <1>9, <1>11 DEF Reduced, Left
    <2>2. /\ near[j] = IF Reduced(j) < minv[j] THEN Reduced(j) ELSE minv[j]
          /\ way'[j] = IF Reduced(j) < minv[j] THEN j0 ELSE way[j]
      BY <1>3, <2>1
    <2>3. CASE used = {}
      <3>1. settled = {j0} /\ Reduced(j) < minv[j]
        BY <1>3, <1>6, <1>13, <2>1, <2>3
      <3> QED
        BY <2>1, <2>2, <3>1
    <2>4. CASE used # {}
      <3>1. /\ way[j] \in used /\ minv[j] = Left(p[way[j]], j)
            /\ \A k \in used : minv[j] <= Left(p[k], j)
        BY <1>3, <1>6, <2>1, <2>4 DEF Looked
      <3>2. \A k \in settled : p[k] \in Rows /\ Left(p[k], j) \in Nat
        BY <1>6, <1>7, <1>9, <1>11, <2>1
      <3>3. CASE Reduced(j) < minv[j]
        <4>1. near[j] = Reduced(j) /\ way'[j] = j0
          BY <2>2, <3>3
        <4>2. ASSUME NEW k \in settled PROVE near[j] <= Left(p[k], j)
          <5>1. CASE k = j0
            BY <2>1, <4>1, <5>1
          <5>2. CASE k # j0
            BY <1>3, <2>1, <3>1, <3>2, <3>3, <4>1, <5>2
          <5> QED
            BY <5>1, <5>2
        <4> QED
          BY <1>7, <2>1, <4>1, <4>2
      <3>4. CASE ~(Reduced(j) < minv[j])
        <4>1. near[j] = minv[j] /\ way'[j] = way[j] /\ way[j] \in settled
          BY <1>3, <2>2, <3>1, <3>4
        <4>2. ASSUME NEW k \in settled PROVE near[j] <= Left(p[k], j)
          <5>1. CASE k = j0
            BY <2>1, <3>4, <4>1, <5>1
          <5>2. CASE k # j0
            BY <1>3, <3>1, <4>1, <5>2
          <5> QED
            BY <5>1, <5>2
        <4> QED
          BY <3>1, <3>2, <4>1, <4>2
      <3> QED
        BY <3>3, <3>4
    <2> QED
      BY <2>3, <2>4
  <1>15. delta \in Nat /\ \A j \in open : delta <= near[j]
    <2> DEFINE S == {near[j] : j \in open}
               f == [j \in open |-> near[j]]
    <2>1. f \in Surjection(open, S)
      BY DEF Surjection
    <2>2. IsFiniteSet(open)
      <3>1. IsFiniteSet(Columns)
        BY <1>1, FS_Interval
      <3> QED
        BY <1>7, <3>1, FS_Subset
    <2>3. S \subseteq Nat /\ S \subseteq Int /\ S # {}
      BY <1>12, <1>14
    <2>4. \A j \in open : near[j] \in S
      OBVIOUS
    <2>5. delta = Min(S)
      BY <1>3
    <2> HIDE DEF S, f
    <2>6. IsFiniteSet(S)
      BY <2>1, <2>2, FS_Surjection
    <2>7. Min(S) \in S /\ \A y \in S : Min(S) <= y
      BY <2>3, <2>6, HasExtremes
    <2> QED
      BY <2>3, <2>4, <2>5, <2>7
  <1>16. j1 \in open /\ near[j1] = delta
    <2> DEFINE S == {near[j] : j \in open}
               f == [j \in open |-> near[j]]
               T == {j \in open : near[j] = delta}
    <2>0. IsFiniteSet(open)
      <3>1. IsFiniteSet(Columns)
        BY <1>1, FS_Interval
      <3> QED
        BY <1>7, <3>1, FS_Subset
    <2>1. delta \in S
      <3>1. f \in Surjection(open, S)
        BY DEF Surjection
      <3>2. S \subseteq Int /\ S # {}
        BY <1>12, <1>14
      <3>3. delta = Min(S)
        BY <1>3
      <3> HIDE DEF S, f
      <3>4. IsFiniteSet(S)
        BY <2>0, <3>1, FS_Surjection
      <3> QED
        BY <3>2, <3>3, <3>4, HasExtremes
    <2>2. T # {} /\ T \subseteq Int /\ T \subseteq open
      <3>1. T \subseteq open /\ open \subseteq Int
        BY <1>1, <1>7
      <3>2. \E j \in open : near[j] = delta
        BY <2>1
      <3> QED
        BY <3>1, <3>2
    <2>3. j1 = Min(T)
      BY <1>3
    <2>4. IsFiniteSet(T)
      BY <2>0, <2>2, FS_Subset
    <2>5. Min(T) \in T
      <3> HIDE DEF T
      <3> QED
        BY <2>2, <2>4, HasExtremes
    <2> QED
      BY <2>3, <2>5

  (* The prices after the look.                                                                   *)
  <1>17. ASSUME NEW i \in Rows, NEW j \in Columns
         PROVE  /\ u'[i] = u[i] + (IF \E k \in settled : p[k] = i THEN delta ELSE 0)
                /\ v'[j] = v[j] - (IF j \in settled THEN delta ELSE 0)
                /\ Left(i, j)' = Left(i, j) - (IF \E k \in settled : p[k] = i THEN delta ELSE 0)
                                            + (IF j \in settled THEN delta ELSE 0)
    <2>1. i \in DOMAIN u /\ j \in Slots /\ u[i] \in Int /\ v[j] \in Int /\ Cost(i, j) \in Int
      <3>1. i \in 0..N /\ j \in Slots /\ Cost(i, j) \in Int
        BY <1>1, <1>10
      <3> QED
        BY <1>5, <3>1
    <2>2. u'[i] = u[i] + IF \E k \in settled : p[k] = i THEN delta ELSE 0
      BY <1>3, <2>1
    <2>3. v'[j] = IF j \in settled THEN v[j] - delta ELSE v[j]
      BY <1>3, <2>1
    <2>4. Left(i, j)' = Cost(i, j) - u'[i] - v'[j]
      BY <1>2, <1>4 DEF Left, Cost, Big, Rows
    <2>5. Left(i, j) = Cost(i, j) - u[i] - v[j]
      BY DEF Left
    <2> DEFINE a == IF \E k \in settled : p[k] = i THEN delta ELSE 0
               b == IF j \in settled THEN delta ELSE 0
    <2>6. a \in Nat /\ b \in Nat /\ u'[i] = u[i] + a /\ v'[j] = v[j] - b
      BY <1>15, <2>1, <2>2, <2>3
    <2> HIDE DEF a, b
    <2>7. Left(i, j)' = Left(i, j) - a + b
      BY <2>1, <2>4, <2>5, <2>6
    <2> QED
      BY <2>6, <2>7 DEF a, b
  <1>18. ASSUME NEW k \in settled, NEW j \in Columns
         PROVE  Left(p[k], j)' = IF j \in settled THEN Left(p[k], j) ELSE Left(p[k], j) - delta
    <2>1. PICK i \in Rows : i = p[k]
      BY <1>6, <1>7, <1>9
    <2>2. Left(p[k], j)' = Left(i, j)'
      BY <1>4, <2>1 DEF Left, Cost, Big, Rows
    <2>3. Left(i, j)' = Left(i, j) - delta + (IF j \in settled THEN delta ELSE 0)
      BY <1>17, <2>1
    <2>4. Left(i, j) \in Int /\ delta \in Int
      BY <1>11, <1>15
    <2> QED
      BY <2>1, <2>2, <2>3, <2>4
  <1>19. Prices'
    <2>1. ASSUME NEW i \in Rows, NEW j \in Columns PROVE Left(i, j)' >= 0
      <3>1. Left(i, j) \in Nat /\ delta \in Nat
        BY <1>11, <1>15
      <3>2. CASE \E k \in settled : p[k] = i
        <4>1. PICK k \in settled : p[k] = i
          BY <3>2
        <4>2. CASE j \in settled
          BY <1>17, <3>1, <3>2, <4>2
        <4>3. CASE j \notin settled
          <5>1. j \in open /\ delta <= near[j] /\ near[j] <= Left(i, j) /\ near[j] \in Nat
            BY <1>7, <1>14, <1>15, <4>1, <4>3
          <5>2. Left(i, j)' = Left(i, j) - delta + 0
            BY <1>17, <3>2, <4>3
          <5> QED
            BY <3>1, <5>1, <5>2
        <4> QED
          BY <4>2, <4>3
      <3>3. CASE ~ \E k \in settled : p[k] = i
        <4>1. Left(i, j)' = Left(i, j) - 0 + (IF j \in settled THEN delta ELSE 0)
          BY <1>17, <3>3
        <4> QED
          BY <3>1, <4>1
      <3> QED
        BY <3>2, <3>3
    <2>2. ASSUME NEW j \in Columns PROVE v'[j] <= 0
      <3>1. v[j] \in Int /\ v[j] <= 0 /\ delta \in Nat
        BY <1>1, <1>5, <1>15 DEF HInv, Prices
      <3>2. v'[j] = v[j] - (IF j \in settled THEN delta ELSE 0)
        BY <1>9, <1>17
      <3> QED
        BY <3>1, <3>2
    <2>3. ASSUME NEW i \in Rows, i > row PROVE u'[i] = 0
      <3>1. ~ \E k \in settled : p[k] = i
        <4>1. \A k \in settled : p[k] \in 0..row
          BY <1>5, <1>7
        <4> QED
          BY <1>1, <1>5, <2>3, <4>1
      <3>2. row \in Columns
        BY <1>1, <1>9
      <3>3. u'[i] = u[i] + 0
        BY <1>17, <3>1, <3>2
      <3>4. u[i] = 0
        BY <2>3 DEF HInv, Prices
      <3> QED
        BY <3>3, <3>4
    <2> QED
      BY <1>2, <1>4, <2>1, <2>2, <2>3 DEF Prices
  <1>20. Sizes'
    BY <1>2, <1>4 DEF HInv, Sizes
  <1>21. Types'
    <2>1. near \in [Slots -> Int]
      <3>1. ASSUME NEW j \in Slots PROVE near[j] \in Int
        <4>1. CASE j \in open
          BY <1>14, <4>1
        <4>2. CASE j \notin open
          <5>1. near[j] = minv[j]
            BY <1>3, <4>2
          <5> QED
            BY <1>5, <5>1
        <4> QED
          BY <4>1, <4>2
      <3>2. near = [j \in Slots |-> near[j]]
        BY <1>3
      <3> QED
        BY <3>1, <3>2
    <2>2. DOMAIN u = 0..N
      BY <1>5
    <2>3. u' \in [0..N -> Int] /\ v' \in [Slots -> Int] /\ minv' \in [Slots -> Int]
      <3>1. \A i \in 0..N : u[i] + (IF \E j \in settled : p[j] = i THEN delta ELSE 0) \in Int
        <4>1. delta \in Int /\ \A i \in 0..N : u[i] \in Int
          <5>1. delta \in Int
            BY <1>15
          <5>2. \A i \in 0..N : u[i] \in Int
            BY <1>5
          <5> QED
            BY <5>1, <5>2
        <4>2. \A i \in 0..N : (IF \E j \in settled : p[j] = i THEN delta ELSE 0) \in Int
          BY <4>1
        <4> QED
          BY <4>1, <4>2
      <3>2. \A j \in Slots : /\ (IF j \in settled THEN v[j] - delta ELSE v[j]) \in Int
                             /\ (IF j \in settled THEN near[j] ELSE near[j] - delta) \in Int
        BY <1>5, <1>15, <2>1
      <3> QED
        BY <1>3, <2>2, <3>1, <3>2
    <2>4. way' \in [Slots -> Slots]
      BY <1>3, <1>5
    <2>5. j0' \in Slots /\ j0' # Nowhere
      <3>1. j1 \in Nat
        BY <1>1, <1>7, <1>16
      <3> QED
        BY <1>3, <1>7, <1>16, <3>1 DEF Nowhere
    <2>6. back' \in BOOLEAN /\ used' \subseteq Slots
      BY <1>3, <1>7
    <2> QED
      BY <1>2, <1>4, <1>5, <2>3, <2>4, <2>5, <2>6 DEF Types
  <1>22. ASSUME NEW j \in Columns PROVE (IF p[j] = 0 THEN v[j] = 0 ELSE Tight(p[j], j))'
    <2>1. CASE p[j] = 0
      <3>1. j \notin settled /\ v[j] = 0
        BY <1>6, <1>8, <2>1
      <3>2. v'[j] = v[j] - 0
        BY <1>9, <1>17, <3>1
      <3> QED
        BY <1>4, <2>1, <3>1, <3>2
    <2>2. CASE p[j] # 0
      <3>1. PICK i \in Rows : i = p[j]
        BY <1>1, <1>9, <2>2
      <3>2. Left(i, j) = 0
        BY <1>8, <2>2, <3>1
      <3>3. (\E k \in settled : p[k] = i) <=> j \in settled
        BY <1>1, <1>7, <1>8, <2>2, <3>1
      <3>4. Left(i, j)' = 0
        BY <1>15, <1>17, <3>2, <3>3
      <3>5. Left(p[j], j)' = Left(i, j)'
        BY <1>4, <3>1 DEF Left, Cost, Big, Rows
      <3> QED
        BY <1>4, <2>2, <3>4, <3>5 DEF Tight
    <2> QED
      BY <2>1, <2>2
  <1>23. Matched'
    <2>1. \A j, k \in Slots : p'[j] = p'[k] /\ p'[j] # 0 => j = k
      BY <1>4, <1>8
    <2>2. ASSUME NEW i \in 1..row PROVE \E j \in Slots : p'[j] = i /\ (back' => j # j1)
      <3>1. PICK j \in Slots : p[j] = i
        BY <1>8
      <3>2. i # 0
        BY <1>1, <1>5
      <3>3. back' => j # j1
        BY <1>3, <3>1, <3>2
      <3> QED
        BY <1>4, <3>1, <3>3
    <2>3. Filled' = IF back' THEN Slots \ {j1} ELSE Slots
      <3>1. j1 \in Nat
        BY <1>1, <1>7, <1>16
      <3> QED
        BY <1>2, <1>3, <3>1 DEF Filled, Nowhere
    <2>4. \A i \in 1..row : \E j \in Filled' : p'[j] = i
      BY <2>2, <2>3
    <2>5. Filled' \subseteq Slots
      BY <2>3
    <2> QED
      BY <1>2, <1>4, <1>22, <2>1, <2>4, <2>5 DEF Matched

  (* The way of every settled column, and of the one that comes next.                              *)
  <1>24. PICK rank \in [Slots -> Nat] :
           /\ \A j \in used : rank[j] < rank[j0]
           /\ \A j \in settled \ {0} : Follows(rank, j)
    BY <1>3, <1>4 DEF HInv, Searching
  <1>25. PICK rank1 : rank1 = [rank EXCEPT ![j1] = rank[j0] + 1]
    OBVIOUS
  <1>26. /\ rank1 \in [Slots -> Nat] /\ rank1[j1] = rank[j0] + 1 /\ j1 \notin settled
         /\ \A j \in settled : rank1[j] = rank[j] /\ rank[j] \in Nat /\ rank1[j] < rank1[j1]
    <2>1. j1 \in Slots /\ rank[j0] \in Nat /\ j1 \notin settled
      BY <1>5, <1>7, <1>16, <1>24
    <2>2. \A j \in settled : rank[j] \in Nat /\ rank[j] <= rank[j0]
      BY <1>3, <1>7, <1>24
    <2>3. rank1 \in [Slots -> Nat] /\ rank1[j1] = rank[j0] + 1
      BY <1>24, <1>25, <2>1
    <2>4. \A j \in settled : rank1[j] = rank[j]
      BY <1>7, <1>24, <1>25, <2>1
    <2> QED
      BY <2>1, <2>2, <2>3, <2>4
  <1>27. ASSUME NEW j \in (settled \cup {j1}) \ {0} PROVE Follows(rank1, j)'
    <2>1. CASE j \in settled
      <3>1. way[j] \in used /\ rank[way[j]] < rank[j] /\ Left(p[way[j]], j) = 0
        BY <1>24, <1>27, <2>1 DEF Follows, Tight
      <3>2. j \in Slots /\ j \in Columns /\ j \notin open /\ way'[j] = way[j] /\ way[j] \in settled
        BY <1>1, <1>3, <1>7, <1>27, <2>1, <3>1
      <3>3. PICK k \in settled : k = way[j]
        BY <3>2
      <3>4. Left(p[k], j)' = 0
        BY <1>18, <2>1, <3>1, <3>2, <3>3
      <3>5. Left(p[way[j]], j)' = Left(p[k], j)'
        BY <3>2, <3>3 DEF Left, Cost, Big, Rows
      <3>6. rank1[k] < rank1[j]
        BY <1>26, <2>1, <3>1, <3>3
      <3> QED
        BY <1>3, <3>2, <3>3, <3>4, <3>5, <3>6 DEF Follows, Tight
    <2>2. CASE j = j1
      <3>1. j \in open /\ j \in Columns /\ j \notin settled
        BY <1>7, <1>16, <2>2
      <3>2. PICK k \in settled : k = way'[j] /\ near[j] = Left(p[k], j)
        <4>1. PICK k \in settled : k = way'[j]
          BY <1>14, <3>1
        <4>2. near[j] = Left(p[k], j)
          BY <1>14, <3>1, <4>1
        <4> QED
          BY <4>1, <4>2
      <3>3. Left(p[k], j)' = 0
        BY <1>15, <1>16, <1>18, <2>2, <3>1, <3>2
      <3>4. Left(p[way[j]], j)' = Left(p[k], j)'
        BY <3>2 DEF Left, Cost, Big, Rows
      <3>5. rank1[k] < rank1[j]
        BY <1>26, <2>2
      <3> QED
        BY <1>3, <3>2, <3>3, <3>4, <3>5 DEF Follows, Tight
    <2> QED
      BY <2>1, <2>2
  <1>28. \A j \in settled : p'[j] # 0
    BY <1>4, <1>6
  <1>29. Returning'
    <2> SUFFICES ASSUME back' PROVE Returning'
      BY Zenon DEF Returning
    <2>1. j0' = j1 /\ j1 \in Columns /\ j1 # 0 /\ used' = settled
      BY <1>1, <1>3, <1>7, <1>16
    <2>2. Follows(rank1, j0)'
      <3>1. Follows(rank1, j1)'
        BY <1>27, <2>1
      <3> QED
        BY <2>1, <3>1 DEF Follows, Tight, Left, Cost, Big, Rows
    <2>3. \A j \in used' : rank1[j] < rank1[j0'] => p'[j] # 0 /\ (j # 0 => Follows(rank1, j)')
      BY <1>27, <1>28, <2>1
    <2> QED
      BY <1>2, <1>26, <2>1, <2>2, <2>3 DEF Returning
  <1>30. Searching'
    <2> SUFFICES ASSUME ~back' PROVE Searching'
      BY Zenon DEF Searching
    <2>1. j0' = j1 /\ j1 \in Columns /\ j1 # 0 /\ used' = settled /\ j1 \notin settled /\ p[j1] # 0
      BY <1>1, <1>3, <1>7, <1>16, Zenon
    <2>2. ASSUME NEW j \in Columns \ settled
          PROVE  /\ way'[j] \in settled /\ minv'[j] = Left(p[way[j]], j)'
                 /\ \A k \in settled : minv'[j] <= Left(p[k], j)'
      <3>1. j \in open /\ j \in Slots
        BY <1>7
      <3>2. minv'[j] = near[j] - delta
        BY <1>3, <3>1
      <3>3. near[j] \in Int /\ delta \in Int
        BY <1>14, <1>15, <3>1
      <3>4. PICK l \in settled : l = way'[j]
        BY <1>14, <3>1
      <3>5. near[j] = Left(p[l], j)
        BY <1>14, <3>1, <3>4
      <3>6. Left(p[l], j)' = Left(p[l], j) - delta
        BY <1>18
      <3>7. Left(p[way[j]], j)' = Left(p[l], j)'
        BY <3>4 DEF Left, Cost, Big, Rows
      <3>8. ASSUME NEW k \in settled PROVE minv'[j] <= Left(p[k], j)'
        <4>1. near[j] <= Left(p[k], j) /\ Left(p[k], j)' = Left(p[k], j) - delta
          BY <1>14, <1>18, <3>1
        <4>2. Left(p[k], j) \in Int
          BY <1>6, <1>7, <1>9, <1>11
        <4> QED
          BY <3>2, <3>3, <4>1, <4>2
      <3> QED
        BY <3>2, <3>4, <3>5, <3>6, <3>7, <3>8
    <2>3. Looked'
      BY <1>2, <1>7, <2>1, <2>2 DEF Looked
    <2>4. p'[0] = row' /\ row' # 0 /\ j0' \notin used' /\ \A j \in used' \cup {j0'} : p'[j] # 0
      BY <1>4, <1>6, <1>28, <2>1
    <2>5. used' # {}
      BY <1>7, <2>1
    <2>6. /\ \A j \in used' : rank1[j] < rank1[j0']
          /\ \A j \in (used' \cup {j0'}) \ {0} : Follows(rank1, j)'
      BY <1>26, <1>27, <2>1
    <2> QED
      BY <1>2, <1>26, <2>3, <2>4, <2>5, <2>6 DEF Searching
  <1> QED
    BY <1>19, <1>20, <1>21, <1>23, <1>29, <1>30 DEF HInv

-----------------------------------------------------------------------------
(* What is matched.  A sequence is a function on an interval.                                     *)
LEMMA SequencesAreFunctions ==
    ASSUME NEW T, NEW s \in Seq(T)
    PROVE  DOMAIN s = 1..Len(s) /\ Len(s) \in Nat /\ s \in [1..Len(s) -> T]
  <1>1. DOMAIN s = 1..Len(s)
    OBVIOUS
  <1>2. Len(s) \in Nat
    OBVIOUS
  <1>3. \A i \in 1..Len(s) : s[i] \in T
    OBVIOUS
  <1>4. s = [i \in 1..Len(s) |-> s[i]]
    OBVIOUS
  <1> QED
    BY <1>1, <1>2, <1>3, <1>4

(* A list of turns has finitely many, of finitely many speakers. *)
LEMMA TurnsAreFinite ==
    ASSUME NEW turns, IsTurns(turns)
    PROVE  /\ IsFiniteSet(Range(turns)) /\ \A t \in Range(turns) : t.end \in Nat
           /\ IsFiniteSet({t.speaker : t \in Range(turns)})
  <1> DEFINE S == {t.speaker : t \in Range(turns)}
             f == [t \in Range(turns) |-> t.speaker]
  <1>1. DOMAIN turns = 1..Len(turns) /\ Len(turns) \in Nat
        /\ turns \in [1..Len(turns) -> [speaker : Int, start : Nat, end : Nat]]
    BY SequencesAreFunctions DEF IsTurns
  <1>2. turns \in Surjection(DOMAIN turns, Range(turns))
    BY <1>1 DEF Surjection, Range
  <1>3. IsFiniteSet(Range(turns))
    <2>1. IsFiniteSet(DOMAIN turns)
      BY <1>1, FS_Interval
    <2> QED
      BY <1>2, <2>1, FS_Surjection
  <1>4. f \in Surjection(Range(turns), S)
    BY DEF Surjection
  <1>5. IsFiniteSet(S)
    <2> HIDE DEF f, S
    <2> QED
      BY <1>3, <1>4, FS_Surjection
  <1>6. \A t \in Range(turns) : t.end \in Nat
    BY <1>1 DEF Range
  <1> QED
    BY <1>3, <1>5, <1>6

-----------------------------------------------------------------------------
(* Labels.  A part of a finite set that misses an element is smaller.                    *)
LEMMA SmallerPart ==
    ASSUME NEW S, IsFiniteSet(S), NEW T, T \subseteq S, NEW x \in S, x \notin T
    PROVE  Cardinality(T) \in Nat /\ Cardinality(S) \in Nat /\ Cardinality(T) < Cardinality(S)
  <1>1. IsFiniteSet(T) /\ Cardinality(T) <= Cardinality(S) /\ (Cardinality(S) = Cardinality(T) => S = T)
    BY FS_Subset
  <1>2. Cardinality(T) \in Nat /\ Cardinality(S) \in Nat
    BY <1>1, FS_CardinalityType
  <1> QED
    BY <1>1, <1>2

(* A strict total order, and that its elements have all the ranks there are.            *)
IsOrder(S, R) ==
    /\ \A x, y \in S : x = y \/ <<x, y>> \in R \/ <<y, x>> \in R
    /\ \A x \in S : <<x, x>> \notin R
    /\ \A x, y, z \in S : <<x, y>> \in R /\ <<y, z>> \in R => <<x, z>> \in R
RanksFilled(S, R) ==
    \A i \in 1..Cardinality(S) : \E x \in S : Cardinality({y \in S : <<y, x>> \in R}) = i - 1

(* Every such order of a finite set has them. *)
LEMMA OrdersAreFilled ==
    ASSUME NEW S, IsFiniteSet(S), NEW R, IsOrder(S, R)
    PROVE  RanksFilled(S, R)
  <1> DEFINE Below(x) == {y \in S : <<y, x>> \in R}
             Ranks == 0..Cardinality(S) - 1
             rank == [x \in S |-> Cardinality(Below(x))]
  <1>1. Cardinality(S) \in Nat
    BY FS_CardinalityType
  <1>2. \A x \in S : Below(x) \subseteq S /\ x \notin Below(x)
    <2>1. \A x \in S : <<x, x>> \notin R
      BY DEF IsOrder
    <2> SUFFICES ASSUME NEW x \in S PROVE Below(x) \subseteq S /\ x \notin Below(x)
      OBVIOUS
    <2> QED
      BY <2>1
  <1>3. ASSUME NEW x \in S, NEW y \in S, <<x, y>> \in R
        PROVE  Cardinality(Below(x)) < Cardinality(Below(y)) /\ Cardinality(Below(x)) \in Nat
    <2>1. Below(x) \subseteq Below(y) /\ x \in Below(y) /\ x \notin Below(x)
      BY <1>3 DEF IsOrder
    <2>2. IsFiniteSet(Below(y))
      BY <1>2, FS_Subset
    <2> HIDE DEF Below
    <2> QED
      BY <2>1, <2>2, SmallerPart
  <1>4. rank \in [S -> Ranks]
    <2>1. ASSUME NEW x \in S PROVE Cardinality(Below(x)) \in Ranks
      <3> HIDE DEF Below
      <3>1. Cardinality(Below(x)) \in Nat /\ Cardinality(Below(x)) < Cardinality(S)
        BY <1>2, SmallerPart
      <3> QED
        BY <1>1, <3>1
    <2> HIDE DEF Below, Ranks
    <2> QED
      BY <2>1
  <1>5. \A x, y \in S : rank[x] = rank[y] => x = y
    <2> SUFFICES ASSUME NEW x \in S, NEW y \in S, rank[x] = rank[y], x # y PROVE FALSE
      OBVIOUS
    <2>1. Cardinality(Below(x)) = Cardinality(Below(y))
      OBVIOUS
    <2>2. CASE <<x, y>> \in R
      <3> HIDE DEF Below
      <3> QED
        BY <1>3, <2>1, <2>2
    <2>3. CASE <<y, x>> \in R
      <3> HIDE DEF Below
      <3> QED
        BY <1>3, <2>1, <2>3
    <2> QED
      BY <2>2, <2>3 DEF IsOrder
  <1>6. rank \in Injection(S, Ranks)
    <2> HIDE DEF rank, Ranks
    <2> QED
      BY <1>4, <1>5 DEF Injection, IsInjective
  <1>7. IsFiniteSet(Ranks) /\ Cardinality(Ranks) = Cardinality(S)
    <2>1. PICK n \in Nat : n = Cardinality(S)
      BY <1>1
    <2>2. IsFiniteSet(0..n - 1) /\ Cardinality(0..n - 1) = n
      <3>1. 0 \in Int /\ n - 1 \in Int /\ (IF 0 > n - 1 THEN 0 ELSE (n - 1) - 0 + 1) = n
        OBVIOUS
      <3> QED
        BY <3>1, FS_Interval
    <2> QED
      BY <2>1, <2>2
  <1>8. rank \in Surjection(S, Ranks)
    <2> HIDE DEF rank, Ranks
    <2> QED
      BY <1>6, <1>7, FS_Injection
  <1>9. ASSUME NEW i \in 1..Cardinality(S) PROVE \E x \in S : Cardinality(Below(x)) = i - 1
    <2>1. i - 1 \in Ranks
      BY <1>1
    <2>2. PICK x \in S : rank[x] = i - 1
      <3> HIDE DEF rank, Ranks
      <3> QED
        BY <1>8, <2>1 DEF Surjection
    <2> HIDE DEF Below
    <2> QED
      BY <2>2
  <1> QED
    BY <1>9 DEF RanksFilled

(* What is put in order by its ranks is in order, and all there.                                       *)
InOrder(S, R, f) ==
    /\ \A x \in S : \E i \in DOMAIN f : f[i] = x
    /\ \A i, j \in DOMAIN f : i < j => <<f[i], f[j]>> \in R

(* A list in which every element has its rank is in order. *)
LEMMA RanksSort ==
    ASSUME NEW S, IsFiniteSet(S), NEW R, IsOrder(S, R),
           NEW f \in [1..Cardinality(S) -> S],
           \A i \in 1..Cardinality(S) : Cardinality({y \in S : <<y, f[i]>> \in R}) = i - 1
    PROVE  InOrder(S, R, f)
  <1> DEFINE Below(x) == {y \in S : <<y, x>> \in R}
  <1>1. Cardinality(S) \in Nat
    BY FS_CardinalityType
  <1>2. \A x \in S : Below(x) \subseteq S /\ x \notin Below(x)
    <2>1. \A x \in S : <<x, x>> \notin R
      BY DEF IsOrder
    <2> SUFFICES ASSUME NEW x \in S PROVE Below(x) \subseteq S /\ x \notin Below(x)
      OBVIOUS
    <2> QED
      BY <2>1
  <1>3. ASSUME NEW x \in S, NEW y \in S, <<x, y>> \in R
        PROVE  Cardinality(Below(x)) < Cardinality(Below(y))
    <2>1. Below(x) \subseteq Below(y) /\ x \in Below(y) /\ x \notin Below(x)
      BY <1>3 DEF IsOrder
    <2>2. IsFiniteSet(Below(y))
      BY <1>2, FS_Subset
    <2> HIDE DEF Below
    <2> QED
      BY <2>1, <2>2, SmallerPart
  <1>4. \A x \in S : Cardinality(Below(x)) \in Nat /\ Cardinality(Below(x)) < Cardinality(S)
    <2> HIDE DEF Below
    <2> QED
      BY <1>2, SmallerPart
  <1>5. \A i \in 1..Cardinality(S) : f[i] \in S /\ Cardinality(Below(f[i])) = i - 1
    OBVIOUS
  <1>6. ASSUME NEW x \in S PROVE \E i \in 1..Cardinality(S) : f[i] = x
    <2>1. PICK i \in 1..Cardinality(S) : Cardinality(Below(x)) = i - 1
      <3> HIDE DEF Below
      <3>1. PICK r \in Nat : r = Cardinality(Below(x)) /\ r < Cardinality(S)
        BY <1>4
      <3>2. PICK i \in Int : i = r + 1
        OBVIOUS
      <3>3. i \in 1..Cardinality(S) /\ r = i - 1
        BY <1>1, <3>1, <3>2
      <3> QED
        BY <3>1, <3>3
    <2>2. Cardinality(Below(x)) = Cardinality(Below(f[i])) /\ f[i] \in S
      BY <1>5, <2>1
    <2>3. <<x, f[i]>> \notin R /\ <<f[i], x>> \notin R
      <3> HIDE DEF Below
      <3> QED
        BY <1>3, <1>4, <2>2
    <2> QED
      BY <2>2, <2>3 DEF IsOrder
  <1>7. ASSUME NEW i \in 1..Cardinality(S), NEW j \in 1..Cardinality(S), i < j PROVE <<f[i], f[j]>> \in R
    <2> HIDE DEF Below
    <2>1. f[i] \in S /\ f[j] \in S /\ Cardinality(Below(f[i])) = i - 1 /\ Cardinality(Below(f[j])) = j - 1
      BY <1>5
    <2>2. Cardinality(Below(f[i])) < Cardinality(Below(f[j]))
      BY <1>1, <1>7, <2>1
    <2>3. f[i] # f[j] /\ <<f[j], f[i]>> \notin R
      BY <1>3, <1>4, <2>1, <2>2
    <2> QED
      BY <2>1, <2>3 DEF IsOrder
  <1> QED
    BY <1>6, <1>7 DEF InOrder

(* Pairs of numbers, the earlier first.                                                                 *)
EarlierIn(S) == {z \in S \X S : Earlier(z[1], z[2])}

(* Pairs of numbers put in order are in order. *)
LEMMA EarlierSorts ==
    ASSUME NEW S, IsFiniteSet(S), S \subseteq Int \X Int
    PROVE  /\ Ordered(S, Earlier) \in [1..Cardinality(S) -> S] /\ Cardinality(S) \in Nat
           /\ InOrder(S, EarlierIn(S), Ordered(S, Earlier))
  <1> DEFINE R == EarlierIn(S)
             At(i) == CHOOSE x \in S : Cardinality({y \in S : Earlier(y, x)}) = i - 1
             f == Ordered(S, Earlier)
  <1>1. \A x \in S : x[1] \in Int /\ x[2] \in Int /\ x = <<x[1], x[2]>>
    OBVIOUS
  <1>2. \A x, y \in S : <<x, y>> \in R <=> Earlier(x, y)
    BY DEF EarlierIn
  <1>3. \A x, y \in S : x = y \/ <<x, y>> \in R \/ <<y, x>> \in R
    <2>1. \A x, y \in S : x = y \/ Earlier(x, y) \/ Earlier(y, x)
      BY <1>1 DEF Earlier
    <2> QED
      BY <1>2, <2>1
  <1>4. \A x \in S : <<x, x>> \notin R
    <2>1. \A x \in S : ~Earlier(x, x)
      BY <1>1 DEF Earlier
    <2> QED
      BY <1>2, <2>1
  <1>5. \A x, y, z \in S : <<x, y>> \in R /\ <<y, z>> \in R => <<x, z>> \in R
    <2>1. \A x, y, z \in S : Earlier(x, y) /\ Earlier(y, z) => Earlier(x, z)
      BY <1>1 DEF Earlier
    <2> QED
      BY <1>2, <2>1
  <1> HIDE DEF R
  <1>6. IsOrder(S, R) /\ RanksFilled(S, R)
    <2>1. IsOrder(S, R)
      BY <1>3, <1>4, <1>5 DEF IsOrder
    <2> QED
      BY <2>1, OrdersAreFilled
  <1>7. \A x \in S : {y \in S : <<y, x>> \in R} = {y \in S : Earlier(y, x)}
    BY <1>2
  <1>8. \A i \in 1..Cardinality(S) : At(i) \in S /\ Cardinality({y \in S : Earlier(y, At(i))}) = i - 1
    <2> SUFFICES ASSUME NEW i \in 1..Cardinality(S)
                 PROVE  \E x \in S : Cardinality({y \in S : Earlier(y, x)}) = i - 1
      OBVIOUS
    <2> QED
      BY <1>6, <1>7 DEF RanksFilled
  <1>9. f = [i \in 1..Cardinality(S) |-> At(i)]
    BY DEF Ordered
  <1> HIDE DEF At, f
  <1>10. f \in [1..Cardinality(S) -> S]
    BY <1>8, <1>9
  <1>11. \A i \in 1..Cardinality(S) : Cardinality({y \in S : <<y, f[i]>> \in R}) = i - 1
    BY <1>7, <1>8, <1>9
  <1>12. InOrder(S, R, f)
    BY <1>6, <1>10, <1>11, RanksSort
  <1> QED
    BY <1>10, <1>12, FS_CardinalityType DEF f, R

(* What is put in order is a list of what was there.                                    *)
LEMMA EarlierOrders ==
    ASSUME NEW S, IsFiniteSet(S), NEW n, NEW A, A \subseteq Int, S \subseteq (1..n) \X A, n \in Nat
    PROVE  Ordered(S, Earlier) \in Seq(S)
  <1>1. S \subseteq Int \X Int
    <2>1. 1..n \subseteq Int
      OBVIOUS
    <2> QED
      BY <2>1
  <1>2. PICK f : f = Ordered(S, Earlier)
    OBVIOUS
  <1>3. f \in [1..Cardinality(S) -> S] /\ Cardinality(S) \in Nat
    BY <1>1, <1>2, EarlierSorts
  <1> QED
    BY <1>2, <1>3

-----------------------------------------------------------------------------
(* Labels by their first embedding say who is alike, and nothing else.                  *)
LEMMA FirstSeenIsLabels ==
    ASSUME NEW g, NEW D, D \subseteq Int, IsFiniteSet(D), DOMAIN g = D
    PROVE  /\ DOMAIN FirstSeen(g) = D
           /\ \A i \in D : FirstSeen(g)[i] \in Nat /\ FirstSeen(g)[i] < Cardinality(D)
           /\ \A i, j \in D : FirstSeen(g)[i] = FirstSeen(g)[j] <=> g[i] = g[j]
  <1> DEFINE Before(i) == {j \in Firsts(g) : \A k \in Alike(g, i) : j < k}
  <1>1. \A i \in D : FirstSeen(g)[i] = Cardinality(Before(i))
    BY DEF FirstSeen
  <1>2. Firsts(g) \subseteq D /\ \A i \in D : Before(i) \subseteq D /\ i \notin Before(i) /\ i \in Alike(g, i)
    BY DEF Firsts, Alike
  <1>3. \A i \in D : IsFiniteSet(Before(i)) /\ Cardinality(Before(i)) \in Nat /\ Cardinality(Before(i)) < Cardinality(D)
    <2> HIDE DEF Before
    <2> QED
      BY <1>2, SmallerPart, FS_Subset
  (* The first of a class.                                                               *)
  <1>4. \A i \in D : \E f \in Alike(g, i) : \A j \in Alike(g, i) : f <= j
    <2> SUFFICES ASSUME NEW i \in D PROVE \E f \in Alike(g, i) : \A j \in Alike(g, i) : f <= j
      OBVIOUS
    <2>1. Alike(g, i) \subseteq D /\ Alike(g, i) # {}
      BY DEF Alike
    <2>2. IsFiniteSet(Alike(g, i)) /\ Alike(g, i) \subseteq Int
      BY <2>1, FS_Subset
    <2> QED
      BY <2>1, <2>2, HasExtremes
  <1>5. ASSUME NEW i \in D, NEW j \in D, g[i] = g[j] PROVE Before(i) = Before(j)
    <2>1. Alike(g, i) = Alike(g, j)
      BY <1>5 DEF Alike
    <2> QED
      BY <2>1
  <1>6. ASSUME NEW i \in D, NEW j \in D, g[i] # g[j],
               NEW e \in Alike(g, i), \A k \in Alike(g, i) : e <= k,
               NEW f \in Alike(g, j), \A k \in Alike(g, j) : f <= k, e < f
        PROVE  Cardinality(Before(i)) # Cardinality(Before(j))
    <2>1. e \in D /\ f \in D /\ \A k \in Alike(g, i) \cup Alike(g, j) : k \in D
      BY DEF Alike
    <2>2. e \in Firsts(g)
      BY <1>6, <2>1 DEF Firsts, Alike
    <2>3. e \in Before(j) /\ e \notin Before(i)
      BY <1>6, <2>1, <2>2
    <2>4. Before(i) \subseteq Before(j)
      <3> SUFFICES ASSUME NEW x \in Before(i) PROVE x \in Before(j)
        OBVIOUS
      <3>1. x \in Firsts(g) /\ x \in D /\ x < e
        BY <1>2
      <3> QED
        BY <1>6, <2>1, <3>1
    <2>5. IsFiniteSet(Before(j))
      <3> HIDE DEF Before
      <3> QED
        BY <1>3
    <2> HIDE DEF Before
    <2> QED
      BY <2>3, <2>4, <2>5, SmallerPart
  <1>7. ASSUME NEW i \in D, NEW j \in D, g[i] # g[j]
        PROVE  Cardinality(Before(i)) # Cardinality(Before(j))
    <2>1. PICK e \in Alike(g, i) : \A k \in Alike(g, i) : e <= k
      BY <1>4
    <2>2. PICK f \in Alike(g, j) : \A k \in Alike(g, j) : f <= k
      BY <1>4
    <2>3. e \in D /\ f \in D /\ e # f
      BY <1>7 DEF Alike
    <2>4. e < f \/ f < e
      BY <2>3
    <2> HIDE DEF Before
    <2>5. CASE e < f
      BY <1>6, <1>7, <2>1, <2>2, <2>5
    <2>6. CASE f < e
      BY <1>6, <1>7, <2>1, <2>2, <2>6
    <2> QED
      BY <2>4, <2>5, <2>6
  <1>8. DOMAIN FirstSeen(g) = D
    BY DEF FirstSeen
  <1> HIDE DEF Before
  <1> QED
    BY <1>1, <1>3, <1>5, <1>7, <1>8

(* Who is alike is all that counts: labels of the same classes are the same.             *)
LEMMA SameClasses ==
    ASSUME NEW g, NEW h, DOMAIN g = DOMAIN h,
           \A i, j \in DOMAIN g : g[i] = g[j] <=> h[i] = h[j]
    PROVE  FirstSeen(g) = FirstSeen(h)
  <1>1. \A i \in DOMAIN g : Alike(g, i) = Alike(h, i)
    BY DEF Alike
  <1>2. Firsts(g) = Firsts(h)
    BY <1>1 DEF Firsts
  <1> QED
    BY <1>1, <1>2 DEF FirstSeen

(* Numbering what is numbered changes nothing.                                           *)
LEMMA FirstSeenOnce ==
    ASSUME NEW g, NEW D, D \subseteq Int, IsFiniteSet(D), DOMAIN g = D
    PROVE  FirstSeen(FirstSeen(g)) = FirstSeen(g)
  <1>1. /\ DOMAIN FirstSeen(g) = DOMAIN g
        /\ \A i, j \in DOMAIN g : FirstSeen(g)[i] = FirstSeen(g)[j] <=> g[i] = g[j]
    BY FirstSeenIsLabels
  <1>2. PICK h : h = FirstSeen(g)
    OBVIOUS
  <1>3. FirstSeen(g) = FirstSeen(h)
    BY <1>1, <1>2, SameClasses
  <1> QED
    BY <1>2, <1>3

-----------------------------------------------------------------------------
(* Folds over a set: what one gives is reached step by step.                              *)
Folds(it, step, base, C) == it = [T \in C |-> IF T = {} THEN base ELSE step[<<Pick(T), it[Rest(T)]>>]]

(* There is such a fold.                                                                 *)
LEMMA FoldExists ==
    ASSUME NEW step, NEW base, NEW S, IsFiniteSet(S)
    PROVE  \E it : Folds(it, step, base, SUBSET S)
  <1> DEFINE C(n) == {T \in SUBSET S : Cardinality(T) <= n}
             P == {n \in Nat : \E it : Folds(it, step, base, C(n))}
  <1>1. \A T \in SUBSET S : IsFiniteSet(T) /\ Cardinality(T) \in Nat /\ Cardinality(T) <= Cardinality(S)
    BY FS_Subset, FS_CardinalityType
  <1>2. 0 \in P
    <2> DEFINE it == [T \in C(0) |-> base]
    <2>1. \A T \in C(0) : T = {}
      BY <1>1, FS_EmptySet
    <2>2. Folds(it, step, base, C(0))
      BY <2>1 DEF Folds
    <2> QED
      BY <2>2
  <1>3. ASSUME NEW n \in Nat, n \in P PROVE n + 1 \in P
    <2>1. PICK it : Folds(it, step, base, C(n))
      BY <1>3
    <2> DEFINE more == [T \in C(n + 1) |-> IF T = {} THEN base ELSE step[<<Pick(T), it[Rest(T)]>>]]
    <2>2. \A T \in C(n) : T \in C(n + 1) /\ it[T] = more[T]
      <3>1. \A T \in C(n) : T \in C(n + 1)
        BY <1>1
      <3>2. \A T \in C(n) : it[T] = IF T = {} THEN base ELSE step[<<Pick(T), it[Rest(T)]>>]
        BY <2>1 DEF Folds
      <3> QED
        BY <3>1, <3>2
    <2>3. \A T \in C(n + 1) : T # {} => Rest(T) \in C(n)
      BY <1>1, RestIsSmaller
    <2>4. Folds(more, step, base, C(n + 1))
      <3>1. \A T \in C(n + 1) : (IF T = {} THEN base ELSE step[<<Pick(T), it[Rest(T)]>>])
                                  = (IF T = {} THEN base ELSE step[<<Pick(T), more[Rest(T)]>>])
        <4> HIDE DEF C, more
        <4> QED
          BY <2>2, <2>3
      <3> HIDE DEF C
      <3> QED
        BY <3>1 DEF Folds
    <2> HIDE DEF more, C
    <2> QED
      BY <2>4
  <1>4. Cardinality(S) \in P
    <2>1. Cardinality(S) \in Nat
      BY FS_CardinalityType
    <2> HIDE DEF P
    <2> QED
      BY <1>2, <1>3, <2>1, NatIsReached
  <1>5. C(Cardinality(S)) = SUBSET S
    BY <1>1
  <1> HIDE DEF C
  <1> QED
    BY <1>4, <1>5

(* What a step keeps, the fold has.                                                       *)
LEMMA FoldStays ==
    ASSUME NEW S, IsFiniteSet(S), NEW V, NEW base \in V, NEW step, NEW it,
           \A x \in S : \A y \in V : step[<<x, y>>] \in V,
           Folds(it, step, base, SUBSET S)
    PROVE  \A T \in SUBSET S : it[T] \in V
  <1> DEFINE P == {T \in SUBSET S : it[T] \in V}
  <1>1. \A T \in SUBSET S : it[T] = IF T = {} THEN base ELSE step[<<Pick(T), it[Rest(T)]>>]
    BY DEF Folds
  <1>2. ASSUME NEW T \in SUBSET S, \A R \in SUBSET S : Cardinality(R) < Cardinality(T) => R \in P
        PROVE  T \in P
    <2>1. CASE T = {}
      BY <1>1, <2>1
    <2>2. CASE T # {}
      <3>1. IsFiniteSet(T)
        BY FS_Subset
      <3>2. Pick(T) \in S /\ Rest(T) \in SUBSET S /\ Cardinality(Rest(T)) < Cardinality(T)
        BY <2>2, <3>1, RestIsSmaller
      <3>3. it[Rest(T)] \in V
        BY <1>2, <3>2
      <3>4. it[T] = step[<<Pick(T), it[Rest(T)]>>]
        BY <1>1, <2>2
      <3> QED
        BY <3>2, <3>3, <3>4
    <2> QED
      BY <2>1, <2>2
  <1>3. SUBSET S \subseteq P
    <2> HIDE DEF P
    <2> QED
      BY <1>2, BySize
  <1> QED
    BY <1>3

-----------------------------------------------------------------------------
(* Partitions.                                                                             *)
Grown(some, i) == UNION {{Labelled(f, i, c) : c \in 0..Cardinality(Range(f))} : f \in some}

(* The partitions of a set are those grown by one embedding after another. *)
LEMMA PartitionsAreGrown ==
    ASSUME NEW S, IsFiniteSet(S)
    PROVE  \E it : /\ Partitions(S) = {FirstSeen(g) : g \in it[S]}
                   /\ \A T \in SUBSET S : it[T] = IF T = {} THEN {[j \in {} |-> 0]} ELSE Grown(it[Rest(T)], Pick(T))
  <1> DEFINE base == {[j \in {} |-> 0]}
             Funs == UNION {[T -> Int] : T \in SUBSET S}
             V == SUBSET Funs
             step == [z \in S \X V |-> Grown(z[2], z[1])]
             Grows(it) == it = [T \in SUBSET S |-> IF T = {} THEN base ELSE Grown(it[Rest(T)], Pick(T))]
             it == CHOOSE g : Grows(g)
  <1>1. base \in V
    <2>1. [j \in {} |-> 0] \in [{} -> Int] /\ {} \in SUBSET S
      OBVIOUS
    <2> QED
      BY <2>1
  <1>2. \A x \in S : \A y \in V : step[<<x, y>>] = Grown(y, x) /\ step[<<x, y>>] \in V
    <2> SUFFICES ASSUME NEW x \in S, NEW y \in V PROVE Grown(y, x) \in V
      OBVIOUS
    <2>1. ASSUME NEW f \in y, NEW c \in 0..Cardinality(Range(f)) PROVE Labelled(f, x, c) \in Funs
      <3>1. PICK T \in SUBSET S : f \in [T -> Int]
        OBVIOUS
      <3>2. T \cup {x} \in SUBSET S /\ Labelled(f, x, c) \in [T \cup {x} -> Int]
        BY <3>1 DEF Labelled
      <3> QED
        BY <3>2
    <2> HIDE DEF Funs
    <2> QED
      BY <2>1 DEF Grown
  <1>3. PICK g : Folds(g, step, base, SUBSET S)
    BY FoldExists
  <1>4. Grows(g)
    <2>1. \A T \in SUBSET S : g[T] \in V /\ g[T] = IF T = {} THEN base ELSE step[<<Pick(T), g[Rest(T)]>>]
      <3>1. \A x \in S : \A y \in V : step[<<x, y>>] \in V
        <4> HIDE DEF base, V, step
        <4> QED
          BY <1>2
      <3>2. \A T \in SUBSET S : g[T] \in V
        <4> HIDE DEF base, V, step
        <4> QED
          BY <1>1, <1>3, <3>1, FoldStays
      <3>3. \A T \in SUBSET S : g[T] = IF T = {} THEN base ELSE step[<<Pick(T), g[Rest(T)]>>]
        <4> HIDE DEF base, V, step
        <4> QED
          BY <1>3 DEF Folds
      <3> HIDE DEF base, V, step
      <3> QED
        BY <3>2, <3>3
    <2>2. \A T \in SUBSET S : T # {} => Pick(T) \in S /\ Rest(T) \in SUBSET S
      BY FS_Subset, RestIsSmaller
    <2>3. \A T \in SUBSET S : g[T] = IF T = {} THEN base ELSE Grown(g[Rest(T)], Pick(T))
      <3> HIDE DEF base, V, step
      <3> QED
        BY <1>2, <2>1, <2>2
    <2>4. g = [T \in SUBSET S |-> g[T]]
      BY <1>3 DEF Folds
    <2> HIDE DEF base
    <2> QED
      BY <2>3, <2>4
  <1>5. Grows(it)
    BY <1>4
  <1>6. Partitions(S) = {FirstSeen(f) : f \in it[S]}
    BY DEF Partitions, FoldSet, MapThenFoldSet, Grown, Pick, Rest
  <1>7. \A T \in SUBSET S : it[T] = IF T = {} THEN base ELSE Grown(it[Rest(T)], Pick(T))
    <2> HIDE DEF it, base
    <2> QED
      BY <1>5
  <1> HIDE DEF it
  <1> QED
    BY <1>6, <1>7

(* A partition labels the whole set, and its labels are numbered by their first embedding. *)
LEMMA PartitionsLabel ==
    ASSUME NEW S, S \subseteq Int, IsFiniteSet(S), NEW f \in Partitions(S)
    PROVE  /\ DOMAIN f = S /\ FirstSeen(f) = f
           /\ \A i \in S : f[i] \in Nat /\ f[i] < Cardinality(S)
  <1>1. PICK it : /\ Partitions(S) = {FirstSeen(g) : g \in it[S]}
                  /\ \A T \in SUBSET S : it[T] = IF T = {} THEN {[j \in {} |-> 0]} ELSE Grown(it[Rest(T)], Pick(T))
    BY PartitionsAreGrown
  <1> DEFINE P == {T \in SUBSET S : \A g \in it[T] : DOMAIN g = T}
  <1>2. ASSUME NEW T \in SUBSET S, \A R \in SUBSET S : Cardinality(R) < Cardinality(T) => R \in P
        PROVE  T \in P
    <2>1. CASE T = {}
      BY <1>1, <2>1
    <2>2. CASE T # {}
      <3>1. IsFiniteSet(T)
        BY FS_Subset
      <3>2. /\ Rest(T) \in SUBSET S /\ Cardinality(Rest(T)) < Cardinality(T)
            /\ T = Rest(T) \cup {Pick(T)}
        <4>1. Rest(T) \subseteq T /\ T = Rest(T) \cup {Pick(T)}
          BY <2>2, <3>1, RestIsSmaller
        <4>2. Cardinality(T) \in Nat /\ Cardinality(Rest(T)) = Cardinality(T) - 1
          BY <2>2, <3>1, RestIsSmaller
        <4>3. Cardinality(Rest(T)) < Cardinality(T)
          BY <4>2
        <4> QED
          BY <4>1, <4>3
      <3>3. \A g \in it[Rest(T)] : DOMAIN g = Rest(T)
        BY <1>2, <3>2
      <3>4. ASSUME NEW g \in it[T] PROVE DOMAIN g = T
        <4>1. g \in Grown(it[Rest(T)], Pick(T))
          BY <1>1, <2>2
        <4>2. PICK e \in it[Rest(T)] : \E c \in 0..Cardinality(Range(e)) : g = Labelled(e, Pick(T), c)
          BY <4>1 DEF Grown
        <4>3. PICK c : g = Labelled(e, Pick(T), c)
          BY <4>2
        <4>4. DOMAIN g = DOMAIN e \cup {Pick(T)}
          BY <4>3 DEF Labelled
        <4> QED
          BY <3>2, <3>3, <4>4
      <3> QED
        BY <3>4
    <2> QED
      BY <2>1, <2>2
  <1>3. SUBSET S \subseteq P
    <2> HIDE DEF P
    <2> QED
      BY <1>2, BySize
  <1>4. PICK g \in it[S] : f = FirstSeen(g)
    BY <1>1
  <1>5. DOMAIN g = S
    BY <1>3
  <1> QED
    BY <1>4, <1>5, FirstSeenIsLabels, FirstSeenOnce

-----------------------------------------------------------------------------
(* Joining: whoever has one root keeps it, and the two that are joined have one.             *)
LEMMA PairExtremes ==
    ASSUME NEW a \in Int, NEW b \in Int
    PROVE  /\ Max({a, b}) \in {a, b} /\ a <= Max({a, b}) /\ b <= Max({a, b})
           /\ Min({a, b}) \in {a, b} /\ Min({a, b}) <= a /\ Min({a, b}) <= b
  <1>1. IsFiniteSet({a, b})
    <2>1. {a, b} = {a} \cup {b}
      OBVIOUS
    <2>2. IsFiniteSet({a})
      BY FS_Singleton
    <2>3. IsFiniteSet({a} \cup {b})
      BY <2>2, FS_AddElement
    <2> QED
      BY <2>1, <2>3
  <1>2. {a, b} # {} /\ {a, b} \subseteq Int
    OBVIOUS
  <1> QED
    BY <1>1, <1>2, HasExtremes

Ups(C) == [C -> Int]

(* Joining two candidates joins them and keeps joined what was (union of diar_chunk.py). *)
LEMMA JoinedIsJoined ==
    ASSUME NEW C, NEW up \in Ups(C), NEW a \in C, NEW b \in C
    PROVE  /\ Joined(up, a, b) \in Ups(C)
           /\ Joined(up, a, b)[a] = Joined(up, a, b)[b]
           /\ \A c, d \in C : up[c] = up[d] => Joined(up, a, b)[c] = Joined(up, a, b)[d]
  <1>0. PICK x \in Int, y \in Int : x = up[a] /\ y = up[b]
    BY DEF Ups
  <1>1. PICK hi, lo : hi = Max({up[a], up[b]}) /\ lo = Min({up[a], up[b]})
    OBVIOUS
  <1>2. /\ hi \in {up[a], up[b]} /\ lo \in {up[a], up[b]} /\ lo \in Int /\ hi \in Int
        /\ lo <= up[a] /\ lo <= up[b] /\ up[a] <= hi /\ up[b] <= hi
    <2>1. hi = Max({x, y}) /\ lo = Min({x, y})
      BY <1>0, <1>1
    <2>2. hi \in {x, y} /\ lo \in {x, y} /\ lo <= x /\ lo <= y /\ x <= hi /\ y <= hi
      BY <2>1, PairExtremes
    <2> QED
      BY <1>0, <2>2
  <1>3. Joined(up, a, b) = [c \in C |-> IF up[c] = hi THEN lo ELSE up[c]]
    BY <1>1 DEF Joined, Ups
  <1>4. (IF up[a] = hi THEN lo ELSE up[a]) = (IF up[b] = hi THEN lo ELSE up[b])
    <2>1. up[a] \in Int /\ up[b] \in Int
      BY DEF Ups
    <2> QED
      BY <1>2, <2>1
  <1>5. \A c \in C : up[c] \in Int
    BY DEF Ups
  <1>6. Joined(up, a, b) \in Ups(C)
    BY <1>2, <1>3, <1>5 DEF Ups
  <1> QED
    BY <1>3, <1>4, <1>6

(* With all links followed, the two ends of each have one root. *)
LEMMA RootsJoin ==
    ASSUME AllCandidates \subseteq Int, NEW links, IsFiniteSet(links), links \subseteq AllCandidates \X AllCandidates
    PROVE  /\ Rooted(links) \in [AllCandidates -> Int]
           /\ \A x \in links : Rooted(links)[x[1]] = Rooted(links)[x[2]]
  <1> DEFINE V == [AllCandidates -> Int]
             base == [c \in AllCandidates |-> c]
             step == [z \in links \X V |-> Joined(z[2], z[1][1], z[1][2])]
             Joins2(it) == it = [T \in SUBSET links |->
                                    IF T = {} THEN base ELSE Joined(it[Rest(T)], Pick(T)[1], Pick(T)[2])]
             it == CHOOSE g : Joins2(g)
  <1>1. base \in V
    OBVIOUS
  <1>2. ASSUME NEW x \in links, NEW up \in V
        PROVE  /\ Joined(up, x[1], x[2]) \in V
               /\ Joined(up, x[1], x[2])[x[1]] = Joined(up, x[1], x[2])[x[2]]
               /\ \A y \in links : up[y[1]] = up[y[2]] => Joined(up, x[1], x[2])[y[1]] = Joined(up, x[1], x[2])[y[2]]
    <2>1. \A y \in links : y[1] \in AllCandidates /\ y[2] \in AllCandidates
      OBVIOUS
    <2>2. PICK a \in AllCandidates, b \in AllCandidates : a = x[1] /\ b = x[2]
      BY <2>1
    <2>3. /\ Joined(up, a, b) \in [AllCandidates -> Int]
          /\ Joined(up, a, b)[a] = Joined(up, a, b)[b]
          /\ \A c, d \in AllCandidates : up[c] = up[d] => Joined(up, a, b)[c] = Joined(up, a, b)[d]
      <3>1. up \in Ups(AllCandidates)
        BY DEF Ups
      <3>2. /\ Joined(up, a, b) \in Ups(AllCandidates)
            /\ Joined(up, a, b)[a] = Joined(up, a, b)[b]
            /\ \A c, d \in AllCandidates : up[c] = up[d] => Joined(up, a, b)[c] = Joined(up, a, b)[d]
        BY <3>1, JoinedIsJoined
      <3> QED
        BY <3>2 DEF Ups
    <2> QED
      BY <2>1, <2>2, <2>3
  <1>3. \A x \in links : \A up \in V : step[<<x, up>>] = Joined(up, x[1], x[2])
    OBVIOUS
  <1>4. PICK g : Folds(g, step, base, SUBSET links)
    BY FoldExists
  <1>5. \A T \in SUBSET links : T # {} => Pick(T) \in links /\ Rest(T) \in SUBSET links
    BY FS_Subset, RestIsSmaller
  <1>6. \A T \in SUBSET links : g[T] \in V
    <2>1. \A x \in links : \A up \in V : step[<<x, up>>] \in V
      <3> HIDE DEF V, step
      <3> QED
        BY <1>2, <1>3
    <2> HIDE DEF base, V, step
    <2> QED
      BY <1>1, <1>4, <2>1, FoldStays
  <1>7. Joins2(g)
    <2>1. \A T \in SUBSET links : g[T] = IF T = {} THEN base ELSE step[<<Pick(T), g[Rest(T)]>>]
      <3> HIDE DEF base, V, step
      <3> QED
        BY <1>4 DEF Folds
    <2>2. \A T \in SUBSET links : g[T] = IF T = {} THEN base ELSE Joined(g[Rest(T)], Pick(T)[1], Pick(T)[2])
      <3> HIDE DEF base, V, step
      <3> QED
        BY <1>3, <1>5, <1>6, <2>1
    <2>3. g = [T \in SUBSET links |-> g[T]]
      BY <1>4 DEF Folds
    <2> HIDE DEF base
    <2> QED
      BY <2>2, <2>3
  <1>8. Joins2(it)
    BY <1>7
  <1>9. Rooted(links) = it[links]
    BY DEF Rooted, FoldSet, MapThenFoldSet, Pick, Rest
  <1>10. \A T \in SUBSET links : it[T] = IF T = {} THEN base ELSE Joined(it[Rest(T)], Pick(T)[1], Pick(T)[2])
    <2> HIDE DEF it, base
    <2> QED
      BY <1>8
  <1> HIDE DEF it
  <1> DEFINE P == {T \in SUBSET links : it[T] \in V /\ \A x \in T : it[T][x[1]] = it[T][x[2]]}
  <1>11. ASSUME NEW T \in SUBSET links, \A R \in SUBSET links : Cardinality(R) < Cardinality(T) => R \in P
         PROVE  T \in P
    <2>1. CASE T = {}
      BY <1>1, <1>10, <2>1
    <2>2. CASE T # {}
      <3>1. IsFiniteSet(T)
        BY FS_Subset
      <3>2. Rest(T) \in SUBSET links /\ Pick(T) \in links /\ T = Rest(T) \cup {Pick(T)}
        BY <2>2, <3>1, RestIsSmaller
      <3>3. Cardinality(Rest(T)) < Cardinality(T)
        <4>1. Cardinality(T) \in Nat /\ Cardinality(Rest(T)) = Cardinality(T) - 1
          BY <2>2, <3>1, RestIsSmaller
        <4> QED
          BY <4>1
      <3>4. it[Rest(T)] \in V /\ \A x \in Rest(T) : it[Rest(T)][x[1]] = it[Rest(T)][x[2]]
        BY <1>11, <3>2, <3>3
      <3>5. it[T] = Joined(it[Rest(T)], Pick(T)[1], Pick(T)[2])
        BY <1>10, <2>2
      <3> HIDE DEF V
      <3>6. it[T] \in V
        BY <1>2, <3>2, <3>4, <3>5
      <3>7. it[T][Pick(T)[1]] = it[T][Pick(T)[2]]
        BY <1>2, <3>2, <3>4, <3>5
      <3>8. ASSUME NEW x \in Rest(T) PROVE it[T][x[1]] = it[T][x[2]]
        <4>1. x \in links /\ it[Rest(T)][x[1]] = it[Rest(T)][x[2]]
          BY <3>2, <3>4
        <4>2. PICK e \in V : e = it[Rest(T)]
          BY <3>4
        <4>3. Joined(e, Pick(T)[1], Pick(T)[2])[x[1]] = Joined(e, Pick(T)[1], Pick(T)[2])[x[2]]
          BY <1>2, <3>2, <4>1, <4>2
        <4> QED
          BY <3>5, <4>2, <4>3
      <3> QED
        BY <3>2, <3>6, <3>7, <3>8
    <2> QED
      BY <2>1, <2>2
  <1>12. links \in P
    <2>1. SUBSET links \subseteq P
      <3> HIDE DEF P
      <3> QED
        BY <1>11, BySize
    <2> QED
      BY <2>1
  <1> QED
    BY <1>9, <1>12

-----------------------------------------------------------------------------
(* Folding: each cluster becomes one of the big ones, and these stay.                          *)
LEMMA FoldedIsSeen ==
    ASSUME NEW labels, NEW D, DOMAIN labels = D, NEW big, NEW new \in Folded(labels, big)
    PROVE  \E m : /\ DOMAIN m = D /\ new = FirstSeen(m)
                  /\ \A i \in D : m[i] \in big /\ (labels[i] \in big => m[i] = labels[i])
                  /\ \A i, j \in D : labels[i] = labels[j] => m[i] = m[j]
  <1>1. PICK into \in [Range(labels) \ big -> big] :
          new = FirstSeen([i \in D |-> IF labels[i] \in big THEN labels[i] ELSE into[labels[i]]])
    BY DEF Folded
  <1> DEFINE m == [i \in D |-> IF labels[i] \in big THEN labels[i] ELSE into[labels[i]]]
  <1>2. \A i \in D : labels[i] \in Range(labels)
    BY DEF Range
  <1>3. \A i \in D : m[i] \in big /\ (labels[i] \in big => m[i] = labels[i])
    BY <1>2
  <1>4. \A i, j \in D : labels[i] = labels[j] => m[i] = m[j]
    OBVIOUS
  <1>5. DOMAIN m = D /\ new = FirstSeen(m)
    BY <1>1
  <1> HIDE DEF m
  <1> QED
    BY <1>3, <1>4, <1>5

CoversBig(new, labels, big) ==
    \A c \in Range(new) : \E b \in big : \A i \in DOMAIN labels : labels[i] = b => new[i] = c

(* What is folded is labelled as it should be: alike what was alike, and in each cluster all    *)
(* of a big one.                                                                                 *)
LEMMA FoldedKeeps ==
    ASSUME NEW labels, DOMAIN labels \subseteq Int, IsFiniteSet(DOMAIN labels),
           NEW big, NEW new \in Folded(labels, big)
    PROVE  /\ DOMAIN new = DOMAIN labels /\ new = FirstSeen(new) /\ \A i \in DOMAIN labels : new[i] \in Nat
           /\ \A i, j \in DOMAIN labels : labels[i] = labels[j] => new[i] = new[j]
           /\ CoversBig(new, labels, big)
           /\ (\E b : big = {b}) => \A i, j \in DOMAIN labels : new[i] = new[j]
  <1>0. PICK D : D = DOMAIN labels /\ D \subseteq Int /\ IsFiniteSet(D)
    OBVIOUS
  <1>1. PICK m : /\ DOMAIN m = D /\ new = FirstSeen(m)
                 /\ \A i \in D : m[i] \in big /\ (labels[i] \in big => m[i] = labels[i])
                 /\ \A i, j \in D : labels[i] = labels[j] => m[i] = m[j]
    BY <1>0, FoldedIsSeen
  <1>2. /\ DOMAIN new = D /\ \A i \in D : new[i] \in Nat
        /\ \A i, j \in D : new[i] = new[j] <=> m[i] = m[j]
    <2>1. /\ DOMAIN FirstSeen(m) = D /\ \A i \in D : FirstSeen(m)[i] \in Nat
          /\ \A i, j \in D : FirstSeen(m)[i] = FirstSeen(m)[j] <=> m[i] = m[j]
      BY <1>0, <1>1, FirstSeenIsLabels
    <2> QED
      BY <1>1, <2>1
  <1>3. new = FirstSeen(new)
    BY <1>0, <1>1, FirstSeenOnce
  <1>4. CoversBig(new, labels, big)
    <2> SUFFICES ASSUME NEW c \in Range(new) PROVE \E b \in big : \A i \in D : labels[i] = b => new[i] = c
      BY <1>0 DEF CoversBig
    <2>1. PICK k \in D : new[k] = c
      BY <1>2 DEF Range
    <2>2. m[k] \in big /\ \A i \in D : labels[i] = m[k] => m[i] = m[k]
      BY <1>1
    <2> QED
      BY <1>2, <2>1, <2>2
  <1>5. ASSUME NEW b, big = {b} PROVE \A i, j \in D : new[i] = new[j]
    BY <1>1, <1>2, <1>5
  <1>6. \A i, j \in D : labels[i] = labels[j] => new[i] = new[j]
    BY <1>1, <1>2
  <1> QED
    BY <1>0, <1>2, <1>3, <1>4, <1>5, <1>6

(* One label is the first.                                                                       *)
LEMMA OneLabelIsZero ==
    ASSUME NEW labels, NEW D, D # {}, DOMAIN labels = D, D \subseteq Int,
           \A i, j \in D : labels[i] = labels[j]
    PROVE  Range(FirstSeen(labels)) = {0}
  <1>1. ASSUME NEW i \in D PROVE FirstSeen(labels)[i] = 0
    <2>1. Alike(labels, i) = D
      BY DEF Alike
    <2>2. {j \in Firsts(labels) : \A k \in Alike(labels, i) : j < k} = {}
      <3>1. \A j \in D : ~(j < j)
        OBVIOUS
      <3>2. Firsts(labels) \subseteq D
        BY DEF Firsts
      <3> QED
        BY <2>1, <3>1, <3>2
    <2> QED
      BY <2>2, FS_EmptySet DEF FirstSeen
  <1>2. DOMAIN FirstSeen(labels) = D
    BY DEF FirstSeen
  <1>3. PICK h : h = FirstSeen(labels)
    OBVIOUS
  <1> QED
    BY <1>1, <1>2, <1>3 DEF Range

(* More embeddings weigh more.                                                                   *)
LEMMA PartWeighsLess ==
    ASSUME NEW T, IsFiniteSet(T), NEW S, S \subseteq T, NEW f, \A x \in T : f[x] \in Nat
    PROVE  SumFunctionOnSet(f, S) <= SumFunctionOnSet(f, T)
  <1> DEFINE self == [x \in T |-> x]
  <1>1. IsFiniteSet(S)
    BY FS_Subset
  <1>2. \A x \in T : self[x] = x
    OBVIOUS
  <1> HIDE DEF self
  <1> QED
    BY <1>1, <1>2, Dominates

(* Division with remainder. *)
LEMMA DivBounds ==
    ASSUME NEW a \in Nat, NEW b \in Nat \ {0}
    PROVE  a \div b \in Nat /\ b * (a \div b) <= a /\ a < b * (a \div b) + b
  OBVIOUS

(* Division keeps the order. *)
LEMMA DivGrows ==
    ASSUME NEW a \in Nat, NEW c \in Nat, a <= c, NEW b \in Nat \ {0}
    PROVE  a \div b <= c \div b
  OBVIOUS

(* What an append leaves alone, and what it adds. *)
LEMMA ListGrows ==
    ASSUME NEW s, s \in Seq(Range(s)), NEW x
    PROVE  /\ Append(s, x) \in Seq(Range(Append(s, x)))
           /\ Len(s) \in Nat /\ Len(Append(s, x)) = Len(s) + 1
           /\ \A k \in 1..Len(s) : Append(s, x)[k] = s[k]
           /\ Append(s, x)[Len(s) + 1] = x
  <1> DEFINE S == Range(s) \cup {x}
             t == Append(s, x)
  <1>1. PICK A : A = Range(s) /\ s \in Seq(A)
    OBVIOUS
  <1>2. s \in Seq(A \cup {x})
    BY <1>1
  <1>3. /\ t \in Seq(A \cup {x}) /\ Len(s) \in Nat /\ Len(t) = Len(s) + 1
        /\ \A k \in 1..Len(s) : t[k] = s[k]
        /\ t[Len(s) + 1] = x
    BY <1>2
  <1>4. DOMAIN t = 1..Len(t) /\ \A k \in 1..Len(t) : t[k] \in Range(t)
    BY <1>3 DEF Range
  <1>5. t \in Seq(Range(t))
    <2>1. t = [k \in 1..Len(t) |-> t[k]] /\ Len(t) \in Nat
      <3> HIDE DEF t
      <3> QED
        BY <1>3
    <2> HIDE DEF t
    <2> QED
      BY <1>4, <2>1
  <1> QED
    BY <1>3, <1>5

-----------------------------------------------------------------------------
(* The invariant: what each stage of the clustering has made is of the stages before.       *)
Working == {"embeddings", "pieces", "joined", "linked", "labelled"}
IsSequence(s) == s \in Seq(Range(s))

HasEmbeddings ==
    /\ cfg \in Configs
    /\ Len(pairs) \in Nat \ {0} /\ Embeddings = 1..Len(pairs)
    /\ \A i \in Embeddings : pairs[i][1] \in Nat \ {0}

(* Each piece is labelled, up to the one that is next.                                       *)
Pieced ==
    /\ IsSequence(members) /\ IsSequence(local) /\ Len(members) = Len(local)
    /\ \A k \in 1..Len(local) :
         /\ members[k] = Piece(k - 1) /\ DOMAIN local[k] = Piece(k - 1)
         /\ \A i \in Piece(k - 1) : local[k][i] \in Nat
PiecesSoFar ==
    Pieced /\ IF stage = "embeddings" THEN Len(local) < PieceCount ELSE Len(local) = PieceCount

(* Candidates that an overlap joins have one root.                                           *)
RootsAreOne ==
    /\ root \in [AllCandidates -> Int]
    /\ cfg.overlap > 0 => \A x \in MustLinks : root[x[1]] = root[x[2]]

(* Embeddings of one node have one label, those of nodes apart have not.                     *)
LinksAreSound ==
    /\ DOMAIN linked = Embeddings /\ linked = FirstSeen(linked)
    /\ \A i, j \in Embeddings : /\ Node(i) = Node(j) => linked[i] = linked[j]
                                /\ linked[i] = linked[j] => ~Apart(Node(i), Node(j))

LInv ==
    /\ stage = "audio" => cfg \in Configs /\ store \in Stores /\ members = <<>> /\ local = <<>>
    /\ stage \in Working => HasEmbeddings
    /\ stage \in {"pieces", "joined", "linked"} => cfg.mode = "pieces"
    /\ stage \in Working /\ cfg.mode = "pieces" => PiecesSoFar
    /\ stage \in {"joined", "linked"} => RootsAreOne
    /\ stage = "linked" => LinksAreSound
    /\ LabelsAreSound

-----------------------------------------------------------------------------
(* Each embedding is of one of the pieces, its owner.                                         *)
LEMMA OwnersOwn ==
    ASSUME DiarAssumption, HasEmbeddings, cfg.mode = "pieces"
    PROVE  /\ PieceCount \in Nat \ {0}
           /\ \A i \in Embeddings : Owner(i) \in Nat /\ Owner(i) < PieceCount /\ i \in Piece(Owner(i))
  <1>1. cfg.piece \in Nat \ {0} /\ cfg.overlap \in Nat
    BY DEF DiarAssumption, HasEmbeddings
  <1>2. \A i \in Embeddings : Middle(i) \in Nat
    <2>1. ASSUME NEW i \in Embeddings PROVE Middle(i) \in Nat
      <3>1. pairs[i][1] - 1 \in Nat
        BY DEF HasEmbeddings
      <3>2. \A a, b \in Nat : a * b + Window \div 2 \in Nat
        BY DEF DiarAssumption
      <3>3. Shift \in Nat
        BY DEF DiarAssumption
      <3> QED
        BY <3>1, <3>2, <3>3 DEF Middle
    <2> QED
      BY <2>1
  <1> DEFINE M == {Middle(i) : i \in Embeddings}
  <1>3. Embeddings # {} /\ IsFiniteSet(Embeddings)
    <2>1. PICK n \in Nat \ {0} : Embeddings = 1..n
      BY DEF HasEmbeddings
    <2>2. IsFiniteSet(1..n)
      BY FS_Interval
    <2>3. 1 \in 1..n
      OBVIOUS
    <2> QED
      BY <2>1, <2>2, <2>3
  <1>4. IsFiniteSet(M)
    <2> DEFINE f == [i \in Embeddings |-> Middle(i)]
    <2>1. f \in Surjection(Embeddings, M)
      BY DEF Surjection
    <2> HIDE DEF f, M
    <2> QED
      BY <1>3, <2>1, FS_Surjection
  <1>5. Max(M) \in Nat /\ \A i \in Embeddings : Middle(i) <= Max(M)
    <2>1. M # {} /\ M \subseteq Nat /\ M \subseteq Int /\ \A i \in Embeddings : Middle(i) \in M
      BY <1>2, <1>3
    <2> HIDE DEF M
    <2> QED
      BY <1>4, <2>1, HasExtremes
  <1>6. PieceCount \in Nat \ {0}
    <2>1. Max(M) \div cfg.piece \in Nat
      <3> HIDE DEF M
      <3> QED
        BY <1>1, <1>5, DivBounds
    <2> HIDE DEF M
    <2>2. Max(M) \div cfg.piece + 1 \in Nat \ {0}
      BY <2>1
    <2> QED
      BY <2>2 DEF PieceCount, M
  <1>7. ASSUME NEW i \in Embeddings
        PROVE  Owner(i) \in Nat /\ Owner(i) < PieceCount /\ i \in Piece(Owner(i))
    <2>1. PICK a \in Nat, b \in Nat \ {0}, c \in Nat : a = Middle(i) /\ b = cfg.piece /\ c = Max(M) /\ a <= c
      <3> HIDE DEF M
      <3> QED
        BY <1>1, <1>2, <1>5
    <2>2. a \div b \in Nat /\ b * (a \div b) <= a /\ a < b * (a \div b) + b
      BY DivBounds
    <2>3. a \div b <= c \div b
      BY <2>1, DivGrows
    <2>4. Owner(i) = a \div b /\ PieceCount = c \div b + 1
      BY <2>1 DEF Owner, PieceCount
    <2>5. c \div b \in Nat
      BY DivBounds
    <2>6. PICK q \in Nat : q = Owner(i) /\ b * q <= a /\ a < b * q + b
      BY <2>2, <2>4
    <2>7. q * b = b * q /\ (q + 1) * b = b * q + b /\ b * q \in Nat
      BY <2>6
    <2>8. PICK o \in Nat : o = cfg.overlap
      BY <1>1
    <2>9. a >= q * b /\ a < (q + 1) * b + o
      BY <2>6, <2>7, <2>8
    <2>10. i \in Piece(q)
      BY <2>1, <2>8, <2>9 DEF Piece
    <2> QED
      BY <2>2, <2>3, <2>4, <2>5, <2>6, <2>10
  <1> QED
    BY <1>6, <1>7

(* The pieces are of embeddings.                                                               *)
LEMMA PiecesAreFinite ==
    ASSUME HasEmbeddings
    PROVE  \A k : Piece(k) \subseteq Int /\ IsFiniteSet(Piece(k)) /\ Piece(k) \subseteq Embeddings
  <1>1. PICK n \in Nat \ {0} : Embeddings = 1..n
    BY DEF HasEmbeddings
  <1>2. IsFiniteSet(1..n) /\ 1..n \subseteq Int
    BY FS_Interval
  <1>3. \A k : Piece(k) \subseteq Embeddings
    BY DEF Piece
  <1> QED
    BY <1>1, <1>2, <1>3, FS_Subset

-----------------------------------------------------------------------------
(* Candidates and what joins them.                                                             *)
LEMMA CandidatesAreNumbers ==
    ASSUME HasEmbeddings, Pieced
    PROVE  /\ AllCandidates \subseteq Int
           /\ DOMAIN local = 1..Len(local) /\ Len(local) \in Nat
           /\ \A k \in 1..Len(local) : \A i \in Piece(k - 1) :
                 /\ local[k][i] \in Nat /\ local[k][i] \in Range(local[k])
                 /\ Candidate(k - 1, local[k][i]) \in AllCandidates
  <1>1. DOMAIN local = 1..Len(local) /\ Len(local) \in Nat
    <2>1. PICK A : A = Range(local) /\ local \in Seq(A)
      BY DEF Pieced, IsSequence
    <2> QED
      BY <2>1, SequencesAreFunctions
  <1>2. \A k \in 1..Len(local) : /\ DOMAIN local[k] = Piece(k - 1)
                                 /\ \A i \in Piece(k - 1) : local[k][i] \in Nat
    BY DEF Pieced
  <1>3. \A k \in 1..Len(local) : \A c \in Range(local[k]) : c \in Nat
    BY <1>2 DEF Range
  <1>4. \A k \in Nat, c \in Nat : Candidate(k, c) \in Int
    <2>1. \A k, n, c \in Nat : k * n + c \in Int
      OBVIOUS
    <2>2. Len(pairs) \in Nat
      BY DEF HasEmbeddings
    <2> QED
      BY <2>1, <2>2 DEF Candidate
  <1>5. AllCandidates \subseteq Int
    <2>1. ASSUME NEW x \in AllCandidates PROVE x \in Int
      <3>1. PICK k \in DOMAIN local : x \in {Candidate(k - 1, c) : c \in Range(local[k])}
        BY DEF AllCandidates
      <3>2. PICK c \in Range(local[k]) : x = Candidate(k - 1, c)
        BY <3>1
      <3>3. k - 1 \in Nat /\ c \in Nat
        BY <1>1, <1>3
      <3> QED
        BY <1>4, <3>2, <3>3
    <2> QED
      BY <2>1
  <1>6. ASSUME NEW k \in 1..Len(local), NEW i \in Piece(k - 1)
        PROVE  /\ local[k][i] \in Nat /\ local[k][i] \in Range(local[k])
               /\ Candidate(k - 1, local[k][i]) \in AllCandidates
    <2>1. local[k][i] \in Nat /\ local[k][i] \in Range(local[k])
      BY <1>2 DEF Range
    <2>2. k \in DOMAIN local
      BY <1>1
    <2> QED
      BY <2>1, <2>2 DEF AllCandidates
  <1> QED
    BY <1>1, <1>5, <1>6

(* Candidates joined by an overlap are candidates, and finitely many.                            *)
LEMMA TriplesAreFinite ==
    ASSUME NEW A, NEW B, NEW C, IsFiniteSet(A), IsFiniteSet(B), IsFiniteSet(C)
    PROVE  IsFiniteSet(A \X B \X C)
  <1> DEFINE D == (A \X B) \X C
             f == [z \in D |-> <<z[1][1], z[1][2], z[2]>>]
  <1>1. IsFiniteSet(D)
    <2>1. IsFiniteSet(A \X B)
      BY FS_Product
    <2> QED
      BY <2>1, FS_Product
  <1>2. f \in Surjection(D, A \X B \X C)
    <2>1. \A z \in D : f[z] \in A \X B \X C
      OBVIOUS
    <2>2. ASSUME NEW x \in A \X B \X C PROVE \E z \in D : f[z] = x
      <3>1. PICK a \in A, b \in B, c \in C : x = <<a, b, c>>
        OBVIOUS
      <3>2. << <<a, b>>, c>> \in D /\ f[<< <<a, b>>, c>>] = x
        BY <3>1
      <3> QED
        BY <3>2
    <2>3. f \in [D -> A \X B \X C]
      BY <2>1
    <2> HIDE DEF f, D
    <2> QED
      BY <2>2, <2>3 DEF Surjection
  <1> HIDE DEF f, D
  <1> QED
    BY <1>1, <1>2, FS_Surjection

(* The links of the overlaps are finitely many, and between candidates. *)
LEMMA MustLinksJoinCandidates ==
    ASSUME HasEmbeddings, Pieced
    PROVE  IsFiniteSet(MustLinks) /\ MustLinks \subseteq AllCandidates \X AllCandidates
  <1> DEFINE All == (0..Len(local) - 2) \X (0..Len(pairs)) \X (0..Len(pairs))
             Same == {y \in All : 2 * Cardinality(Fallen(y[1], y[2], y[3])) > Cardinality(Shared(y[1], y[2]))}
             f == [x \in Same |-> <<Candidate(x[1], x[2]), Candidate(x[1] + 1, x[3])>>]
  <1>1. /\ DOMAIN local = 1..Len(local) /\ Len(local) \in Nat
        /\ \A k \in 1..Len(local) : \A i \in Piece(k - 1) : Candidate(k - 1, local[k][i]) \in AllCandidates
    BY CandidatesAreNumbers
  <1>2. IsFiniteSet(All)
    <2>1. Len(pairs) \in Nat
      BY DEF HasEmbeddings
    <2>2. IsFiniteSet(0..Len(pairs)) /\ IsFiniteSet(0..Len(local) - 2)
      BY <1>1, <2>1, FS_Interval
    <2> QED
      BY <2>2, TriplesAreFinite
  <1>3. IsFiniteSet(MustLinks)
    <2>1. IsFiniteSet(Same)
      <3>1. Same \subseteq All
        OBVIOUS
      <3> HIDE DEF Same, All
      <3> QED
        BY <1>2, <3>1, FS_Subset
    <2>2. MustLinks = {f[x] : x \in Same}
      BY DEF MustLinks
    <2>3. f \in Surjection(Same, MustLinks)
      <3>1. f = [x \in Same |-> f[x]]
        OBVIOUS
      <3> HIDE DEF f, Same
      <3>2. \A x \in Same : f[x] \in MustLinks
        BY <2>2
      <3>3. \A y \in MustLinks : \E x \in Same : f[x] = y
        BY <2>2
      <3> QED
        BY <3>1, <3>2, <3>3 DEF Surjection
    <2> HIDE DEF f, Same
    <2> QED
      BY <2>1, <2>3, FS_Surjection
  <1>4. ASSUME NEW z \in MustLinks PROVE z \in AllCandidates \X AllCandidates
    <2>1. PICK x \in Same : z = <<Candidate(x[1], x[2]), Candidate(x[1] + 1, x[3])>>
      BY DEF MustLinks
    <2>2. PICK k, c, d : k = x[1] /\ c = x[2] /\ d = x[3]
      OBVIOUS
    <2>3. k \in 0..Len(local) - 2 /\ 2 * Cardinality(Fallen(k, c, d)) > Cardinality(Shared(k, c))
      BY <2>2
    <2>4. z = <<Candidate(k, c), Candidate(k + 1, d)>>
      BY <2>1, <2>2
    <2>5. PICK m \in 1..Len(local) : m = k + 1 /\ m + 1 \in 1..Len(local) /\ m - 1 = k /\ (m + 1) - 1 = k + 1 /\ k + 2 = m + 1
      BY <1>1, <2>3
    <2>6. members[m] = Piece(m - 1) /\ members[m + 1] = Piece((m + 1) - 1)
      BY <2>5 DEF Pieced
    <2>7. Shared(k, c) = {i \in members[m] \cap members[m + 1] : local[m][i] = c}
      BY <2>5 DEF Shared
    <2>8. Fallen(k, c, d) = {i \in Shared(k, c) : local[m + 1][i] = d}
      BY <2>5 DEF Fallen
    <2>9. Fallen(k, c, d) # {}
      <3>1. Shared(k, c) \subseteq Piece(m - 1)
        BY <2>6, <2>7
      <3>2. IsFiniteSet(Shared(k, c))
        BY <3>1, PiecesAreFinite, FS_Subset
      <3>3. Cardinality(Shared(k, c)) \in Nat
        BY <3>2, FS_CardinalityType
      <3>4. Fallen(k, c, d) = {} => Cardinality(Fallen(k, c, d)) = 0
        BY FS_EmptySet
      <3> QED
        BY <2>3, <3>3, <3>4
    <2>10. PICK i \in Piece(m - 1) : i \in Piece((m + 1) - 1) /\ local[m][i] = c /\ local[m + 1][i] = d
      BY <2>6, <2>7, <2>8, <2>9
    <2>11. Candidate(k, c) \in AllCandidates
      BY <1>1, <2>5, <2>10
    <2>12. Candidate(k + 1, d) \in AllCandidates
      BY <1>1, <2>5, <2>10
    <2> QED
      BY <2>4, <2>11, <2>12
  <1> QED
    BY <1>3, <1>4

(* An embedding's candidate is of its own piece.                                               *)
LEMMA OfIsCandidate ==
    ASSUME DiarAssumption, HasEmbeddings, cfg.mode = "pieces", Pieced, Len(local) = PieceCount
    PROVE  \A i \in Embeddings : /\ Of(i) \in AllCandidates /\ Owner(i) \in 0..Len(local) - 1
                                 /\ local[Owner(i) + 1][i] \in Range(local[Owner(i) + 1])
  <1> SUFFICES ASSUME NEW i \in Embeddings
               PROVE  /\ Of(i) \in AllCandidates /\ Owner(i) \in 0..Len(local) - 1
                      /\ local[Owner(i) + 1][i] \in Range(local[Owner(i) + 1])
    OBVIOUS
  <1>1. Owner(i) \in Nat /\ Owner(i) < PieceCount /\ i \in Piece(Owner(i))
    BY OwnersOwn
  <1>2. Len(local) \in Nat
    BY CandidatesAreNumbers
  <1>3. PICK k \in 1..Len(local) : k - 1 = Owner(i) /\ k = Owner(i) + 1
    BY <1>1, <1>2
  <1>4. local[k][i] \in Range(local[k]) /\ Candidate(k - 1, local[k][i]) \in AllCandidates
    BY <1>1, <1>3, CandidatesAreNumbers
  <1>5. Owner(i) \in 0..Len(local) - 1
    BY <1>1, <1>2
  <1> QED
    BY <1>3, <1>4, <1>5 DEF Of

(* A piece's clustering, floor and all, labels each of its embeddings.                          *)
LEMMA LocalLabelsAreLabels ==
    ASSUME NEW mine, mine \subseteq Int, IsFiniteSet(mine), NEW f \in LocalLabels(mine)
    PROVE  DOMAIN f = mine /\ \A i \in mine : f[i] \in Nat
  <1> DEFINE floor == PieceFloor(Cardinality(mine))
             SecondsOf(base) == IF floor > 1 THEN KeepBig(base, [i \in mine |-> 1], floor) ELSE {base}
  <1>1. CASE Cardinality(mine) <= 1
    BY <1>1 DEF LocalLabels
  <1>2. CASE ~(Cardinality(mine) <= 1)
    <2>1. f \in UNION {SecondsOf(base) : base \in Partitions(mine)}
      BY <1>2 DEF LocalLabels
    <2> HIDE DEF SecondsOf
    <2>2. PICK base \in Partitions(mine) : f \in SecondsOf(base)
      BY <2>1
    <2>3. DOMAIN base = mine /\ \A i \in mine : base[i] \in Nat
      BY PartitionsLabel
    <2>4. f = base \/ \E big : f \in Folded(base, big)
      BY <2>2 DEF SecondsOf, KeepBig
    <2>5. CASE f = base
      BY <2>3, <2>5
    <2>6. CASE \E big : f \in Folded(base, big)
      <3>1. PICK big : f \in Folded(base, big)
        BY <2>6
      <3>2. DOMAIN f = mine /\ \A i \in mine : f[i] \in Nat
        <4> HIDE DEF SecondsOf, floor
        <4>1. DOMAIN f = mine
          BY <2>3, <3>1 DEF Folded, FirstSeen
        <4>2. \A i \in mine : f[i] \in Nat
          BY <2>3, <3>1, FoldedKeeps
        <4> QED
          BY <4>1, <4>2
      <3> QED
        BY <3>2
    <2> QED
      BY <2>4, <2>5, <2>6
  <1> QED
    BY <1>1, <1>2

-----------------------------------------------------------------------------
(* What an action leaves alone keeps its meaning.                                               *)
LEMMA SameEmbeddings ==
    ASSUME UNCHANGED <<cfg, pairs>>
    PROVE  /\ Embeddings' = Embeddings /\ PieceCount' = PieceCount
           /\ \A k : Piece(k)' = Piece(k) /\ Owner(k)' = Owner(k)
           /\ HasEmbeddings => HasEmbeddings'
  BY DEF Embeddings, PieceCount, Piece, Owner, Middle, HasEmbeddings

(* What the pieces are depends on the embeddings and their local labels only. *)
LEMMA SamePieces ==
    ASSUME UNCHANGED <<cfg, pairs, members, local>>
    PROVE  /\ Pieced => Pieced'
           /\ AllCandidates' = AllCandidates /\ MustLinks' = MustLinks
           /\ \A i : Of(i)' = Of(i)
  <1>1. Pieced => Pieced'
    BY SameEmbeddings DEF Pieced
  <1>2. AllCandidates' = AllCandidates
    BY DEF AllCandidates, Candidate
  <1>3. \A k, c : Shared(k, c)' = Shared(k, c) /\ Candidate(k, c)' = Candidate(k, c)
    BY DEF Shared, Candidate
  <1>4. \A k, c, d : Fallen(k, c, d)' = Fallen(k, c, d)
    BY <1>3 DEF Fallen
  <1>5. MustLinks' = MustLinks
    BY <1>3, <1>4 DEF MustLinks
  <1>6. \A i : Of(i)' = Of(i)
    BY DEF Of, Candidate, Owner, Middle
  <1> QED
    BY <1>1, <1>2, <1>5, <1>6

(* What is one with what depends on the roots besides. *)
LEMMA SameRoots ==
    ASSUME UNCHANGED <<cfg, pairs, members, local, root>>
    PROVE  /\ RootsAreOne => RootsAreOne'
           /\ \A i : Node(i)' = Node(i)
           /\ \A m, n : Apart(m, n)' <=> Apart(m, n)
  <1>1. RootsAreOne => RootsAreOne'
    BY SamePieces DEF RootsAreOne
  <1>2. \A i : Node(i)' = Node(i)
    BY SamePieces DEF Node
  <1>3. \A n : PiecesOf(n)' = PiecesOf(n)
    BY DEF PiecesOf, Candidate
  <1>4. \A m, n : Apart(m, n)' <=> Apart(m, n)
    BY <1>3 DEF Apart
  <1> QED
    BY <1>1, <1>2, <1>4

(* How long an embedding speaks depends on the store only. *)
LEMMA SameSpeech ==
    ASSUME UNCHANGED <<cfg, store, pairs>>
    PROVE  /\ [i \in Embeddings |-> Speech(i)]' = [i \in Embeddings |-> Speech(i)]
           /\ Floor' = Floor
  <1>1. [i \in Embeddings |-> Speech(i)]' = [i \in Embeddings |-> Speech(i)]
    BY DEF Embeddings, Speech
  <1> QED
    BY <1>1 DEF Floor

-----------------------------------------------------------------------------
(* The actions.                                                                                  *)
LEMMA ListWithout ==
    ASSUME NEW S, NEW all \in Seq(S), NEW k \in DOMAIN all
    PROVE  RemoveAt(all, k) \in Seq(S)
  <1>1. k \in 1..Len(all) /\ Len(all) \in Nat
    OBVIOUS
  <1>2. SubSeq(all, 1, k - 1) \in Seq(S)
    BY <1>1
  <1>3. SubSeq(all, k + 1, Len(all)) \in Seq(S)
    BY <1>1
  <1> QED
    BY <1>2, <1>3 DEF RemoveAt

(* LInv is kept by every step of the clustering, an action at a time: the embeddings, *)
LEMMA ExtractsKeeps ==
    ASSUME DiarAssumption, LInv, Extracts
    PROVE  LInv'
  <1> DEFINE all == ChunkSpeakers(store.labels)
             S == {x \in (DOMAIN store.labels) \X Locals : Cardinality(Alone(store.labels, x[1], x[2])) >= MinAlone}
  <1>1. /\ stage = "audio" /\ cfg \in Configs /\ store \in Stores /\ members = <<>> /\ local = <<>>
        /\ pairs' = IF store.bad \in DOMAIN all THEN RemoveAt(all, store.bad) ELSE all
        /\ stage' = (IF pairs' = <<>> THEN "failed" ELSE "embeddings")
        /\ cfg' = cfg /\ members' = members /\ local' = local
    BY DEF Extracts, LInv
  <1>2. /\ DOMAIN store.labels = 1..Len(store.labels) /\ Len(store.labels) \in Nat
    <2>1. PICK A : store.labels \in Seq(A)
      BY <1>1 DEF DiarAssumption
    <2> QED
      BY <2>1, SequencesAreFunctions
  <1>3. all \in Seq(S)
    <2>1. PICK n \in Nat : DOMAIN store.labels = 1..n
      BY <1>2
    <2>2. IsFiniteSet(1..n) /\ IsFiniteSet(Locals)
      BY FS_Interval DEF DiarAssumption
    <2>3. IsFiniteSet((1..n) \X Locals)
      BY <2>2, FS_Product
    <2>4. S \subseteq (1..n) \X Locals
      BY <2>1
    <2>5. IsFiniteSet(S)
      <3> HIDE DEF S
      <3> QED
        BY <2>3, <2>4, FS_Subset
    <2>6. Locals \subseteq Int
      BY DEF DiarAssumption
    <2>7. Ordered(S, Earlier) \in Seq(S)
      <3> HIDE DEF S
      <3> QED
        BY <2>4, <2>5, <2>6, EarlierOrders
    <2> QED
      BY <2>7 DEF ChunkSpeakers
  <1>4. pairs' \in Seq(S)
    <2> HIDE DEF all, S
    <2> QED
      BY <1>1, <1>3, ListWithout
  <1>5. \A x \in S : x[1] \in Nat \ {0}
    <2>1. \A x \in S : x[1] \in DOMAIN store.labels
      OBVIOUS
    <2> HIDE DEF S
    <2> QED
      BY <1>2, <2>1
  <1>6. CASE pairs' = <<>>
    <2>1. stage' = "failed"
      BY <1>1, <1>6
    <2> QED
      BY <2>1 DEF LInv, Working, LabelsAreSound
  <1>7. CASE pairs' # <<>>
    <2>1. stage' = "embeddings"
      BY <1>1, <1>7
    <2>2. HasEmbeddings'
      <3>1. /\ DOMAIN pairs' = 1..Len(pairs') /\ Len(pairs') \in Nat
            /\ \A i \in 1..Len(pairs') : pairs'[i] \in S
        <4> HIDE DEF S
        <4> QED
          BY <1>4
      <3>2. Len(pairs') # 0
        <4> HIDE DEF S
        <4> QED
          BY <1>4, <1>7
      <3> HIDE DEF S
      <3> QED
        BY <1>1, <1>5, <3>1, <3>2 DEF HasEmbeddings, Embeddings
    <2>3. (cfg.mode = "pieces" => PiecesSoFar)'
      <3> SUFFICES ASSUME cfg'.mode = "pieces" PROVE PiecesSoFar'
        OBVIOUS
      <3>1. PieceCount' \in Nat \ {0}
        <4>1. (DiarAssumption /\ HasEmbeddings /\ cfg.mode = "pieces" => PieceCount \in Nat \ {0})'
          BY OwnersOwn, PTL
        <4> QED
          BY <2>2, <4>1 DEF DiarAssumption
      <3>2. members' = <<>> /\ local' = <<>> /\ Len(<<>>) = 0 /\ <<>> \in Seq(Range(<<>>))
        BY <1>1
      <3> QED
        BY <2>1, <3>1, <3>2 DEF PiecesSoFar, Pieced, IsSequence
    <2> QED
      BY <2>1, <2>2, <2>3 DEF LInv, Working, LabelsAreSound
  <1> QED
    BY <1>6, <1>7

(* the clustering of the whole meeting, *)
LEMMA ClustersWholeKeeps ==
    ASSUME DiarAssumption, LInv, ClustersWhole
    PROVE  LInv'
  <1>1. PICK base \in Partitions(Embeddings) :
          /\ linked' = base
          /\ clusters' \in IF cfg.minCount > 1 THEN ReassignSmall(base, cfg.minCount) ELSE {base}
    BY DEF ClustersWhole
  <1>2. /\ stage = "embeddings" /\ cfg.mode = "whole" /\ stage' = "labelled"
        /\ UNCHANGED <<cfg, pairs>>
    BY DEF ClustersWhole
  <1>3. HasEmbeddings /\ HasEmbeddings'
    BY <1>2, SameEmbeddings DEF LInv, Working
  <1>4. Embeddings \subseteq Int /\ IsFiniteSet(Embeddings)
    <2>1. PICK n \in Nat \ {0} : Embeddings = 1..n
      BY <1>3 DEF HasEmbeddings
    <2>2. IsFiniteSet(1..n) /\ 1..n \subseteq Int
      BY FS_Interval
    <2> QED
      BY <2>1, <2>2
  <1>5. DOMAIN base = Embeddings /\ FirstSeen(base) = base
    BY <1>4, PartitionsLabel
  <1>6. PICK least \in Int : least = cfg.minCount
    BY <1>3 DEF HasEmbeddings, DiarAssumption
  <1> DEFINE Who(labels, c) == {i \in DOMAIN labels : labels[i] = c}
  <1>7. \A labels, c : DOMAIN labels = Embeddings =>
          /\ Who(labels, c) \subseteq Embeddings /\ IsFiniteSet(Who(labels, c))
          /\ SizeOf(labels, c) = Cardinality(Who(labels, c)) /\ SizeOf(labels, c) \in Nat
    <2> SUFFICES ASSUME NEW labels, NEW c, DOMAIN labels = Embeddings
                 PROVE  /\ Who(labels, c) \subseteq Embeddings /\ IsFiniteSet(Who(labels, c))
                        /\ SizeOf(labels, c) = Cardinality(Who(labels, c)) /\ SizeOf(labels, c) \in Nat
      OBVIOUS
    <2>1. Who(labels, c) \subseteq Embeddings
      OBVIOUS
    <2>2. SizeOf(labels, c) = Cardinality(Who(labels, c))
      BY DEF SizeOf
    <2> HIDE DEF Who
    <2>3. IsFiniteSet(Who(labels, c))
      BY <1>4, <2>1, FS_Subset
    <2> QED
      BY <2>1, <2>2, <2>3, FS_CardinalityType
  <1>8. /\ clusters' = FirstSeen(clusters')
        /\ \/ \A c \in Range(clusters') : SizeOf(clusters', c) >= least
           \/ clusters' = base /\ \A c \in Range(base) : SizeOf(base, c) < least
    <2>1. CASE ~(least > 1)
      <3>1. clusters' = base
        BY <1>1, <1>6, <2>1
      <3>2. ASSUME NEW c \in Range(base) PROVE SizeOf(base, c) >= least
        <4>1. PICK i \in Embeddings : i \in Who(base, c)
          BY <1>5 DEF Range
        <4> HIDE DEF Who
        <4>2. Cardinality(Who(base, c)) # 0
          BY <1>5, <1>7, <4>1, FS_EmptySet
        <4> QED
          BY <1>5, <1>7, <2>1, <4>2
      <3> QED
        BY <1>5, <3>1, <3>2
    <2>2. CASE least > 1
      <3> DEFINE big == {c \in Range(base) : SizeOf(base, c) >= least}
      <3>1. clusters' \in IF big = {} THEN {FirstSeen(base)} ELSE Folded(base, big)
        BY <1>1, <1>6, <2>2 DEF ReassignSmall
      <3>2. CASE big = {}
        <4>1. clusters' = base
          BY <1>5, <3>1, <3>2
        <4>2. \A c \in Range(base) : SizeOf(base, c) < least
          <5>1. \A c \in Range(base) : SizeOf(base, c) \in Nat /\ ~(SizeOf(base, c) >= least)
            BY <1>5, <1>7, <3>2
          <5> QED
            BY <5>1
        <4> QED
          BY <1>5, <4>1, <4>2
      <3>3. CASE big # {}
        <4>1. PICK new \in Folded(base, big) : new = clusters'
          BY <3>1, <3>3
        <4>2. /\ DOMAIN new = Embeddings /\ new = FirstSeen(new)
              /\ \A c \in Range(new) : \E b \in big : \A i \in Embeddings : base[i] = b => new[i] = c
          <5> HIDE DEF big
          <5>1. DOMAIN new = Embeddings
            BY <1>5, <4>1 DEF Folded, FirstSeen
          <5>2. new = FirstSeen(new)
            BY <1>4, <1>5, FoldedKeeps
          <5>3. CoversBig(new, base, big)
            BY <1>4, <1>5, FoldedKeeps
          <5> QED
            BY <1>5, <5>1, <5>2, <5>3 DEF CoversBig
        <4>3. ASSUME NEW c \in Range(new) PROVE SizeOf(new, c) >= least
          <5>1. PICK b \in big : \A i \in Embeddings : base[i] = b => new[i] = c
            BY <4>2
          <5>2. Who(base, b) \subseteq Who(new, c)
            BY <1>5, <4>2, <5>1
          <5>3. SizeOf(base, b) >= least
            BY <5>1
          <5> HIDE DEF Who, big
          <5>4. Cardinality(Who(base, b)) <= Cardinality(Who(new, c))
            BY <1>7, <4>2, <5>2, FS_Subset
          <5> QED
            BY <1>5, <1>7, <4>2, <5>3, <5>4
        <4> QED
          BY <4>1, <4>2, <4>3
      <3> QED
        BY <3>2, <3>3
    <2> QED
      BY <2>1, <2>2
  <1>9. LabelsAreSound'
    BY <1>1, <1>2, <1>6, <1>8 DEF LabelsAreSound
  <1> QED
    BY <1>2, <1>3, <1>9 DEF LInv, Working

(* that of one piece, *)
LEMMA ClustersPieceKeeps ==
    ASSUME DiarAssumption, LInv, ClustersPiece
    PROVE  LInv'
  <1> DEFINE n == Len(local) + 1
  <1>1. PICK labels \in LocalLabels(Piece(Len(local))) : local' = Append(local, labels)
    BY DEF ClustersPiece
  <1>2. /\ stage = "embeddings" /\ cfg.mode = "pieces" /\ UNCHANGED <<cfg, pairs>>
        /\ members' = Append(members, Piece(Len(local)))
        /\ stage' = (IF n = PieceCount THEN "pieces" ELSE stage)
    BY DEF ClustersPiece
  <1>3. HasEmbeddings /\ HasEmbeddings' /\ Pieced /\ Len(local) < PieceCount
    BY <1>2, SameEmbeddings DEF LInv, Working, PiecesSoFar
  <1>4. PieceCount \in Nat /\ PieceCount' = PieceCount /\ \A k : Piece(k)' = Piece(k)
    BY <1>2, <1>3, OwnersOwn, SameEmbeddings
  <1>5. /\ IsSequence(local') /\ Len(local) \in Nat /\ Len(local') = n
        /\ \A k \in 1..Len(local) : local'[k] = local[k]
        /\ local'[n] = labels
    <2>1. local \in Seq(Range(local))
      BY <1>3 DEF Pieced, IsSequence
    <2> QED
      BY <1>1, <2>1, ListGrows DEF IsSequence
  <1>6. /\ IsSequence(members') /\ Len(members') = n
        /\ \A k \in 1..Len(local) : members'[k] = members[k]
        /\ members'[n] = Piece(n - 1)
    <2>1. members \in Seq(Range(members)) /\ Len(members) = Len(local)
      BY <1>3 DEF Pieced, IsSequence
    <2>2. n - 1 = Len(local)
      BY <1>5
    <2> QED
      BY <1>2, <2>1, <2>2, ListGrows DEF IsSequence
  <1>7. DOMAIN labels = Piece(n - 1) /\ \A i \in Piece(n - 1) : labels[i] \in Nat
    <2>1. n - 1 = Len(local)
      BY <1>5
    <2>2. Piece(n - 1) \subseteq Int /\ IsFiniteSet(Piece(n - 1))
      BY <1>3, PiecesAreFinite
    <2> QED
      BY <2>1, <2>2, LocalLabelsAreLabels
  <1>8. Pieced'
    <2>1. ASSUME NEW k \in 1..n
          PROVE  /\ members'[k] = Piece(k - 1) /\ DOMAIN local'[k] = Piece(k - 1)
                 /\ \A i \in Piece(k - 1) : local'[k][i] \in Nat
      <3>1. k \in 1..Len(local) \/ k = n
        BY <1>5
      <3>2. CASE k \in 1..Len(local)
        BY <1>3, <1>5, <1>6, <3>2 DEF Pieced
      <3>3. CASE k = n
        BY <1>5, <1>6, <1>7, <3>3
      <3> QED
        BY <3>1, <3>2, <3>3
    <2> QED
      BY <1>4, <1>5, <1>6, <2>1 DEF Pieced
  <1>9. PiecesSoFar' /\ stage' \in {"embeddings", "pieces"}
    <2>1. n \in Nat /\ n <= PieceCount
      BY <1>3, <1>4, <1>5
    <2>2. CASE n = PieceCount
      BY <1>2, <1>4, <1>5, <1>8, <2>2 DEF PiecesSoFar
    <2>3. CASE n # PieceCount
      <3>1. n < PieceCount /\ stage' = "embeddings"
        BY <1>2, <1>4, <2>1, <2>3
      <3> QED
        BY <1>4, <1>5, <1>8, <3>1 DEF PiecesSoFar
    <2> QED
      BY <2>2, <2>3
  <1> QED
    BY <1>2, <1>3, <1>9 DEF LInv, Working, LabelsAreSound

(* the overlaps of the pieces, *)
LEMMA JoinsKeeps ==
    ASSUME DiarAssumption, LInv, Joins
    PROVE  LInv'
  <1>1. /\ stage = "pieces" /\ stage' = "joined" /\ UNCHANGED <<cfg, pairs, members, local>>
        /\ root' = IF cfg.overlap > 0 THEN Rooted(MustLinks) ELSE Rooted({})
    BY DEF Joins
  <1>2. HasEmbeddings /\ HasEmbeddings' /\ cfg.mode = "pieces" /\ PiecesSoFar /\ Pieced
    BY <1>1, SameEmbeddings DEF LInv, Working, PiecesSoFar
  <1>3. PiecesSoFar'
    BY <1>1, <1>2, SameEmbeddings, SamePieces DEF PiecesSoFar
  <1>4. AllCandidates \subseteq Int
    BY <1>2, CandidatesAreNumbers
  <1>5. IsFiniteSet(MustLinks) /\ MustLinks \subseteq AllCandidates \X AllCandidates
    BY <1>2, MustLinksJoinCandidates
  <1>6. /\ Rooted(MustLinks) \in [AllCandidates -> Int]
        /\ \A x \in MustLinks : Rooted(MustLinks)[x[1]] = Rooted(MustLinks)[x[2]]
    BY <1>4, <1>5, RootsJoin
  <1>7. Rooted({}) \in [AllCandidates -> Int]
    <2>1. PICK none : none = {} /\ IsFiniteSet(none) /\ none \subseteq AllCandidates \X AllCandidates
      BY FS_EmptySet
    <2>2. Rooted(none) \in [AllCandidates -> Int]
      BY <1>4, <2>1, RootsJoin
    <2> QED
      BY <2>1, <2>2
  <1>8. RootsAreOne'
    <2>1. root' \in [AllCandidates -> Int]
      BY <1>1, <1>6, <1>7
    <2>2. cfg.overlap > 0 => \A x \in MustLinks : root'[x[1]] = root'[x[2]]
      BY <1>1, <1>6
    <2> QED
      BY <1>1, <2>1, <2>2, SamePieces DEF RootsAreOne
  <1> QED
    BY <1>1, <1>2, <1>3, <1>8 DEF LInv, Working, LabelsAreSound

(* The embeddings are numbered. *)
LEMMA EmbeddingsAreNumbers ==
    ASSUME HasEmbeddings
    PROVE  Embeddings \subseteq Int /\ IsFiniteSet(Embeddings) /\ Embeddings # {}
  <1>1. PICK n \in Nat \ {0} : Embeddings = 1..n
    BY DEF HasEmbeddings
  <1>2. IsFiniteSet(1..n) /\ 1..n \subseteq Int /\ 1 \in 1..n
    BY FS_Interval
  <1> QED
    BY <1>1, <1>2

(* LInv is kept by the linkage of the candidates, *)
LEMMA LinksPiecesKeeps ==
    ASSUME DiarAssumption, LInv, LinksPieces
    PROVE  LInv'
  <1>1. PICK to \in Links : linked' = FirstSeen([i \in Embeddings |-> to[Node(i)]])
    BY DEF LinksPieces
  <1>2. stage = "joined" /\ stage' = "linked" /\ UNCHANGED <<cfg, pairs, members, local, root>>
    BY DEF LinksPieces
  <1>3. HasEmbeddings /\ HasEmbeddings' /\ cfg.mode = "pieces" /\ PiecesSoFar /\ Pieced /\ RootsAreOne
    BY <1>2, SameEmbeddings DEF LInv, Working, PiecesSoFar
  <1>4. PiecesSoFar' /\ RootsAreOne'
    BY <1>2, <1>3, SameEmbeddings, SamePieces, SameRoots DEF PiecesSoFar
  <1>5. Embeddings \subseteq Int /\ IsFiniteSet(Embeddings)
    BY <1>3, EmbeddingsAreNumbers
  <1>6. \A i \in Embeddings : Node(i) \in Nodes
    <2>1. \A i \in Embeddings : Of(i) \in AllCandidates
      BY <1>2, <1>3, OfIsCandidate DEF PiecesSoFar
    <2> QED
      BY <1>3, <2>1 DEF RootsAreOne, Node, Nodes, Range
  <1> DEFINE g == [i \in Embeddings |-> to[Node(i)]]
  <1>7. /\ DOMAIN linked' = Embeddings /\ linked' = FirstSeen(linked')
        /\ \A i, j \in Embeddings : linked'[i] = linked'[j] <=> to[Node(i)] = to[Node(j)]
    <2>1. DOMAIN g = Embeddings
      OBVIOUS
    <2>2. \A i, j \in Embeddings : g[i] = g[j] <=> to[Node(i)] = to[Node(j)]
      OBVIOUS
    <2>3. linked' = FirstSeen(g)
      BY <1>1
    <2> HIDE DEF g
    <2>4. /\ DOMAIN FirstSeen(g) = Embeddings
          /\ \A i, j \in Embeddings : FirstSeen(g)[i] = FirstSeen(g)[j] <=> g[i] = g[j]
      <3>1. DOMAIN FirstSeen(g) = Embeddings
        BY <2>1 DEF FirstSeen
      <3>2. PICK D : D = Embeddings /\ D \subseteq Int /\ IsFiniteSet(D) /\ DOMAIN g = D
        BY <1>5, <2>1
      <3>3. \A i, j \in D : FirstSeen(g)[i] = FirstSeen(g)[j] <=> g[i] = g[j]
        BY <3>2, FirstSeenIsLabels
      <3> QED
        BY <3>1, <3>2, <3>3
    <2>5. FirstSeen(FirstSeen(g)) = FirstSeen(g)
      BY <1>5, <2>1, FirstSeenOnce
    <2> QED
      BY <2>2, <2>3, <2>4, <2>5
  <1>8. LinksAreSound'
    <2>1. \A i, j \in Embeddings : Node(i) = Node(j) => linked'[i] = linked'[j]
      BY <1>7
    <2>2. \A i, j \in Embeddings : linked'[i] = linked'[j] => ~Apart(Node(i), Node(j))
      BY <1>1, <1>6, <1>7 DEF Links
    <2> QED
      BY <1>2, <1>7, <2>1, <2>2, SameEmbeddings, SameRoots DEF LinksAreSound
  <1> QED
    BY <1>2, <1>3, <1>4, <1>8 DEF LInv, Working, LabelsAreSound

(* What the floor weighs are numbers.                                                            *)
LEMMA FloorsWeigh ==
    ASSUME DiarAssumption, HasEmbeddings, cfg.mode = "pieces"
    PROVE  (\A i \in Embeddings : Speech(i) \in Nat) /\ Floor \in Int
  <1>1. ASSUME NEW i \in Embeddings PROVE Speech(i) \in Nat
    <2> DEFINE mine == Alone(store.labels, pairs[i][1], pairs[i][2])
    <2>1. mine \subseteq 1..ChunkFrames
      BY DEF Alone
    <2>2. IsFiniteSet(1..ChunkFrames)
      BY FS_Interval DEF DiarAssumption
    <2>3. Cardinality(mine) \in Nat
      <3> HIDE DEF mine
      <3> QED
        BY <2>1, <2>2, FS_Subset, FS_CardinalityType
    <2>4. \A a, b \in Nat : a * b \in Nat
      OBVIOUS
    <2>5. Speech(i) = Cardinality(mine) * Shift
      BY DEF Speech
    <2> HIDE DEF mine
    <2> QED
      BY <2>3, <2>4, <2>5 DEF DiarAssumption
  <1>2. cfg.floor \in Int
    BY DEF HasEmbeddings, DiarAssumption
  <1>3. SumFunction([i \in Embeddings |-> Speech(i)]) \in Nat
    <2> DEFINE w == [i \in Embeddings |-> Speech(i)]
    <2>1. DOMAIN w = Embeddings /\ \A i \in Embeddings : w[i] \in Nat
      BY <1>1
    <2> HIDE DEF w
    <2>2. SumFunctionOnSet(w, Embeddings) \in Nat
      BY <2>1, EmbeddingsAreNumbers, SumIsNat
    <2>3. SumFunction(w) \in Nat
      BY <2>1, <2>2 DEF SumFunction
    <2> QED
      BY <2>3 DEF w
  <1>4. \A n \in Nat : \A percent \in Int : Ceiling(n, percent) \in Int
    <2>1. \A n \in Nat : \A percent \in Int : n * percent \in Int
      OBVIOUS
    <2>2. \A a \in Int : (a + 99) \div 100 \in Int
      OBVIOUS
    <2> QED
      BY <2>1, <2>2 DEF Ceiling
  <1>5. Floor \in Int
    BY <1>2, <1>3, <1>4 DEF Floor
  <1> QED
    BY <1>1, <1>5

(* Nobody under the floor is left beside somebody else.                                           *)
Floored(new, weight, floor) == (\A c \in Range(new) : Weighs(new, weight, c) >= floor) \/ Range(new) = {0}
AtFloor(labels, weight, floor) == IF floor > 0 THEN KeepBig(labels, weight, floor) ELSE {labels}

(* After the floor nobody is under it, or all are one, and nobody is parted. *)
LEMMA FloorHolds ==
    ASSUME NEW labels, DOMAIN labels \subseteq Int, IsFiniteSet(DOMAIN labels), DOMAIN labels # {},
           labels = FirstSeen(labels), NEW weight, \A i \in DOMAIN labels : weight[i] \in Nat, NEW floor \in Int,
           NEW new \in AtFloor(labels, weight, floor)
    PROVE  /\ DOMAIN new = DOMAIN labels /\ new = FirstSeen(new)
           /\ \A i, j \in DOMAIN labels : labels[i] = labels[j] => new[i] = new[j]
           /\ Floored(new, weight, floor)
  <1> DEFINE Who(l, c) == {i \in DOMAIN l : l[i] = c}
  <1>1. \A l, c : DOMAIN l = DOMAIN labels =>
          /\ Who(l, c) \subseteq DOMAIN labels /\ IsFiniteSet(Who(l, c))
          /\ Weighs(l, weight, c) = SumFunctionOnSet(weight, Who(l, c)) /\ Weighs(l, weight, c) \in Nat
    <2> SUFFICES ASSUME NEW l, NEW c, DOMAIN l = DOMAIN labels
                 PROVE  /\ Who(l, c) \subseteq DOMAIN labels /\ IsFiniteSet(Who(l, c))
                        /\ Weighs(l, weight, c) = SumFunctionOnSet(weight, Who(l, c)) /\ Weighs(l, weight, c) \in Nat
      OBVIOUS
    <2>1. Who(l, c) \subseteq DOMAIN labels
      OBVIOUS
    <2>2. Weighs(l, weight, c) = SumFunctionOnSet(weight, Who(l, c))
      BY DEF Weighs
    <2> HIDE DEF Who
    <2>3. IsFiniteSet(Who(l, c))
      BY <2>1, FS_Subset
    <2>4. SumFunctionOnSet(weight, Who(l, c)) \in Nat
      BY <2>1, <2>3, SumIsNat
    <2> QED
      BY <2>1, <2>2, <2>3, <2>4
  <1>2. CASE ~(floor > 0)
    <2>1. new = labels
      BY <1>2 DEF AtFloor
    <2>2. \A c : Weighs(labels, weight, c) >= floor
      <3> HIDE DEF Who
      <3> QED
        BY <1>1, <1>2
    <2> QED
      BY <2>1, <2>2 DEF Floored
  <1>3. CASE floor > 0
    <2> DEFINE ids == Range(labels)
               big == {c \in ids : Weighs(labels, weight, c) >= floor}
               kept == BigOnes(labels, weight, floor)
    <2>1. new \in Folded(labels, kept)
      BY <1>3 DEF AtFloor, KeepBig
    <2>2. kept = big \/ \E b : kept = {b}
      BY DEF BigOnes
    <2> HIDE DEF kept
    <2>3. DOMAIN new = DOMAIN labels
      BY <2>1 DEF Folded, FirstSeen
    <2>4. new = FirstSeen(new)
      BY <2>1, FoldedKeeps
    <2>5. \A i, j \in DOMAIN labels : labels[i] = labels[j] => new[i] = new[j]
      BY <2>1, FoldedKeeps
    <2>6. CASE kept = big
      <3>1. CoversBig(new, labels, kept)
        BY <2>1, FoldedKeeps
      <3>2. ASSUME NEW c \in Range(new) PROVE Weighs(new, weight, c) >= floor
        <4>1. PICK b \in big : \A i \in DOMAIN labels : labels[i] = b => new[i] = c
          BY <2>6, <3>1 DEF CoversBig
        <4>2. Who(labels, b) \subseteq Who(new, c)
          BY <2>3, <4>1
        <4>3. Weighs(labels, weight, b) >= floor
          BY <4>1
        <4> HIDE DEF Who, big
        <4>4. SumFunctionOnSet(weight, Who(labels, b)) <= SumFunctionOnSet(weight, Who(new, c))
          <5>1. \A i \in Who(new, c) : weight[i] \in Nat
            BY <1>1, <2>3
          <5> QED
            BY <1>1, <2>3, <4>2, <5>1, PartWeighsLess
        <4> QED
          BY <1>1, <2>3, <4>3, <4>4
      <3> QED
        BY <2>3, <2>4, <2>5, <3>2 DEF Floored
    <2>7. CASE \E b : kept = {b}
      <3>1. \A i, j \in DOMAIN labels : new[i] = new[j]
        BY <2>1, <2>7, FoldedKeeps, ZenonT(60)
      <3>2. Range(FirstSeen(new)) = {0}
        BY <2>3, <3>1, OneLabelIsZero
      <3> QED
        BY <2>3, <2>4, <2>5, <3>2 DEF Floored
    <2> QED
      BY <2>2, <2>6, <2>7
  <1> QED
    BY <1>2, <1>3

(* LInv is kept by the floor of the meeting, *)
LEMMA FloorsKeeps ==
    ASSUME DiarAssumption, LInv, Floors
    PROVE  LInv'
  <1> DEFINE W == [i \in Embeddings |-> Speech(i)]
  <1>1. /\ stage = "linked" /\ stage' = "labelled"
        /\ UNCHANGED <<store, cfg, pairs, members, local, root, linked>>
        /\ clusters' \in IF Floor > 0 THEN KeepBig(linked, W, Floor) ELSE {linked}
    BY DEF Floors
  <1>2. HasEmbeddings /\ cfg.mode = "pieces" /\ PiecesSoFar /\ Pieced /\ RootsAreOne /\ LinksAreSound
    BY <1>1 DEF LInv, Working, PiecesSoFar
  <1>3. HasEmbeddings' /\ PiecesSoFar'
    BY <1>1, <1>2, SameEmbeddings, SamePieces DEF PiecesSoFar
  <1>4. /\ DOMAIN linked = Embeddings /\ linked = FirstSeen(linked)
        /\ DOMAIN linked \subseteq Int /\ IsFiniteSet(DOMAIN linked) /\ DOMAIN linked # {}
    BY <1>2, EmbeddingsAreNumbers DEF LinksAreSound
  <1>5. (\A i \in DOMAIN linked : W[i] \in Nat) /\ Floor \in Int
    BY <1>2, <1>4, FloorsWeigh
  <1>6. /\ DOMAIN clusters' = DOMAIN linked /\ clusters' = FirstSeen(clusters')
        /\ \A i, j \in DOMAIN linked : linked[i] = linked[j] => clusters'[i] = clusters'[j]
        /\ (\A c \in Range(clusters') : Weighs(clusters', W, c) >= Floor) \/ Range(clusters') = {0}
    <2>1. PICK w, floor, new : w = W /\ floor = Floor /\ new = clusters' /\ floor \in Int
      <3> HIDE DEF W
      <3> QED
        BY <1>5
    <2>2. new \in AtFloor(linked, w, floor)
      BY <1>1, <2>1 DEF AtFloor
    <2>3. \A i \in DOMAIN linked : w[i] \in Nat
      BY <1>5, <2>1
    <2> HIDE DEF W
    <2>4. /\ DOMAIN new = DOMAIN linked /\ new = FirstSeen(new)
          /\ \A i, j \in DOMAIN linked : linked[i] = linked[j] => new[i] = new[j]
          /\ Floored(new, w, floor)
      BY <1>4, <2>1, <2>2, <2>3, FloorHolds
    <2> QED
      BY <2>1, <2>4 DEF Floored
  <1>7. ASSUME NEW i \in Embeddings, NEW j \in Embeddings,
               Of(i) = Of(j) \/ (cfg.overlap > 0 /\ <<Of(i), Of(j)>> \in MustLinks)
        PROVE  clusters'[i] = clusters'[j]
    <2>1. Node(i) = Node(j)
      BY <1>2, <1>7 DEF RootsAreOne, Node
    <2>2. linked[i] = linked[j]
      BY <1>2, <2>1 DEF LinksAreSound
    <2> QED
      BY <1>4, <1>6, <2>2
  <1>8. ASSUME NEW i \in Embeddings, NEW j \in Embeddings, cfg.cannotLink, Owner(i) = Owner(j), linked[i] = linked[j]
        PROVE  Node(i) = Node(j)
    <2>1. ~Apart(Node(i), Node(j))
      BY <1>2, <1>8 DEF LinksAreSound
    <2>2. \A k \in Embeddings : /\ Owner(k) \in 0..Len(local) - 1
                                /\ local[Owner(k) + 1][k] \in Range(local[Owner(k) + 1])
      BY <1>1, <1>2, OfIsCandidate DEF PiecesSoFar
    <2>3. \A k \in Embeddings : Owner(k) \in PiecesOf(Node(k))
      BY <2>2 DEF PiecesOf, Node, Of
    <2>4. Owner(i) \in PiecesOf(Node(i)) \cap PiecesOf(Node(j))
      BY <1>8, <2>3
    <2> QED
      BY <1>8, <2>1, <2>4 DEF Apart
  <1>9. LabelsAreSound'
    <2>1. \A c : Weighs(clusters, [i \in Embeddings |-> Speech(i)], c)' = Weighs(clusters', W, c)
      BY <1>1, SameSpeech DEF Weighs
    <2>2. Floor' = Floor /\ MustLinks' = MustLinks /\ Embeddings' = Embeddings
      BY <1>1, SameSpeech, SamePieces, SameEmbeddings
    <2>3. \A i : Of(i)' = Of(i) /\ Owner(i)' = Owner(i) /\ Node(i)' = Node(i)
      BY <1>1, SamePieces, SameEmbeddings, SameRoots
    <2>4. (\A c \in Range(clusters) : Weighs(clusters, [i \in Embeddings |-> Speech(i)], c) >= Floor)'
             \/ Range(clusters') = {0}
      BY <1>6, <2>1, <2>2
    <2>5. \A i, j \in Embeddings' :
             (Of(i) = Of(j) \/ (cfg.overlap > 0 /\ <<Of(i), Of(j)>> \in MustLinks) => clusters[i] = clusters[j])'
      BY <1>1, <1>7, <2>2, <2>3
    <2>6. \A i, j \in Embeddings' :
             (cfg.cannotLink /\ Owner(i) = Owner(j) /\ linked[i] = linked[j] => Node(i) = Node(j))'
      BY <1>1, <1>8, <2>2, <2>3
    <2>7. cfg'.mode = "pieces" /\ clusters' = FirstSeen(clusters')
      BY <1>1, <1>2, <1>6
    <2> QED
      BY <2>4, <2>5, <2>6, <2>7 DEF LabelsAreSound
  <1> QED
    BY <1>1, <1>2, <1>3, <1>9 DEF LInv, Working

(* and by the steps that leave the labels alone. *)
LEMMA RestKeeps ==
    ASSUME LInv, UNCHANGED vars
    PROVE  LInv'
  <1>1. UNCHANGED <<stage, store, cfg, pairs, members, local, root, linked, clusters>>
    BY DEF vars, pipeline
  <1>2. /\ HasEmbeddings => HasEmbeddings'
        /\ PiecesSoFar => PiecesSoFar'
        /\ RootsAreOne => RootsAreOne'
    BY <1>1, SameEmbeddings, SamePieces, SameRoots DEF PiecesSoFar
  <1>3. LinksAreSound => LinksAreSound'
    BY <1>1, SameEmbeddings, SameRoots DEF LinksAreSound
  <1>4. LabelsAreSound => LabelsAreSound'
    <2>1. Floor' = Floor /\ MustLinks' = MustLinks /\ Embeddings' = Embeddings
      BY <1>1, SameSpeech, SamePieces, SameEmbeddings
    <2>2. \A i : Of(i)' = Of(i) /\ Owner(i)' = Owner(i) /\ Node(i)' = Node(i)
      BY <1>1, SamePieces, SameEmbeddings, SameRoots
    <2>3. \A c : Weighs(clusters, [i \in Embeddings |-> Speech(i)], c)'
                  = Weighs(clusters, [i \in Embeddings |-> Speech(i)], c)
      BY <1>1, SameSpeech DEF Weighs
    <2> QED
      BY <1>1, <2>1, <2>2, <2>3 DEF LabelsAreSound
  <1> QED
    BY <1>1, <1>2, <1>3, <1>4 DEF LInv

(* The invariant of the labels, in every state. *)
LEMMA LabelsInvariant == Spec => []LInv
  <1>1. Init => LInv
    BY DEF Init, Unset, LInv, Working, LabelsAreSound
  <1>2. ASSUME LInv, [Next]_vars PROVE LInv'
    <2>1. CASE Extracts
      BY <1>2, <2>1, DiarAssumption, ExtractsKeeps
    <2>2. CASE ClustersWhole
      BY <1>2, <2>2, DiarAssumption, ClustersWholeKeeps
    <2>3. CASE ClustersPiece
      BY <1>2, <2>3, DiarAssumption, ClustersPieceKeeps
    <2>4. CASE Joins
      BY <1>2, <2>4, DiarAssumption, JoinsKeeps
    <2>5. CASE LinksPieces
      BY <1>2, <2>5, DiarAssumption, LinksPiecesKeeps
    <2>6. CASE Floors
      BY <1>2, <2>6, DiarAssumption, FloorsKeeps
    <2>7. CASE stage' \in {"turns", "matching", "scored"}
      BY <2>7 DEF LInv, Working, LabelsAreSound
    <2>8. CASE UNCHANGED vars
      BY <1>2, <2>8, RestKeeps
    <2>9. Reconstructs \/ Matches \/ Assigns \/ Scores => stage' \in {"turns", "matching", "scored"}
      BY DEF Reconstructs, Matches, Assigns, Scores
    <2> QED
      BY <1>2, <2>1, <2>2, <2>3, <2>4, <2>5, <2>6, <2>7, <2>8, <2>9 DEF Next, Ended
  <1> QED
    BY <1>1, <1>2, PTL DEF Spec
(* The labels of a meeting are sound, whatever its embeddings, the partitions the linkage finds    *)
(* and the settings: what diar_chunk.py and diar_pipe.py give is numbered by first embedding,      *)
(* leaves nobody under the floor beside somebody else, keeps what an overlap joined as one and      *)
(* joins nothing else of a piece with cannotLink.                                                    *)
THEOREM LabelsStaySound == Spec => []LabelsAreSound
  <1>1. LInv => LabelsAreSound
    BY DEF LInv
  <1> QED
    BY <1>1, LabelsInvariant, PTL

-----------------------------------------------------------------------------
(* Turns.  What a meeting says of its frames are numbers.                                        *)
LEMMA FramesAreNumbers ==
    ASSUME DiarAssumption, NEW A, NEW labels \in Seq(A), NEW samples \in Int
    PROVE  Frames(labels, samples) \in Int
  <1>1. Window \in Int /\ Shift \in Int /\ FrameShift \in Nat \ {0} /\ Len(labels) \in Nat
    BY DEF DiarAssumption
  <1>2. \A a \in Int : \A b \in Nat \ {0} : a \div b \in Int
    OBVIOUS
  <1>3. AllFrames(labels) \in Int
    <2>1. \A a, b \in Int : a * b \in Int
      OBVIOUS
    <2>2. (Len(labels) - 1) * Shift \in Int
      BY <1>1, <2>1
    <2>3. Window + (Len(labels) - 1) * Shift \in Int
      BY <1>1, <2>2
    <2>4. (Window + (Len(labels) - 1) * Shift) \div FrameShift \in Int
      BY <1>1, <1>2, <2>3
    <2> QED
      BY <2>4 DEF AllFrames
  <1>4. PICK a \in Int, b \in Int : a = samples \div FrameShift /\ b = AllFrames(labels) - 1
    BY <1>1, <1>2, <1>3
  <1>5. Min({a, b}) \in Int
    BY PairExtremes
  <1>6. Min({samples \div FrameShift, AllFrames(labels) - 1}) + 1 \in Int
    BY <1>4, <1>5
  <1> QED
    BY <1>3, <1>6 DEF Frames

(* The frames of a store and how many speak in each are numbers. *)
LEMMA SpeakersAreNumbers ==
    ASSUME DiarAssumption, NEW s \in Stores
    PROVE  /\ IsFiniteSet(DOMAIN s.labels) /\ \A ch \in DOMAIN s.labels : StartOf(ch) \in Int
           /\ Frames(s.labels, s.samples) \in Int
           /\ \A f \in Int : SpeakersPerFrame(s.labels, f) \in Nat
  <1>1. DOMAIN s.labels = 1..Len(s.labels) /\ Len(s.labels) \in Nat /\ s.samples \in Int
    <2>1. PICK A : s.labels \in Seq(A)
      BY DEF DiarAssumption
    <2> QED
      BY <2>1, SequencesAreFunctions DEF DiarAssumption
  <1>2. IsFiniteSet(DOMAIN s.labels)
    BY <1>1, FS_Interval
  <1>3. Window \in Int /\ Shift \in Int /\ FrameShift \in Nat \ {0} /\ ChunkFrames \in Nat
    BY DEF DiarAssumption
  <1>4. \A a \in Int : \A b \in Nat \ {0} : a \div b \in Int
    OBVIOUS
  <1>5. \A a, b \in Int : a * b \in Int
    OBVIOUS
  <1>6. ASSUME NEW ch \in DOMAIN s.labels PROVE StartOf(ch) \in Int
    <2>1. 2 * (ch - 1) \in Int
      BY <1>1
    <2>2. 2 * (ch - 1) * Shift + FrameShift \in Int /\ 2 * FrameShift \in Nat \ {0}
      BY <1>3, <1>5, <2>1
    <2> QED
      BY <1>4, <2>2 DEF StartOf
  <1>7. Frames(s.labels, s.samples) \in Int
    <2>1. PICK A : s.labels \in Seq(A)
      BY DEF DiarAssumption
    <2> QED
      BY <1>1, <2>1, FramesAreNumbers
  <1>8. ASSUME NEW f \in Int PROVE SpeakersPerFrame(s.labels, f) \in Nat
    <2> DEFINE over == {c \in DOMAIN s.labels : Covers(c, f)}
               w == [c \in over |-> Cardinality(In(s.labels, c, f))]
    <2>1. IsFiniteSet(over) /\ Cardinality(over) \in Nat
      BY <1>2, FS_Subset, FS_CardinalityType
    <2>2. ASSUME NEW c \in over PROVE w[c] \in Nat
      <3>1. f - StartOf(c) + 1 \in 1..ChunkFrames
        BY <1>3, <1>6 DEF Covers
      <3>2. IsFiniteSet(In(s.labels, c, f))
        BY <3>1 DEF In, DiarAssumption
      <3> QED
        BY <3>2, FS_CardinalityType
    <2>3. SumFunction(w) \in Nat
      <3>1. DOMAIN w = over
        OBVIOUS
      <3> HIDE DEF w, over
      <3> QED
        BY <2>1, <2>2, <3>1, SumIsNat DEF SumFunction
    <2>4. SpeakersPerFrame(s.labels, f)
            = IF over = {} THEN 0 ELSE (2 * SumFunction(w) + Cardinality(over)) \div (2 * Cardinality(over))
      BY DEF SpeakersPerFrame
    <2>5. over # {} => Cardinality(over) # 0
      <3> HIDE DEF over
      <3> QED
        BY <2>1, FS_EmptySet
    <2> HIDE DEF over, w
    <2>6. over # {} => (2 * SumFunction(w) + Cardinality(over)) \div (2 * Cardinality(over)) \in Nat
      <3> SUFFICES ASSUME over # {}
                   PROVE  (2 * SumFunction(w) + Cardinality(over)) \div (2 * Cardinality(over)) \in Nat
        OBVIOUS
      <3>1. 2 * SumFunction(w) + Cardinality(over) \in Nat /\ 2 * Cardinality(over) \in Nat \ {0}
        BY <2>1, <2>3, <2>5
      <3> QED
        BY <3>1, DivBounds
    <2> QED
      BY <2>4, <2>6
  <1> QED
    BY <1>2, <1>6, <1>7, <1>8

(* Votes are counted. *)
LEMMA VotesAreNumbers ==
    ASSUME NEW labels, IsFiniteSet(DOMAIN labels), NEW of, NEW f, NEW c
    PROVE  Votes(labels, of, f, c) \in Nat
  <1> DEFINE voters == {ch \in DOMAIN labels :
                          Covers(ch, f) /\ \E x \in of : x[1] = ch /\ x[2] \in In(labels, ch, f) /\ x[3] = c}
  <1>1. voters \subseteq DOMAIN labels /\ Votes(labels, of, f, c) = Cardinality(voters)
    BY DEF Votes
  <1> HIDE DEF voters
  <1> QED
    BY <1>1, FS_Subset, FS_CardinalityType

VotedFor(labels, of, first, last) ==
    {x[3] : x \in {y \in of : y[1] \in
        {ch \in DOMAIN labels : StartOf(ch) + ChunkFrames > first /\ StartOf(ch) <= last}}}
(* Whoever has a vote in a frame is voted for in its block.                                        *)
LEMMA VotedInBlock ==
    ASSUME NEW labels, NEW of, NEW f \in Int, NEW c, Votes(labels, of, f, c) # 0,
           \A ch \in DOMAIN labels : StartOf(ch) \in Int, ChunkFrames \in Nat,
           NEW first \in Int, NEW last \in Int, first <= f, f <= last
    PROVE  c \in VotedFor(labels, of, first, last)
  <1> DEFINE voters == {ch \in DOMAIN labels :
                          Covers(ch, f) /\ \E x \in of : x[1] = ch /\ x[2] \in In(labels, ch, f) /\ x[3] = c}
  <1>1. voters # {}
    BY FS_EmptySet DEF Votes
  <1>2. PICK ch \in DOMAIN labels : Covers(ch, f) /\ \E x \in of : x[1] = ch /\ x[3] = c
    BY <1>1
  <1>3. StartOf(ch) + ChunkFrames > first /\ StartOf(ch) <= last
    BY <1>2 DEF Covers
  <1> QED
    BY <1>2, <1>3 DEF VotedFor

-----------------------------------------------------------------------------
(* Who leads: of a tally of votes, the first k, ties to the lower.                                 *)
Tally(votes, S) == {<<c, votes[c]>> : c \in S}
AheadOf(T, x) == {y \in T : y[2] > x[2] \/ (y[2] = x[2] /\ y[1] < x[1])}
TopOf(T, k) == {x[1] : x \in {y \in T : Cardinality(AheadOf(T, y)) < k}}

(* Distinct clusters have distinct places in the tally. *)
LEMMA LowestAreMany ==
    ASSUME NEW votes, NEW A, IsFiniteSet(A), NEW m \in Nat, Tally(votes, 0..m - 1) \subseteq A
    PROVE  m <= Cardinality(A)
  <1> DEFINE S == 0..m - 1
             f == [c \in S |-> <<c, votes[c]>>]
  <1>1. f \in Injection(S, A)
    <2>1. \A c \in S : f[c] \in A
      BY DEF Tally
    <2>2. \A c, d \in S : f[c] = f[d] => c = d
      OBVIOUS
    <2>3. f = [c \in S |-> f[c]]
      OBVIOUS
    <2> HIDE DEF f, S
    <2> QED
      BY <2>1, <2>2, <2>3 DEF Injection, IsInjective
  <1>2. Cardinality(S) = m
    <2>1. 0 \in Int /\ m - 1 \in Int /\ (IF 0 > m - 1 THEN 0 ELSE (m - 1) - 0 + 1) = m
      OBVIOUS
    <2> QED
      BY <2>1, FS_Interval
  <1>3. Cardinality(S) <= Cardinality(A)
    <2> HIDE DEF f, S
    <2> QED
      BY <1>1, FS_Injection
  <1> QED
    BY <1>2, <1>3

Enough(votes, Cand, h, d) ==
    /\ Cand \subseteq 0..h
    /\ \A c \in 0..h : votes[c] \in Nat /\ (votes[c] # 0 \/ c < d => c \in Cand)
(* It is enough to count those who have a vote and as many of the lowest as may be taken.           *)
LEMMA TopsAgree ==
    ASSUME NEW h \in Nat, NEW votes, NEW Cand, NEW k \in Int, NEW d \in Nat, k <= d, Enough(votes, Cand, h, d)
    PROVE  TopOf(Tally(votes, Cand), k) = TopOf(Tally(votes, 0..h), k)
  <1> DEFINE T == Tally(votes, Cand)
             U == Tally(votes, 0..h)
  <1>0. /\ Cand \subseteq 0..h
        /\ \A c \in 0..h : votes[c] \in Nat /\ (votes[c] # 0 \/ c < d => c \in Cand)
    BY DEF Enough
  <1>1. T \subseteq U /\ \A x \in U : /\ x[1] \in 0..h /\ x[2] = votes[x[1]] /\ x[2] \in Nat
                                      /\ x[1] \in Cand => x \in T
    BY <1>0 DEF Tally
  <1>2. IsFiniteSet(U)
    <2> DEFINE f == [c \in 0..h |-> <<c, votes[c]>>]
    <2>1. f \in Surjection(0..h, U)
      BY DEF Surjection, Tally
    <2>2. IsFiniteSet(0..h)
      BY FS_Interval
    <2> HIDE DEF f, U
    <2> QED
      BY <2>1, <2>2, FS_Surjection
  <1>3. \A x : /\ AheadOf(T, x) \subseteq AheadOf(U, x) /\ IsFiniteSet(AheadOf(U, x)) /\ IsFiniteSet(AheadOf(T, x))
               /\ Cardinality(AheadOf(U, x)) \in Nat /\ Cardinality(AheadOf(T, x)) \in Nat
    <2> SUFFICES ASSUME NEW x
                 PROVE  /\ AheadOf(T, x) \subseteq AheadOf(U, x) /\ IsFiniteSet(AheadOf(U, x)) /\ IsFiniteSet(AheadOf(T, x))
                        /\ Cardinality(AheadOf(U, x)) \in Nat /\ Cardinality(AheadOf(T, x)) \in Nat
      OBVIOUS
    <2> HIDE DEF T, U
    <2>1. AheadOf(T, x) \subseteq AheadOf(U, x) /\ AheadOf(U, x) \subseteq U
      BY <1>1 DEF AheadOf
    <2>2. IsFiniteSet(AheadOf(U, x))
      BY <1>2, <2>1, FS_Subset
    <2>3. IsFiniteSet(AheadOf(T, x))
      BY <2>1, <2>2, FS_Subset
    <2> QED
      BY <2>1, <2>2, <2>3, FS_CardinalityType
  (* Without a vote, all below are ahead.                                                            *)
  <1>4. ASSUME NEW x \in U, x[2] = 0, NEW m \in Nat, m <= x[1], NEW S, Tally(votes, 0..m - 1) \subseteq S, S \subseteq U
        PROVE  Tally(votes, 0..m - 1) \subseteq AheadOf(S, x)
    <2> SUFFICES ASSUME NEW c \in 0..m - 1 PROVE <<c, votes[c]>> \in AheadOf(S, x)
      BY DEF Tally
    <2>1. <<c, votes[c]>> \in S /\ <<c, votes[c]>> \in U
      BY <1>4 DEF Tally
    <2>2. c \in Int /\ c < x[1] /\ votes[c] \in Nat
      BY <1>0, <1>1, <1>4
    <2>3. votes[c] > 0 \/ (votes[c] = 0 /\ c < x[1])
      BY <2>2
    <2> HIDE DEF U
    <2> QED
      BY <1>4, <2>1, <2>3 DEF AheadOf
  <1>5. ASSUME NEW x \in T, Cardinality(AheadOf(T, x)) < k PROVE AheadOf(U, x) = AheadOf(T, x)
    <2> SUFFICES ASSUME NEW y \in AheadOf(U, x), y \notin AheadOf(T, x) PROVE FALSE
      BY <1>3
    <2>1. y \in U /\ y \notin T /\ (y[2] > x[2] \/ (y[2] = x[2] /\ y[1] < x[1]))
      BY DEF AheadOf
    <2>2. y[2] = 0 /\ ~(y[1] < d) /\ x \in U
      BY <1>0, <1>1, <2>1
    <2>3. x[2] = 0 /\ y[1] < x[1] /\ x[1] \in 0..h /\ y[1] \in 0..h
      BY <1>0, <1>1, <2>1, <2>2
    <2>4. d <= x[1] /\ \A c \in 0..d - 1 : c \in Cand
      BY <1>0, <2>2, <2>3
    <2>5. Tally(votes, 0..d - 1) \subseteq T
      BY <2>4 DEF Tally
    <2> HIDE DEF T, U
    <2>6. Tally(votes, 0..d - 1) \subseteq AheadOf(T, x)
      BY <1>1, <1>4, <2>2, <2>3, <2>4, <2>5
    <2>7. d <= Cardinality(AheadOf(T, x))
      BY <1>3, <2>6, LowestAreMany
    <2> QED
      BY <1>3, <1>5, <2>7
  <1>6. ASSUME NEW x \in U, Cardinality(AheadOf(U, x)) < k PROVE x \in T
    <2> SUFFICES ASSUME x[1] \notin Cand PROVE FALSE
      BY <1>1
    <2>1. x[2] = 0 /\ d <= x[1] /\ x[1] \in 0..h
      BY <1>0, <1>1
    <2>2. Tally(votes, 0..d - 1) \subseteq U
      BY <2>1 DEF Tally
    <2> HIDE DEF T, U
    <2>3. Tally(votes, 0..d - 1) \subseteq AheadOf(U, x)
      BY <1>4, <2>1, <2>2
    <2>4. d <= Cardinality(AheadOf(U, x))
      BY <1>3, <2>3, LowestAreMany
    <2> QED
      BY <1>3, <1>6, <2>4
  <1>7. \A x \in U : Cardinality(AheadOf(U, x)) < k <=> x \in T /\ Cardinality(AheadOf(T, x)) < k
    <2> HIDE DEF T, U
    <2>1. ASSUME NEW x \in U, Cardinality(AheadOf(U, x)) < k PROVE Cardinality(AheadOf(T, x)) < k
      <3>1. Cardinality(AheadOf(T, x)) <= Cardinality(AheadOf(U, x))
        BY <1>3, FS_Subset
      <3> QED
        BY <1>3, <2>1, <3>1
    <2> QED
      BY <1>5, <1>6, <2>1
  <1> HIDE DEF T, U
  <1> QED
    BY <1>1, <1>7 DEF TopOf, T, U

VotesIn(labels, of, f, all) == [c \in all |-> Votes(labels, of, f, c)]

(* The most voted clusters are the first of the tally (topk of reconstruct). *)
LEMMA MostVotedIsTop ==
    ASSUME NEW labels, NEW of, NEW f, NEW among, NEW k, NEW all, among \subseteq all
    PROVE  MostVoted(labels, of, f, among, k) = TopOf(Tally(VotesIn(labels, of, f, all), among), k)
  <1> DEFINE votes == VotesIn(labels, of, f, all)
             T == {<<c, Votes(labels, of, f, c)>> : c \in among}
  <1>1. Tally(votes, among) = T
    BY DEF Tally, VotesIn
  <1>2. MostVoted(labels, of, f, among, k) = TopOf(T, k)
    BY DEF MostVoted, TopOf, AheadOf
  <1> QED
    BY <1>1, <1>2

(* Clusters numbered by first appearance have all numbers up to the highest.                        *)
LEMMA NumbersAreFull ==
    ASSUME NEW labels, NEW D, D \subseteq Int, IsFiniteSet(D), D # {}, DOMAIN labels = D, labels = FirstSeen(labels)
    PROVE  \E h \in Nat : Range(labels) = 0..h
  <1> DEFINE R == {z \in Firsts(labels) \X Firsts(labels) : z[1] < z[2]}
             F1 == Firsts(labels)
  <1>1. F1 \subseteq D /\ IsFiniteSet(F1)
    <2>1. F1 \subseteq D
      BY DEF Firsts
    <2> HIDE DEF F1
    <2> QED
      BY <2>1, FS_Subset
  <1>2. \A x, y \in F1 : <<x, y>> \in R <=> x < y
    OBVIOUS
  <1>3. \A x \in F1 : x \in Int
    BY <1>1
  <1>4. \A i \in 1..Cardinality(F1) : \E x \in F1 : Cardinality({y \in F1 : <<y, x>> \in R}) = i - 1
    <2>1. \A x, y \in F1 : x = y \/ <<x, y>> \in R \/ <<y, x>> \in R
      <3>1. ASSUME NEW x \in F1, NEW y \in F1 PROVE x = y \/ x < y \/ y < x
        <4>1. x \in Int /\ y \in Int
          BY <1>3
        <4> HIDE DEF F1, R
        <4> QED
          BY <4>1
      <3> HIDE DEF F1, R
      <3> QED
        BY ONLY <1>2, <3>1, Zenon
    <2>2. \A x \in F1 : <<x, x>> \notin R
      <3> SUFFICES ASSUME NEW x \in F1 PROVE ~(x < x)
        BY <1>2
      <3>1. x \in Int
        BY <1>3
      <3> HIDE DEF F1, R
      <3> QED
        BY <3>1
    <2>3. \A x, y, z \in F1 : <<x, y>> \in R /\ <<y, z>> \in R => <<x, z>> \in R
      <3>1. \A x, y, z \in F1 : x \in Int /\ y \in Int /\ z \in Int
        BY <1>1
      <3> HIDE DEF R, F1
      <3> QED
        BY <1>2, <3>1
    <2> HIDE DEF R, F1
    <2>4. IsOrder(F1, R)
      BY <2>1, <2>2, <2>3 DEF IsOrder
    <2>5. RanksFilled(F1, R)
      BY <1>1, <2>4, OrdersAreFilled
    <2> QED
      BY ONLY <2>5 DEF RanksFilled
  (* A cluster's number is the rank of its first embedding.                                            *)
  <1>5. ASSUME NEW i \in D, NEW e \in Alike(labels, i), \A k \in Alike(labels, i) : e <= k
        PROVE  e \in F1 /\ labels[i] = Cardinality({y \in F1 : <<y, e>> \in R})
    <2>1. e \in D /\ labels[e] = labels[i] /\ Alike(labels, e) = Alike(labels, i)
      BY DEF Alike
    <2>2. e \in F1
      BY <1>5, <2>1 DEF Firsts
    <2>3. {j \in F1 : \A k \in Alike(labels, i) : j < k} = {y \in F1 : <<y, e>> \in R}
      <3>1. ASSUME NEW j \in F1 PROVE (\A k \in Alike(labels, i) : j < k) <=> j < e
        <4>1. \A k \in Alike(labels, i) : k \in Int /\ e <= k
          BY <1>5 DEF Alike
        <4>2. j \in Int /\ e \in Int
          BY <1>1, <2>1
        <4> QED
          BY <4>1, <4>2
      <3> HIDE DEF R, F1
      <3> QED
        BY <1>2, <2>2, <3>1
    <2>4. labels[i] = Cardinality({j \in F1 : \A k \in Alike(labels, i) : j < k})
      <3>1. PICK h : h = FirstSeen(labels)
        OBVIOUS
      <3>2. h[i] = Cardinality({j \in Firsts(labels) : \A k \in Alike(labels, i) : j < k})
        BY <3>1 DEF FirstSeen
      <3> QED
        BY <3>1, <3>2
    <2> QED
      BY <2>2, <2>3, <2>4
  <1>6. ASSUME NEW i \in D PROVE \E e \in Alike(labels, i) : \A k \in Alike(labels, i) : e <= k
    <2>1. i \in Alike(labels, i) /\ Alike(labels, i) \subseteq D
      BY DEF Alike
    <2>2. IsFiniteSet(Alike(labels, i)) /\ Alike(labels, i) \subseteq Int /\ Alike(labels, i) # {}
      BY <2>1, FS_Subset
    <2> QED
      BY <2>2, HasExtremes
  <1>7. \A e \in F1 : e \in D /\ e \in Alike(labels, e) /\ \A k \in Alike(labels, e) : e <= k
    BY DEF Firsts, Alike
  <1>8. Cardinality(F1) \in Nat \ {0}
    <2>1. PICK i \in D : TRUE
      OBVIOUS
    <2>2. PICK e \in Alike(labels, i) : \A k \in Alike(labels, i) : e <= k
      BY <1>6
    <2>3. F1 # {}
      BY <1>5, <2>2
    <2> HIDE DEF F1
    <2> QED
      BY <1>1, <2>3, FS_EmptySet, FS_CardinalityType
  <1>9. ASSUME NEW c \in Range(labels) PROVE c \in 0..Cardinality(F1) - 1
    <2>1. PICK i \in D : labels[i] = c
      BY DEF Range
    <2>2. PICK e \in Alike(labels, i) : \A k \in Alike(labels, i) : e <= k
      BY <1>6
    <2>3. e \in F1 /\ c = Cardinality({y \in F1 : <<y, e>> \in R})
      BY <1>5, <2>1, <2>2
    <2>4. {y \in F1 : <<y, e>> \in R} \subseteq F1 /\ e \notin {y \in F1 : <<y, e>> \in R}
      <3>1. ~(e < e)
        <4> HIDE DEF F1, R
        <4> QED
          BY <1>3, <2>3
      <3> HIDE DEF R, F1
      <3> QED
        BY <1>2, <2>3, <3>1
    <2>5. Cardinality({y \in F1 : <<y, e>> \in R}) \in Nat /\ Cardinality({y \in F1 : <<y, e>> \in R}) < Cardinality(F1)
      <3> DEFINE B == {y \in F1 : <<y, e>> \in R}
      <3> HIDE DEF B, F1
      <3> QED
        BY <1>1, <2>3, <2>4, SmallerPart DEF B
    <2> HIDE DEF F1, R
    <2> QED
      BY <1>8, <2>3, <2>5
  <1>10. ASSUME NEW c \in 0..Cardinality(F1) - 1 PROVE c \in Range(labels)
    <2>1. c + 1 \in 1..Cardinality(F1) /\ (c + 1) - 1 = c
      BY <1>8
    <2>2. PICK x \in F1 : Cardinality({y \in F1 : <<y, x>> \in R}) = c
      BY <1>4, <2>1
    <2>3. labels[x] = c
      <3> HIDE DEF F1, R
      <3> QED
        BY <1>5, <1>7, <2>2
    <2> QED
      BY <1>7, <2>3 DEF Range
  <1>11. Range(labels) = 0..Cardinality(F1) - 1 /\ Cardinality(F1) - 1 \in Nat
    <2>1. PICK N \in Nat \ {0} : N = Cardinality(F1)
      BY <1>8
    <2>2. N - 1 \in Nat /\ \A c \in 0..N - 1 : c \in Range(labels)
      BY <1>10, <2>1
    <2>3. \A c \in Range(labels) : c \in 0..N - 1
      BY <1>9, <2>1
    <2> HIDE DEF F1
    <2>4. Range(labels) = 0..N - 1
      BY <2>2, <2>3
    <2> QED
      BY <2>1, <2>2, <2>4
  <1> QED
    BY <1>11

(* The block a frame is in.                                                                            *)
StartsBlock(f, block) == f % block = 0

(* It starts at a frame of the recording, and the frame is within it. *)
LEMMA BlockOf ==
    ASSUME NEW n \in Int, NEW block \in {1, 3, n}, NEW f \in 0..n - 1
    PROVE  /\ (f \div block) * block \in 0..n - 1 /\ StartsBlock((f \div block) * block, block)
           /\ (f \div block) * block <= f /\ f <= Min({(f \div block) * block + block, n}) - 1
  <1>1. n \in Nat \ {0} /\ f \in Nat /\ block \in Nat \ {0}
    OBVIOUS
  <1>2. PICK q \in Nat : q = f \div block /\ block * q <= f /\ f < block * q + block
    BY <1>1, DivBounds
  <1>3. q * block = block * q /\ block * q \in Nat
    BY <1>1
  <1>4. (q * block) % block = 0
    <2>1. CASE block = 1
      BY <2>1
    <2>2. CASE block = 3
      BY <2>2
    <2>3. CASE block = n
      <3>1. q = 0
        BY <1>1, <1>2, <2>3
      <3>2. q * block = 0
        BY <1>1, <3>1
      <3> QED
        BY <1>1, <3>2
    <2> QED
      BY <2>1, <2>2, <2>3
  <1>5. PICK a \in Int : a = q * block + block /\ f <= a - 1
    <2>1. PICK m \in Nat : m = block * q /\ m = q * block
      BY <1>3
    <2>2. m + block \in Int /\ f <= m + block - 1
      BY <1>1, <1>2, <2>1
    <2> QED
      BY <2>1, <2>2
  <1>6. Min({a, n}) \in {a, n}
    BY PairExtremes
  <1>7. f <= Min({a, n}) - 1
    BY <1>5, <1>6
  <1>8. q * block \in 0..n - 1 /\ q * block <= f
    BY <1>1, <1>2, <1>3
  <1> QED
    BY <1>2, <1>4, <1>5, <1>7, <1>8 DEF StartsBlock

(* The clusters looked at in a block are enough for each of its frames.                                *)
LEMMA CandidatesSuffice ==
    ASSUME DiarAssumption, NEW s \in Stores, NEW of, IsFiniteSet(of), NEW h \in Nat, {x[3] : x \in of} = 0..h,
           NEW f \in Int, NEW first \in Int, NEW last \in Int, first <= f, f <= last
    PROVE  LET k == SpeakersPerFrame(s.labels, f)
           IN  MostVoted(s.labels, of, f, Candidates(s.labels, of, first, last), k) = MostVoted(s.labels, of, f, 0..h, k)
  <1> DEFINE voted == VotedFor(s.labels, of, first, last)
             counts == {SpeakersPerFrame(s.labels, g) : g \in first..last}
             most == Max(counts)
             k == SpeakersPerFrame(s.labels, f)
             Cand == voted \cup {c \in 0..h : c < Cardinality(voted) + most}
             votes == VotesIn(s.labels, of, f, 0..h)
  <1>1. /\ IsFiniteSet(DOMAIN s.labels) /\ \A ch \in DOMAIN s.labels : StartOf(ch) \in Int
        /\ \A g \in Int : SpeakersPerFrame(s.labels, g) \in Nat
    BY SpeakersAreNumbers
  <1>2. most \in Nat /\ k <= most /\ k \in Nat
    <2> DEFINE w == [g \in first..last |-> SpeakersPerFrame(s.labels, g)]
    <2>1. w \in Surjection(first..last, counts) /\ IsFiniteSet(first..last)
      <3>1. IsFiniteSet(first..last)
        BY FS_Interval
      <3>2. w \in Surjection(first..last, counts)
        BY DEF Surjection
      <3> QED
        BY <3>1, <3>2
    <2>2. IsFiniteSet(counts)
      <3> HIDE DEF w, counts
      <3> QED
        BY <2>1, FS_Surjection
    <2>3. counts \subseteq Nat
      BY <1>1
    <2>4. k \in counts
      BY <1>1
    <2> HIDE DEF counts, k
    <2>5. Max(counts) \in counts /\ \A y \in counts : y <= Max(counts)
      <3>1. counts # {} /\ counts \subseteq Int
        BY <2>3, <2>4
      <3> QED
        BY <2>2, <3>1, HasExtremes
    <2> QED
      BY <2>3, <2>4, <2>5
  <1>3. voted \subseteq 0..h /\ Cardinality(voted) \in Nat
    <2>1. voted \subseteq 0..h
      BY DEF VotedFor
    <2>2. IsFiniteSet(0..h)
      BY FS_Interval
    <2> HIDE DEF voted
    <2> QED
      BY <2>1, <2>2, FS_Subset, FS_CardinalityType
  <1>4. Candidates(s.labels, of, first, last) = Cand
    <2>1. Max({x[3] : x \in of}) = h
      <3>1. PICK top : top = Max(0..h)
        OBVIOUS
      <3>2. IsFiniteSet(0..h) /\ 0..h # {} /\ 0..h \subseteq Int /\ h \in 0..h
        <4>1. h \in 0..h
          OBVIOUS
        <4>2. IsFiniteSet(0..h)
          BY FS_Interval
        <4>3. 0..h \subseteq Int
          OBVIOUS
        <4>4. 0..h # {}
          BY <4>1
        <4> QED
          BY <4>1, <4>2, <4>3, <4>4
      <3>3. top \in 0..h /\ \A y \in 0..h : y <= top
        BY <3>1, <3>2, HasExtremes
      <3>4. top = h
        BY <3>2, <3>3
      <3> QED
        BY <3>1, <3>4
    <2> QED
      BY <2>1 DEF Candidates, VotedFor
  <1>5. \A c \in 0..h : votes[c] \in Nat /\ (votes[c] # 0 => c \in voted)
    <2> SUFFICES ASSUME NEW c \in 0..h PROVE votes[c] \in Nat /\ (votes[c] # 0 => c \in voted)
      OBVIOUS
    <2>1. votes[c] = Votes(s.labels, of, f, c) /\ Votes(s.labels, of, f, c) \in Nat
      BY <1>1, VotesAreNumbers DEF VotesIn
    <2>2. ChunkFrames \in Nat
      BY DEF DiarAssumption
    <2>3. Votes(s.labels, of, f, c) # 0 => c \in voted
      <3> HIDE DEF votes
      <3> QED
        BY <1>1, <2>2, VotedInBlock
    <2> HIDE DEF votes, voted
    <2> QED
      BY <2>1, <2>3
  <1>6. PICK d \in Nat : d = Cardinality(voted) + most /\ k <= d
    <2> HIDE DEF voted, most, k
    <2> QED
      BY <1>2, <1>3
  <1>7. Cand \subseteq 0..h /\ Enough(votes, Cand, h, d)
    <2> HIDE DEF voted, most, votes
    <2> QED
      BY <1>3, <1>5, <1>6 DEF Enough
  <1>8. TopOf(Tally(votes, Cand), k) = TopOf(Tally(votes, 0..h), k)
    <2> HIDE DEF votes, Cand, k, most, voted
    <2> QED
      BY <1>2, <1>6, <1>7, TopsAgree
  <1>9. /\ MostVoted(s.labels, of, f, Cand, k) = TopOf(Tally(votes, Cand), k)
        /\ MostVoted(s.labels, of, f, 0..h, k) = TopOf(Tally(votes, 0..h), k)
    <2> HIDE DEF Cand, k
    <2>1. MostVoted(s.labels, of, f, Cand, k) = TopOf(Tally(votes, Cand), k)
      <3>1. PICK all : all = 0..h /\ Cand \subseteq all
        BY <1>7
      <3>2. PICK some : some = Cand /\ some \subseteq all
        BY <3>1
      <3>3. MostVoted(s.labels, of, f, some, k) = TopOf(Tally(VotesIn(s.labels, of, f, all), some), k)
        <4> HIDE DEF votes, voted, most
        <4> QED
          BY ONLY <3>2, MostVotedIsTop
      <3> QED
        BY <3>1, <3>2, <3>3
    <2>2. MostVoted(s.labels, of, f, 0..h, k) = TopOf(Tally(votes, 0..h), k)
      <3>1. PICK all : all = 0..h /\ all \subseteq all
        OBVIOUS
      <3>2. MostVoted(s.labels, of, f, all, k) = TopOf(Tally(VotesIn(s.labels, of, f, all), all), k)
        BY <3>1, MostVotedIsTop
      <3> QED
        BY <3>1, <3>2
    <2> QED
      BY <2>1, <2>2
  <1> QED
    BY <1>4, <1>8, <1>9

(* Whatever the size of the blocks, each frame keeps the most voted of all clusters.                    *)
LEMMA PickedAreMostVoted ==
    ASSUME DiarAssumption, NEW s \in Stores, NEW of, IsFiniteSet(of), NEW h \in Nat, {x[3] : x \in of} = 0..h,
           NEW n, n = Frames(s.labels, s.samples), NEW block \in {1, 3, n}
    PROVE  Picked(s.labels, of, s.samples, block) =
             {x \in (0..n-1) \X (0..h) :
                x[2] \in MostVoted(s.labels, of, x[1], 0..h, SpeakersPerFrame(s.labels, x[1]))}
  <1>1. n \in Int
    BY SpeakersAreNumbers
  <1> DEFINE Start(f) == (f \div block) * block
             End(f0) == Min({f0 + block, n}) - 1
             Kept(f, S) == MostVoted(s.labels, of, f, S, SpeakersPerFrame(s.labels, f))
             C(f0) == Candidates(s.labels, of, f0, End(f0))
             starts == {x \in 0..n-1 : x % block = 0}
             blocks == {<<f0, C(f0)>> : f0 \in starts}
  <1>2. Picked(s.labels, of, s.samples, block) =
          {x \in (0..n-1) \X (0..h) : \E b \in blocks : b[1] = Start(x[1]) /\ x[2] \in Kept(x[1], b[2])}
    BY ZenonT(60) DEF Picked
  <1>3. ASSUME NEW f \in 0..n-1
        PROVE  /\ Start(f) \in starts /\ Kept(f, C(Start(f))) = Kept(f, 0..h)
    <2>1. /\ Start(f) \in 0..n - 1 /\ Start(f) % block = 0
          /\ Start(f) <= f /\ f <= End(Start(f))
      <3>1. Start(f) \in 0..n - 1 /\ Start(f) % block = 0 /\ Start(f) <= f
        <4>1. (f \div block) * block \in 0..n - 1 /\ (f \div block) * block <= f
          BY <1>1, BlockOf
        <4>2. StartsBlock((f \div block) * block, block)
          BY <1>1, BlockOf
        <4> QED
          BY <4>1, <4>2 DEF StartsBlock
      <3>2. f <= Min({Start(f) + block, n}) - 1
        BY <1>1, BlockOf
      <3> HIDE DEF Start
      <3> QED
        BY <3>1, <3>2
    <2>2. PICK f0 \in Int, last \in Int : f0 = Start(f) /\ last = End(f0)
      <3>1. Start(f) \in Int /\ block \in Int
        BY <1>1, <2>1
      <3>2. PICK a \in Int : a = Start(f) + block
        <4> HIDE DEF Start
        <4> QED
          BY <3>1
      <3>3. Min({a, n}) \in Int
        BY <1>1, PairExtremes
      <3>4. End(Start(f)) \in Int
        BY <3>2, <3>3
      <3> QED
        BY <3>1, <3>4
    <2>3. f \in Int /\ f0 <= f /\ f <= last
      BY <1>1, <2>1, <2>2
    <2>4. Kept(f, Candidates(s.labels, of, f0, last)) = Kept(f, 0..h)
      <3>1. PICK k : k = SpeakersPerFrame(s.labels, f)
        OBVIOUS
      <3>2. LET k1 == SpeakersPerFrame(s.labels, f)
            IN  MostVoted(s.labels, of, f, Candidates(s.labels, of, f0, last), k1) = MostVoted(s.labels, of, f, 0..h, k1)
        <4>1. IsFiniteSet(of) /\ {x[3] : x \in of} = 0..h /\ f0 \in Int /\ last \in Int
          OBVIOUS
        <4> QED
          BY ONLY DiarAssumption, s \in Stores, h \in Nat, <2>3, <4>1, CandidatesSuffice
      <3> QED
        BY <3>2
    <2> QED
      BY <2>1, <2>2, <2>4
  <1> HIDE DEF Start, End, Kept, C
  <1>4. ASSUME NEW x \in (0..n-1) \X (0..h)
        PROVE  (\E b \in blocks : b[1] = Start(x[1]) /\ x[2] \in Kept(x[1], b[2])) <=> x[2] \in Kept(x[1], 0..h)
    <2>1. x[1] \in 0..n-1
      OBVIOUS
    <2>2. \A b \in blocks : b[1] = Start(x[1]) => b[2] = C(Start(x[1]))
      OBVIOUS
    <2>3. <<Start(x[1]), C(Start(x[1]))>> \in blocks
      BY <1>3, <2>1
    <2> HIDE DEF blocks
    <2> QED
      BY <1>3, <2>1, <2>2, <2>3
  <1>5. Picked(s.labels, of, s.samples, block) = {x \in (0..n-1) \X (0..h) : x[2] \in Kept(x[1], 0..h)}
    BY <1>2, <1>4
  <1> QED
    BY <1>5 DEF Kept
(* The runs of a set of frames: in order, and none reaches the next.                                     *)
Separate(S) == \A x, y \in S : x[1] <= x[2] /\ (x[1] < y[1] => x[2] < y[1]) /\ (x[1] = y[1] => x = y)
RunsIn(S, n) == {<<a, Min({Min({b \in a..n : b \notin S}), n - 1})>> : a \in {x \in S : x - 1 \notin S}}

(* The runs of a set of frames are finitely many, and none touches another. *)
LEMMA RunsAreApart ==
    ASSUME NEW n \in Int, NEW S \in SUBSET (0..n - 1)
    PROVE  IsFiniteSet(RunsIn(S, n)) /\ RunsIn(S, n) \subseteq Nat \X Nat /\ Separate(RunsIn(S, n))
  <1> DEFINE First == {x \in S : x - 1 \notin S}
             After(a) == {b \in a..n : b \notin S}
             end(a) == Min({Min(After(a)), n - 1})
  <1>1. IsFiniteSet(First)
    <2>1. IsFiniteSet(0..n - 1)
      BY FS_Interval
    <2>2. First \subseteq 0..n - 1
      OBVIOUS
    <2> HIDE DEF First
    <2> QED
      BY <2>1, <2>2, FS_Subset
  <1>2. ASSUME NEW a \in First
        PROVE  /\ Min(After(a)) \in After(a) /\ \A b \in After(a) : Min(After(a)) <= b
    <2>1. After(a) # {} /\ After(a) \subseteq a..n /\ After(a) \subseteq Int
      <3>1. n \in After(a)
        OBVIOUS
      <3> QED
        BY <3>1
    <2>2. IsFiniteSet(a..n)
      BY FS_Interval
    <2>3. IsFiniteSet(After(a))
      <3> HIDE DEF After
      <3> QED
        BY <2>1, <2>2, FS_Subset
    <2> HIDE DEF After
    <2> QED
      BY <2>1, <2>3, HasExtremes
  <1>3. ASSUME NEW a \in First
        PROVE  /\ a \in Nat /\ end(a) \in Nat /\ a <= end(a)
               /\ \A b \in After(a) : end(a) <= b
    <2>1. PICK m \in Int : m = Min(After(a)) /\ a <= m
      BY <1>2
    <2>2. a \in Nat /\ a <= n - 1
      OBVIOUS
    <2>3. m \notin First
      <3> HIDE DEF First
      <3> QED
        BY <1>2, <2>1 DEF First
    <2>4. Min({m, n - 1}) \in {m, n - 1} /\ Min({m, n - 1}) <= m
      <3>1. PICK l \in Int : l = n - 1
        OBVIOUS
      <3> QED
        BY <3>1, PairExtremes
    <2>5. \A b \in After(a) : m <= b /\ b \in Int
      BY <1>2, <2>1
    <2>6. PICK e : e = end(a) /\ e = Min({m, n - 1})
      BY <2>1
    <2> HIDE DEF After, First, end
    <2> QED
      BY <2>1, <2>2, <2>4, <2>5, <2>6
  <1>4. ASSUME NEW a \in First, NEW b \in First, a < b PROVE end(a) < b
    <2>1. b - 1 \in After(a)
      <3>1. b - 1 \notin S /\ b \in 0..n - 1 /\ a \in 0..n - 1
        OBVIOUS
      <3>2. b - 1 \in a..n
        BY <1>4, <3>1
      <3> QED
        BY <3>1, <3>2
    <2>2. end(a) <= b - 1 /\ end(a) \in Int /\ b \in Int
      <3>1. PICK c : c = b - 1
        OBVIOUS
      <3> HIDE DEF end, After, First
      <3> QED
        BY <1>3, <2>1, <3>1
    <2> HIDE DEF end
    <2> QED
      BY <2>2
  <1> DEFINE G == {<<a, end(a)>> : a \in First}
  <1>5. IsFiniteSet(G)
    <2> DEFINE g == [a \in First |-> <<a, end(a)>>]
    <2>1. g \in Surjection(First, G)
      BY DEF Surjection
    <2> HIDE DEF g, G, First
    <2> QED
      BY <1>1, <2>1, FS_Surjection
  <1>6. G \subseteq Nat \X Nat
    <2> HIDE DEF end, First
    <2> QED
      BY <1>3
  <1>7. Separate(G)
    <2> HIDE DEF end, First
    <2>1. \A x \in G : x[1] \in First /\ x[2] = end(x[1]) /\ x = <<x[1], end(x[1])>>
      OBVIOUS
    <2> HIDE DEF G
    <2> QED
      BY <1>3, <1>4, <2>1 DEF Separate
  <1>8. RunsIn(S, n) = G
    BY DEF RunsIn
  <1> HIDE DEF G
  <1> QED
    BY <1>5, <1>6, <1>7, <1>8

(* A list of spans, each after the one before.                                                            *)
SpanLists == Seq(Nat \X Nat)
Spaced(segs) ==
    /\ \A i \in DOMAIN segs : segs[i][1] <= segs[i][2]
    /\ \A i, j \in DOMAIN segs : i < j => segs[i][2] < segs[j][1]

(* A list has a length and its elements. *)
LEMMA ListsHaveLengths ==
    ASSUME NEW E, NEW s \in Seq(E)
    PROVE  \E m \in Nat : DOMAIN s = 1..m /\ \A k \in 1..m : s[k] \in E
  OBVIOUS

(* The runs in order are a list of spans, each after the one before. *)
LEMMA RunsAreSpaced ==
    ASSUME NEW n \in Int, NEW S \in SUBSET (0..n - 1)
    PROVE  Runs(S, n) \in SpanLists /\ Spaced(Runs(S, n))
  <1>1. PICK G : G = RunsIn(S, n)
    OBVIOUS
  <1>2. IsFiniteSet(G) /\ G \subseteq Nat \X Nat /\ Separate(G)
    BY <1>1, RunsAreApart
  <1>3. PICK f : f = Ordered(G, Earlier)
    OBVIOUS
  <1>4. f \in [1..Cardinality(G) -> G] /\ Cardinality(G) \in Nat /\ InOrder(G, EarlierIn(G), f)
    <2>1. G \subseteq Int \X Int
      BY <1>2
    <2> QED
      BY <1>2, <1>3, <2>1, EarlierSorts
  <1>5. Runs(S, n) = f
    BY <1>1, <1>3 DEF Runs, RunsIn
  <1>6. f \in SpanLists
    BY <1>2, <1>4 DEF SpanLists
  <1>7. \A i \in DOMAIN f : f[i] \in G
    BY <1>4
  <1>8. ASSUME NEW i \in DOMAIN f, NEW j \in DOMAIN f, i < j PROVE f[i][2] < f[j][1]
    <2>1. Earlier(f[i], f[j])
      BY <1>4, <1>8 DEF InOrder, EarlierIn
    <2>2. PICK x \in G, y \in G : x = f[i] /\ y = f[j]
      BY <1>7
    <2>3. x[1] < y[1]
      <3>1. x[1] \in Int /\ y[1] \in Int /\ x[2] \in Int /\ y[2] \in Int
        BY <1>2
      <3>2. x[1] # y[1]
        <4>1. \A z, w \in G : z[1] = w[1] => z = w
          BY <1>2 DEF Separate
        <4>2. ~Earlier(x, x)
          BY <3>1 DEF Earlier
        <4> QED
          BY <2>1, <2>2, <4>1, <4>2
      <3> QED
        BY <2>1, <2>2, <3>1, <3>2 DEF Earlier
    <2> QED
      BY <1>2, <2>2, <2>3 DEF Separate
  <1>9. \A i \in DOMAIN f : f[i][1] <= f[i][2]
    BY <1>2, <1>7 DEF Separate
  <1> QED
    BY <1>5, <1>6, <1>8, <1>9 DEF Spaced

-----------------------------------------------------------------------------
(* Merging.  FoldLeft takes the numbers of the list by the highest of those not taken; there is such a  *)
(* function, and on the first of them it is the merging of a longer and longer list.                     *)
MergesBy(it, segs, C) == it = [S \in C |-> IF S = {} THEN <<>> ELSE Merged(it[S \ {Max(S)}], segs[Max(S)])]

(* The function that the fold of merge_and_filter defines exists. *)
LEMMA MergesExist ==
    ASSUME NEW segs, DOMAIN segs \subseteq Int, IsFiniteSet(DOMAIN segs)
    PROVE  \E it : MergesBy(it, segs, SUBSET (DOMAIN segs))
  <1> DEFINE D == DOMAIN segs
             C(k) == {S \in SUBSET D : Cardinality(S) <= k}
             P == {k \in Nat : \E it : MergesBy(it, segs, C(k))}
  <1> HIDE DEF D
  <1>1. \A S \in SUBSET D : /\ IsFiniteSet(S) /\ Cardinality(S) \in Nat /\ Cardinality(S) <= Cardinality(D)
                            /\ S # {} => Max(S) \in S /\ Cardinality(S \ {Max(S)}) = Cardinality(S) - 1
    <2> SUFFICES ASSUME NEW S \in SUBSET D
                 PROVE  /\ IsFiniteSet(S) /\ Cardinality(S) \in Nat /\ Cardinality(S) <= Cardinality(D)
                        /\ S # {} => Max(S) \in S /\ Cardinality(S \ {Max(S)}) = Cardinality(S) - 1
      OBVIOUS
    <2>1. IsFiniteSet(S) /\ Cardinality(S) \in Nat /\ Cardinality(S) <= Cardinality(D)
      BY FS_Subset, FS_CardinalityType DEF D
    <2>2. S # {} => Max(S) \in S
      <3>1. S \subseteq Int
        BY DEF D
      <3> QED
        BY <2>1, <3>1, HasExtremes
    <2> QED
      BY <2>1, <2>2, FS_RemoveElement
  <1>0. \A S \in SUBSET D : IsFiniteSet(S) /\ Cardinality(S) \in Nat
    BY <1>1
  <1>2. 0 \in P
    <2> DEFINE it == [S \in C(0) |-> <<>>]
    <2>1. \A S \in C(0) : S = {}
      BY <1>0, FS_EmptySet
    <2>2. MergesBy(it, segs, C(0))
      BY <2>1 DEF MergesBy
    <2> QED
      BY <2>2
  <1>3. ASSUME NEW k \in Nat, k \in P PROVE k + 1 \in P
    <2>1. PICK it : MergesBy(it, segs, C(k))
      BY <1>3
    <2> DEFINE more == [S \in C(k + 1) |-> IF S = {} THEN <<>> ELSE Merged(it[S \ {Max(S)}], segs[Max(S)])]
    <2>2. \A S \in C(k) : S \in C(k + 1) /\ it[S] = more[S]
      <3>1. \A S \in C(k) : S \in C(k + 1)
        BY <1>0
      <3>2. \A S \in C(k) : it[S] = IF S = {} THEN <<>> ELSE Merged(it[S \ {Max(S)}], segs[Max(S)])
        BY <2>1 DEF MergesBy
      <3> QED
        BY <3>1, <3>2
    <2>3. \A S \in C(k + 1) : S # {} => S \ {Max(S)} \in C(k)
      BY <1>1
    <2>4. MergesBy(more, segs, C(k + 1))
      <3>1. \A S \in C(k + 1) : (IF S = {} THEN <<>> ELSE Merged(it[S \ {Max(S)}], segs[Max(S)]))
                                  = (IF S = {} THEN <<>> ELSE Merged(more[S \ {Max(S)}], segs[Max(S)]))
        <4> HIDE DEF C, more
        <4> QED
          BY <2>2, <2>3
      <3> HIDE DEF C
      <3> QED
        BY <3>1 DEF MergesBy
    <2> HIDE DEF more, C
    <2> QED
      BY <2>4
  <1>4. Cardinality(D) \in P
    <2>1. Cardinality(D) \in Nat
      BY FS_CardinalityType DEF D
    <2> HIDE DEF P
    <2> QED
      BY <1>2, <1>3, <2>1, NatIsReached
  <1>5. C(Cardinality(D)) = SUBSET D
    BY <1>1
  <1>6. \E it : MergesBy(it, segs, SUBSET D)
    <2> HIDE DEF C
    <2> QED
      BY <1>4, <1>5
  <1> QED
    BY <1>6 DEF D

(* That fold, one span after another. *)
LEMMA MergesStepByStep ==
    ASSUME NEW segs, NEW m \in Nat, DOMAIN segs = 1..m
    PROVE  \E it : /\ FoldLeft(Merged, <<>>, segs) = it[m] /\ it[0] = <<>>
                   /\ \A k \in 1..m : it[k] = Merged(it[k - 1], segs[k])
  <1> DEFINE D == DOMAIN segs
             it == CHOOSE f : MergesBy(f, segs, SUBSET D)
             upTo == [k \in 0..m |-> it[1..k]]
  <1>1. IsFiniteSet(D) /\ D \subseteq Int
    BY FS_Interval
  <1>2. MergesBy(it, segs, SUBSET D)
    <2> HIDE DEF MergesBy
    <2>1. \E f : MergesBy(f, segs, SUBSET D)
      BY <1>1, MergesExist
    <2> QED
      BY <2>1
  <1>3. FoldLeft(Merged, <<>>, segs) = it[D]
    BY DEF FoldLeft, MapThenFoldSet, MergesBy
  <1> HIDE DEF it
  <1>4. \A S \in SUBSET D : it[S] = IF S = {} THEN <<>> ELSE Merged(it[S \ {Max(S)}], segs[Max(S)])
    BY <1>2 DEF MergesBy
  <1>5. it[1..0] = <<>>
    <2>1. 1..0 = {} /\ {} \in SUBSET D
      OBVIOUS
    <2> QED
      BY <1>4, <2>1
  <1>6. ASSUME NEW k \in 1..m PROVE it[1..k] = Merged(it[1..k - 1], segs[k])
    <2>1. 1..k \in SUBSET D /\ 1..k # {} /\ (1..k) \ {k} = 1..k - 1
      <3>1. k \in 1..k
        OBVIOUS
      <3>2. 1..k \in SUBSET D
        OBVIOUS
      <3>3. (1..k) \ {k} = 1..k - 1
        OBVIOUS
      <3> QED
        BY <3>1, <3>2, <3>3
    <2>2. Max(1..k) = k
      <3>1. PICK S : S = 1..k
        OBVIOUS
      <3>2. IsFiniteSet(S) /\ S # {} /\ S \subseteq Int /\ k \in S
        BY <2>1, <3>1, FS_Interval
      <3>3. Max(S) \in S /\ k <= Max(S)
        BY <3>2, HasExtremes
      <3> QED
        BY <3>1, <3>3
    <2> QED
      BY <1>4, <2>1, <2>2
  <1>7. upTo[m] = it[D] /\ upTo[0] = <<>> /\ \A k \in 1..m : upTo[k] = Merged(upTo[k - 1], segs[k])
    <2>1. \A k \in 0..m : upTo[k] = it[1..k]
      OBVIOUS
    <2>2. \A k \in 1..m : k \in 0..m /\ k - 1 \in 0..m
      OBVIOUS
    <2>3. 0 \in 0..m /\ m \in 0..m
      OBVIOUS
    <2> HIDE DEF upTo
    <2> QED
      BY <1>5, <1>6, <2>1, <2>2, <2>3
  <1> HIDE DEF upTo
  <1> QED
    BY <1>3, <1>7

FarApart(out) ==
    \A i, j \in DOMAIN out : /\ out[i][1] <= out[i][2]
                             /\ i < j => out[i][2] + MinOff < out[j][1]

(* A span that begins after the last one ends is one with it, or far from it.                             *)
LEMMA MergedKeeps ==
    ASSUME DiarAssumption, NEW out \in SpanLists, FarApart(out), NEW seg \in Nat \X Nat, seg[1] <= seg[2],
           out # <<>> => Last(out)[2] < seg[1]
    PROVE  /\ Merged(out, seg) \in SpanLists /\ FarApart(Merged(out, seg))
           /\ Merged(out, seg) # <<>> /\ Last(Merged(out, seg))[2] = seg[2]
  <1>1. PICK m \in Nat : m = Len(out) /\ DOMAIN out = 1..m /\ \A i \in 1..m : out[i] \in Nat \X Nat
    BY SequencesAreFunctions DEF SpanLists
  <1>2. \A i \in 1..m : out[i][1] \in Nat /\ out[i][2] \in Nat
    BY <1>1
  <1>3. MinOff \in Nat /\ seg[1] \in Nat /\ seg[2] \in Nat
    BY DEF DiarAssumption
  <1>4. out # <<>> => m > 0 /\ Last(out) = out[m]
    BY <1>1 DEF SpanLists, Last
  <1>5. \A i, j \in 1..m : out[i][1] <= out[i][2] /\ (i < j => out[i][2] + MinOff < out[j][1])
    BY <1>1 DEF FarApart
  <1>6. CASE out # <<>> /\ Last(out)[2] + MinOff >= seg[1]
    <2> DEFINE new == <<Last(out)[1], seg[2]>>
               more == Front(out) \o <<new>>
    <2>1. Merged(out, seg) = more
      BY <1>6 DEF Merged
    <2>2. m > 0 /\ Last(out) = out[m] /\ m \in 1..m /\ out[m][2] < seg[1]
      BY <1>4, <1>6
    <2>3. new \in Nat \X Nat /\ new[1] = out[m][1] /\ new[2] = seg[2] /\ new[1] <= new[2]
      <3>1. new[1] = out[m][1] /\ new[2] = seg[2]
        BY <2>2
      <3>2. out[m][1] <= seg[2]
        BY <1>2, <1>3, <1>5, <2>2
      <3> QED
        BY <1>2, <1>3, <2>2, <3>1, <3>2
    <2> HIDE DEF new
    <2>4. Front(out) \in SpanLists /\ Len(Front(out)) = m - 1 /\ \A i \in 1..m - 1 : Front(out)[i] = out[i]
      <3>1. PICK E : E = Nat \X Nat /\ out \in Seq(E)
        BY DEF SpanLists
      <3>2. Front(out) \in Seq(E) /\ Len(Front(out)) = m - 1 /\ \A i \in 1..m - 1 : Front(out)[i] = out[i]
        <4>1. out \in Seq(E) /\ m = Len(out) /\ m > 0 /\ m \in Nat
          BY <1>1, <2>2, <3>1
        <4> QED
          BY ONLY <4>1 DEF Front
      <3> QED
        BY <3>1, <3>2 DEF SpanLists
    <2>5. /\ more \in SpanLists /\ Len(more) = m /\ DOMAIN more = 1..m
          /\ more[m] = new /\ \A i \in 1..m - 1 : more[i] = out[i]
      <3>1. PICK f : f = Front(out)
        OBVIOUS
      <3> QED
        BY <2>2, <2>3, <2>4, <3>1 DEF SpanLists
    <2> HIDE DEF more
    <2>6. FarApart(more)
      <3> SUFFICES ASSUME NEW i \in 1..m, NEW j \in 1..m
                   PROVE  more[i][1] <= more[i][2] /\ (i < j => more[i][2] + MinOff < more[j][1])
        BY <2>5 DEF FarApart
      <3>1. more[j][1] = out[j][1]
        BY <2>3, <2>5
      <3>2. CASE i = m
        BY <2>3, <2>5, <3>2
      <3>3. CASE i # m
        <4>1. more[i] = out[i]
          BY <2>5, <3>3
        <4> QED
          BY <1>5, <3>1, <4>1
      <3> QED
        BY <3>2, <3>3
    <2>7. more # <<>> /\ Last(more) = new
      BY <2>2, <2>5 DEF Last
    <2> QED
      BY <2>1, <2>3, <2>5, <2>6, <2>7
  <1>7. CASE ~(out # <<>> /\ Last(out)[2] + MinOff >= seg[1])
    <2> DEFINE more == Append(out, seg)
    <2>1. Merged(out, seg) = more
      BY <1>7 DEF Merged
    <2>2. \A i \in 1..m : out[i][2] + MinOff < seg[1]
      <3> SUFFICES ASSUME NEW i \in 1..m PROVE out[i][2] + MinOff < seg[1]
        OBVIOUS
      <3>1. out # <<>> /\ m \in 1..m /\ Last(out) = out[m] /\ i <= m
        BY <1>1, <1>4
      <3>2. out[m][2] + MinOff < seg[1]
        BY <1>2, <1>3, <1>7, <3>1
      <3>3. CASE i = m
        BY <3>2, <3>3
      <3>4. CASE i # m
        <4>1. out[i][2] + MinOff < out[m][1] /\ out[m][1] <= out[m][2]
          BY <1>5, <3>1, <3>4
        <4> QED
          BY <1>2, <1>3, <3>1, <3>2, <4>1
      <3> QED
        BY <3>3, <3>4
    <2>3. /\ more \in SpanLists /\ Len(more) = m + 1 /\ DOMAIN more = 1..m + 1
          /\ more[m + 1] = seg /\ \A i \in 1..m : more[i] = out[i]
      BY <1>1 DEF SpanLists
    <2> HIDE DEF more
    <2>4. FarApart(more)
      <3> SUFFICES ASSUME NEW i \in 1..m + 1, NEW j \in 1..m + 1
                   PROVE  more[i][1] <= more[i][2] /\ (i < j => more[i][2] + MinOff < more[j][1])
        BY <2>3 DEF FarApart
      <3>1. CASE i = m + 1
        BY <2>3, <3>1
      <3>2. CASE i # m + 1
        <4>1. i \in 1..m /\ more[i] = out[i]
          BY <2>3, <3>2
        <4>2. CASE j = m + 1
          BY <1>5, <2>2, <2>3, <4>1, <4>2
        <4>3. CASE j # m + 1
          <5>1. j \in 1..m /\ more[j] = out[j]
            BY <2>3, <4>3
          <5> QED
            BY <1>5, <4>1, <5>1
        <4> QED
          BY <4>2, <4>3
      <3> QED
        BY <3>1, <3>2
    <2>5. more # <<>> /\ Last(more) = seg
      BY <1>1, <2>3 DEF Last
    <2> QED
      BY <2>1, <2>3, <2>4, <2>5
  <1> QED
    BY <1>6, <1>7

(* Of runs, none of which reaches the next, what is merged is far apart.                                   *)
LEMMA GapsAreClosed ==
    ASSUME DiarAssumption, NEW segs \in SpanLists, Spaced(segs)
    PROVE  FoldLeft(Merged, <<>>, segs) \in SpanLists /\ FarApart(FoldLeft(Merged, <<>>, segs))
  <1>1. PICK m \in Nat : DOMAIN segs = 1..m /\ \A k \in 1..m : segs[k] \in Nat \X Nat
    BY SequencesAreFunctions DEF SpanLists
  <1>2. PICK it : /\ FoldLeft(Merged, <<>>, segs) = it[m] /\ it[0] = <<>>
                  /\ \A k \in 1..m : it[k] = Merged(it[k - 1], segs[k])
    BY <1>1, MergesStepByStep
  <1>3. \A i, j \in 1..m : segs[i][1] <= segs[i][2] /\ (i < j => segs[i][2] < segs[j][1])
    BY <1>1 DEF Spaced
  <1> DEFINE Good(k) == /\ it[k] \in SpanLists /\ FarApart(it[k])
                        /\ it[k] # <<>> => k > 0 /\ Last(it[k])[2] = segs[k][2]
             P == {k \in Nat : k <= m => Good(k)}
  <1>4. 0 \in P
    <2>1. it[0] \in SpanLists /\ DOMAIN it[0] = {}
      <3>1. <<>> \in Seq(Nat \X Nat) /\ DOMAIN <<>> = {}
        OBVIOUS
      <3> QED
        BY <1>2, <3>1 DEF SpanLists
    <2> QED
      BY <1>2, <2>1 DEF FarApart
  <1>5. ASSUME NEW k \in Nat, k \in P PROVE k + 1 \in P
    <2> SUFFICES ASSUME k + 1 <= m PROVE Good(k + 1)
      OBVIOUS
    <2>1. k <= m /\ Good(k) /\ k + 1 \in 1..m /\ (k + 1) - 1 = k
      BY <1>5
    <2>2. PICK seg \in Nat \X Nat : seg = segs[k + 1] /\ seg[1] <= seg[2]
      BY <1>1, <1>3, <2>1
    <2>3. it[k + 1] = Merged(it[k], seg)
      BY <1>2, <2>1, <2>2
    <2>4. it[k] # <<>> => Last(it[k])[2] < seg[1]
      <3> SUFFICES ASSUME it[k] # <<>> PROVE Last(it[k])[2] < seg[1]
        OBVIOUS
      <3>1. k \in 1..m /\ Last(it[k])[2] = segs[k][2]
        BY <2>1
      <3> QED
        BY <1>3, <2>1, <2>2, <3>1
    <2>5. /\ it[k + 1] \in SpanLists /\ FarApart(it[k + 1])
          /\ it[k + 1] # <<>> /\ Last(it[k + 1])[2] = seg[2]
      <3>1. PICK out \in SpanLists : out = it[k] /\ FarApart(out)
        BY <2>1
      <3> QED
        BY <2>2, <2>3, <2>4, <3>1, MergedKeeps
    <2> QED
      BY <2>2, <2>5
  <1>6. m \in P
    <2> HIDE DEF P
    <2> QED
      BY <1>4, <1>5, NatIsReached
  <1> QED
    BY <1>2, <1>6

(* What is left of a speaker's frames: spans longer than MinOn, more than MinOff from each other.            *)
LongAndApart(M) ==
    /\ \A x \in M : x[1] \in Nat /\ x[2] \in Nat /\ x[1] <= x[2] /\ x[2] - x[1] > MinOn
    /\ \A x, y \in M : x = y \/ x[2] + MinOff < y[1] \/ y[2] + MinOff < x[1]

(* What merge_and_filter returns is longer than MinOn and more than MinOff apart. *)
LEMMA LongSpansAreKept ==
    ASSUME DiarAssumption, NEW n \in Int, NEW S \in SUBSET (0..n - 1)
    PROVE  IsFiniteSet(MergeAndFilter(Runs(S, n))) /\ LongAndApart(MergeAndFilter(Runs(S, n)))
  <1>1. PICK segs \in SpanLists : segs = Runs(S, n) /\ Spaced(segs)
    BY RunsAreSpaced
  <1>2. PICK out \in SpanLists : out = FoldLeft(Merged, <<>>, segs) /\ FarApart(out)
    BY <1>1, GapsAreClosed
  <1> DEFINE M == {x \in Range(out) : x[2] - x[1] > MinOn}
  <1>3. MergeAndFilter(Runs(S, n)) = M
    BY <1>1, <1>2 DEF MergeAndFilter
  <1>4. PICK m \in Nat : DOMAIN out = 1..m /\ \A k \in 1..m : out[k] \in Nat \X Nat
    <2>1. PICK E : E = Nat \X Nat /\ out \in Seq(E)
      BY DEF SpanLists
    <2>2. PICK m \in Nat : DOMAIN out = 1..m /\ \A k \in 1..m : out[k] \in E
      BY ONLY <2>1, ListsHaveLengths
    <2> QED
      BY ONLY <2>1, <2>2
  <1>5. \A x \in M : (\E i \in 1..m : x = out[i]) /\ x[2] - x[1] > MinOn
    BY <1>4 DEF Range
  <1>6. IsFiniteSet(M)
    <2>1. [i \in 1..m |-> out[i]] \in Surjection(1..m, Range(out))
      BY <1>4 DEF Surjection, Range
    <2>2. IsFiniteSet(1..m)
      BY <1>4, FS_Interval
    <2>3. IsFiniteSet(Range(out))
      BY <2>1, <2>2, FS_Surjection
    <2> QED
      BY <2>3, FS_Subset
  <1> HIDE DEF M
  <1>7. \A i \in 1..m : out[i][1] \in Nat /\ out[i][2] \in Nat
    BY <1>4
  <1>8. \A i, j \in 1..m : out[i][1] <= out[i][2] /\ (i < j => out[i][2] + MinOff < out[j][1])
    BY <1>2, <1>4 DEF FarApart
  <1>9. LongAndApart(M)
    <2>1. ASSUME NEW x \in M PROVE x[1] \in Nat /\ x[2] \in Nat /\ x[1] <= x[2] /\ x[2] - x[1] > MinOn
      BY <1>5, <1>7, <1>8
    <2>2. ASSUME NEW x \in M, NEW y \in M PROVE x = y \/ x[2] + MinOff < y[1] \/ y[2] + MinOff < x[1]
      <3>1. PICK i \in 1..m, j \in 1..m : x = out[i] /\ y = out[j]
        BY <1>5
      <3>2. i = j \/ i < j \/ j < i
        OBVIOUS
      <3> QED
        BY <1>8, <3>1, <3>2
    <2> QED
      BY <2>1, <2>2 DEF LongAndApart
  <1> QED
    BY <1>3, <1>6, <1>9

(* Turns by their start: those of a speaker do not touch.                                                     *)
SoonerIn(T) == {z \in T \X T : Sooner(z[1], z[2])}

StartOnce(T) ==
    /\ \A x \in T : x.speaker \in Int /\ x.start \in Int
    /\ \A x, y \in T : x.speaker = y.speaker /\ x.start = y.start => x = y

(* Turns put in order are in order, when a speaker starts one at a time. *)
LEMMA SoonerSorts ==
    ASSUME NEW T, IsFiniteSet(T), StartOnce(T)
    PROVE  /\ Ordered(T, Sooner) \in [1..Cardinality(T) -> T] /\ Cardinality(T) \in Nat
           /\ InOrder(T, SoonerIn(T), Ordered(T, Sooner))
  <1> DEFINE R == SoonerIn(T)
             At(i) == CHOOSE x \in T : Cardinality({y \in T : Sooner(y, x)}) = i - 1
             f == Ordered(T, Sooner)
  <1>1. \A x, y \in T : <<x, y>> \in R <=> Sooner(x, y)
    BY DEF SoonerIn
  <1>2. \A x, y \in T : x = y \/ <<x, y>> \in R \/ <<y, x>> \in R
    <2>1. ASSUME NEW x \in T, NEW y \in T PROVE x = y \/ Sooner(x, y) \/ Sooner(y, x)
      BY DEF Sooner, StartOnce
    <2> QED
      BY <1>1, <2>1, Zenon
  <1> HIDE DEF R
  <1>3. \A x \in T : <<x, x>> \notin R
    <2>1. \A x \in T : ~Sooner(x, x)
      BY DEF Sooner, StartOnce
    <2> QED
      BY ONLY <1>1, <2>1
  <1>4. \A x, y, z \in T : <<x, y>> \in R /\ <<y, z>> \in R => <<x, z>> \in R
    <2>1. \A x, y, z \in T : Sooner(x, y) /\ Sooner(y, z) => Sooner(x, z)
      BY DEF Sooner, StartOnce
    <2> QED
      BY ONLY <1>1, <2>1
  <1>5. IsOrder(T, R) /\ RanksFilled(T, R)
    <2>1. IsOrder(T, R)
      BY <1>2, <1>3, <1>4 DEF IsOrder
    <2> QED
      BY <2>1, OrdersAreFilled
  <1>6. \A x \in T : {y \in T : <<y, x>> \in R} = {y \in T : Sooner(y, x)}
    BY <1>1
  <1>7. \A i \in 1..Cardinality(T) : At(i) \in T /\ Cardinality({y \in T : Sooner(y, At(i))}) = i - 1
    <2> SUFFICES ASSUME NEW i \in 1..Cardinality(T)
                 PROVE  \E x \in T : Cardinality({y \in T : Sooner(y, x)}) = i - 1
      OBVIOUS
    <2> QED
      BY <1>5, <1>6 DEF RanksFilled
  <1>8. f = [i \in 1..Cardinality(T) |-> At(i)]
    BY DEF Ordered
  <1> HIDE DEF At, f
  <1>9. f \in [1..Cardinality(T) -> T] /\ Cardinality(T) \in Nat
    BY <1>7, <1>8, FS_CardinalityType
  <1>10. \A i \in 1..Cardinality(T) : Cardinality({y \in T : <<y, f[i]>> \in R}) = i - 1
    BY <1>6, <1>7, <1>8
  <1>11. InOrder(T, R, f)
    BY <1>5, <1>9, <1>10, RanksSort
  <1> QED
    BY <1>9, <1>11 DEF f, R

TurnsApart(turns) ==
    \A s \in DOMAIN turns :
      /\ turns[s].end - turns[s].start > MinOn
      /\ \A t \in 1..s - 1 : turns[t].speaker = turns[s].speaker => turns[t].end + MinOff < turns[s].start
OfSpeakers(turns, who) ==
    \A t \in Range(turns) : t \in [speaker : who, start : Nat, end : Nat] /\ t.start <= t.end

(* Turns that are apart are still apart as a list in order. *)
LEMMA TurnsAreApart ==
    ASSUME DiarAssumption, NEW T, IsFiniteSet(T), NEW who, who \subseteq Int,
           \A x \in T : /\ x \in [speaker : who, start : Nat, end : Nat]
                        /\ x.start <= x.end /\ x.end - x.start > MinOn,
           \A x, y \in T : x.speaker = y.speaker =>
             x = y \/ x.end + MinOff < y.start \/ y.end + MinOff < x.start,
           NEW f, f = Ordered(T, Sooner)
    PROVE  IsTurns(f) /\ TurnsApart(f) /\ OfSpeakers(f, who)
  <1>1. MinOff \in Nat
    BY DEF DiarAssumption
  <1>2. \A x \in T : x.speaker \in Int /\ x.start \in Nat /\ x.end \in Nat
    OBVIOUS
  <1>3. \A x, y \in T : x.speaker = y.speaker /\ x.start = y.start => x = y
    BY <1>1, <1>2
  <1>4. f \in [1..Cardinality(T) -> T] /\ Cardinality(T) \in Nat /\ InOrder(T, SoonerIn(T), f)
    <2>1. StartOnce(T)
      BY <1>2, <1>3 DEF StartOnce
    <2> QED
      BY <2>1, SoonerSorts
  <1>5. ASSUME NEW s \in DOMAIN f, NEW t \in 1..s - 1, f[t].speaker = f[s].speaker
        PROVE  f[t].end + MinOff < f[s].start
    <2>1. t \in DOMAIN f /\ t < s
      BY <1>4
    <2>2. PICK x \in T, y \in T : x = f[t] /\ y = f[s]
      BY <1>4, <2>1
    <2>3. Sooner(x, y)
      BY <1>4, <2>1, <2>2 DEF InOrder, SoonerIn
    <2>4. x.start < y.start
      <3>1. x.speaker = y.speaker /\ x.speaker \in Int
        BY <1>2, <1>5, <2>2
      <3> QED
        BY ONLY <2>3, <3>1 DEF Sooner
    <2>5. x # y /\ ~(y.end + MinOff < x.start)
      BY <1>1, <1>2, <2>4
    <2> QED
      BY <1>5, <2>2, <2>5
  <1>6. \A s \in DOMAIN f : f[s].end - f[s].start > MinOn
    BY <1>4
  <1>7. TurnsApart(f)
    BY <1>5, <1>6 DEF TurnsApart
  <1>8. IsTurns(f)
    <2>1. T \subseteq [speaker : Int, start : Nat, end : Nat]
      OBVIOUS
    <2>2. PICK E : E = [speaker : Int, start : Nat, end : Nat] /\ T \subseteq E
      BY <2>1
    <2>3. PICK m \in Nat : m = Cardinality(T) /\ f \in [1..m -> E]
      BY <1>4, <2>2
    <2>4. f \in Seq(E)
      BY ONLY <2>3
    <2> QED
      BY <2>2, <2>4 DEF IsTurns
  <1>9. OfSpeakers(f, who)
    BY <1>4 DEF OfSpeakers, Range
  <1> QED
    BY <1>7, <1>8, <1>9

(* The turns of the frames picked are apart, each speaker's (reconstruct). *)
LEMMA SpeakersTurnsAreApart ==
    ASSUME DiarAssumption, NEW n \in Int, NEW who \in SUBSET Int, IsFiniteSet(who),
           NEW picked \in SUBSET ((0..n - 1) \X who)
    PROVE  /\ IsTurns(TurnsOf(picked, n)) /\ TurnsApart(TurnsOf(picked, n))
           /\ OfSpeakers(TurnsOf(picked, n), who)
  <1> DEFINE some == {x[2] : x \in picked}
             frames(c) == {x[1] : x \in {y \in picked : y[2] = c}}
             mine(c) == MergeAndFilter(Runs(frames(c), n))
             spoken(c) == {Turn(c, x[1], x[2]) : x \in mine(c)}
             T == UNION {spoken(c) : c \in some}
  <1>1. TurnsOf(picked, n) = Ordered(T, Sooner)
    BY DEF TurnsOf
  <1>2. some \subseteq who /\ \A c \in some : frames(c) \in SUBSET (0..n - 1)
    OBVIOUS
  <1>3. ASSUME NEW c \in some PROVE IsFiniteSet(mine(c)) /\ LongAndApart(mine(c))
    <2> HIDE DEF frames, some
    <2> QED
      BY <1>2, LongSpansAreKept
  <1> HIDE DEF mine
  <1>4. ASSUME NEW c \in some PROVE IsFiniteSet(spoken(c))
    <2> DEFINE f == [x \in mine(c) |-> Turn(c, x[1], x[2])]
    <2>1. f \in Surjection(mine(c), spoken(c))
      BY DEF Surjection
    <2> HIDE DEF f, spoken
    <2> QED
      BY <1>3, <2>1, FS_Surjection
  <1>5. IsFiniteSet(T)
    <2>1. IsFiniteSet(some)
      <3> HIDE DEF some
      <3> QED
        BY <1>2, FS_Subset
    <2> DEFINE g == [c \in some |-> spoken(c)]
               all == {spoken(c) : c \in some}
    <2>2. g \in Surjection(some, all)
      <3> HIDE DEF spoken, some
      <3> QED
        BY DEF Surjection
    <2>3. IsFiniteSet(all)
      <3> HIDE DEF g, all, some
      <3> QED
        BY <2>1, <2>2, FS_Surjection
    <2>4. \A U \in all : IsFiniteSet(U)
      <3> HIDE DEF spoken, some
      <3> QED
        BY <1>4
    <2>5. IsFiniteSet(UNION all)
      <3> HIDE DEF all
      <3> QED
        BY <2>3, <2>4, FS_UNION
    <2> QED
      BY <2>5
  <1>6. \A x \in T : \E c \in some : \E y \in mine(c) : x = Turn(c, y[1], y[2])
    <2> HIDE DEF some
    <2> QED
      OBVIOUS
  <1> HIDE DEF T, some, frames, spoken
  <1>7. ASSUME NEW x \in T
        PROVE  /\ x \in [speaker : who, start : Nat, end : Nat]
               /\ x.start <= x.end /\ x.end - x.start > MinOn
    <2>1. PICK c \in some : \E y \in mine(c) : x = Turn(c, y[1], y[2])
      BY <1>6
    <2>2. PICK y \in mine(c) : x = Turn(c, y[1], y[2])
      BY <2>1
    <2>3. x.start = y[1] /\ x.end = y[2]
      BY <2>2 DEF Turn
    <2>4. y[1] \in Nat /\ y[2] \in Nat /\ y[1] <= y[2] /\ y[2] - y[1] > MinOn
      BY <1>3 DEF LongAndApart
    <2>5. x \in [speaker : who, start : Nat, end : Nat]
      BY <1>2, <2>2, <2>4 DEF Turn
    <2> QED
      BY <2>3, <2>4, <2>5
  <1>8. ASSUME NEW x \in T, NEW y \in T, x.speaker = y.speaker
        PROVE  x = y \/ x.end + MinOff < y.start \/ y.end + MinOff < x.start
    <2>1. PICK c \in some : \E a \in mine(c) : x = Turn(c, a[1], a[2])
      BY <1>6
    <2>2. PICK a \in mine(c) : x = Turn(c, a[1], a[2])
      BY <2>1
    <2>3. PICK d \in some : \E b \in mine(d) : y = Turn(d, b[1], b[2])
      BY <1>6
    <2>4. PICK b \in mine(d) : y = Turn(d, b[1], b[2])
      BY <2>3
    <2>5. x.speaker = c /\ x.start = a[1] /\ x.end = a[2]
      BY <2>2 DEF Turn
    <2>6. y.speaker = d /\ y.start = b[1] /\ y.end = b[2]
      BY <2>4 DEF Turn
    <2>7. c = d
      BY <1>8, <2>5, <2>6
    <2>8. a = b \/ a[2] + MinOff < b[1] \/ b[2] + MinOff < a[1]
      BY <1>3, <2>4, <2>7 DEF LongAndApart
    <2> QED
      BY <2>2, <2>4, <2>5, <2>6, <2>7, <2>8
  <1>9. PICK f : f = Ordered(T, Sooner)
    OBVIOUS
  <1>10. IsTurns(f) /\ TurnsApart(f) /\ OfSpeakers(f, who)
    BY <1>5, <1>7, <1>8, <1>9, TurnsAreApart
  <1> QED
    BY <1>1, <1>9, <1>10

-----------------------------------------------------------------------------
(* What a labelled meeting has besides: its store, and a speaker for every embedding. *)
LabelsFit ==
    /\ stage \in Working \cup {"audio"} => store \in Stores
    /\ stage = "labelled" => DOMAIN clusters = Embeddings

(* LabelsFit holds at first, *)
LEMMA LabelsFitBegins == Init => LabelsFit
  BY DEF Init, LabelsFit, Working

(* and every step keeps it. *)
LEMMA LabelsFitKeeps ==
    ASSUME DiarAssumption, LInv, LabelsFit, [Next]_vars
    PROVE  LabelsFit'
  <1>1. CASE Extracts
    <2>1. store \in Stores /\ store' = store /\ stage' # "labelled"
      BY <1>1 DEF Extracts, LabelsFit
    <2> QED
      BY <2>1 DEF LabelsFit
  <1>2. CASE ClustersWhole
    <2>1. store \in Stores /\ store' = store /\ pairs' = pairs /\ HasEmbeddings
      BY <1>2 DEF ClustersWhole, LabelsFit, Working, LInv
    <2>2. PICK base \in Partitions(Embeddings) :
            clusters' \in IF cfg.minCount > 1 THEN ReassignSmall(base, cfg.minCount) ELSE {base}
      BY <1>2 DEF ClustersWhole
    <2>3. DOMAIN base = Embeddings
      BY <2>1, EmbeddingsAreNumbers, PartitionsLabel
    <2>4. DOMAIN FirstSeen(base) = DOMAIN base /\ \A big : \A new \in Folded(base, big) : DOMAIN new = DOMAIN base
      BY DEF Folded, FirstSeen
    <2>5. clusters' = base \/ clusters' = FirstSeen(base) \/ \E big : clusters' \in Folded(base, big)
      BY <2>2 DEF ReassignSmall
    <2>6. DOMAIN clusters' = Embeddings
      BY <2>3, <2>4, <2>5
    <2> QED
      BY <2>1, <2>6 DEF LabelsFit, Embeddings
  <1>3. CASE ClustersPiece \/ Joins \/ LinksPieces
    <2>1. stage \in Working /\ store' = store /\ stage' # "labelled"
      BY <1>3 DEF ClustersPiece, Joins, LinksPieces, Working
    <2> QED
      BY <2>1 DEF LabelsFit
  <1>4. CASE Floors
    <2>1. store \in Stores /\ store' = store /\ pairs' = pairs /\ LinksAreSound
      BY <1>4 DEF Floors, LabelsFit, Working, LInv
    <2>2. clusters' = linked \/ \E big : clusters' \in Folded(linked, big)
      BY <1>4 DEF Floors, KeepBig
    <2>3. \A big : \A new \in Folded(linked, big) : DOMAIN new = DOMAIN linked
      BY DEF Folded, FirstSeen
    <2>4. DOMAIN clusters' = Embeddings
      BY <2>1, <2>2, <2>3 DEF LinksAreSound
    <2> QED
      BY <2>1, <2>4 DEF LabelsFit, Embeddings
  <1>5. CASE stage' \in {"turns", "matching", "scored"}
    BY <1>5 DEF LabelsFit, Working
  <1>6. CASE UNCHANGED vars
    BY <1>6 DEF LabelsFit, Embeddings, vars, pipeline
  <1>7. Reconstructs \/ Matches \/ Assigns \/ Scores => stage' \in {"turns", "matching", "scored"}
    BY DEF Reconstructs, Matches, Assigns, Scores
  <1> QED
    BY <1>1, <1>2, <1>3, <1>4, <1>5, <1>6, <1>7 DEF Next, Ended

(* The speakers of a labelled meeting, from 0 to the highest.                                             *)
LEMMA SpeakersAreNumbered ==
    ASSUME DiarAssumption, LInv, LabelsFit, stage = "labelled"
    PROVE  \E h \in Nat : /\ IsFiniteSet(Clustered(pairs, clusters)) /\ Range(clusters) = 0..h
                           /\ {x[3] : x \in Clustered(pairs, clusters)} = 0..h
  <1> DEFINE of == Clustered(pairs, clusters)
  <1>1. store \in Stores /\ DOMAIN clusters = Embeddings /\ HasEmbeddings /\ clusters = FirstSeen(clusters)
    BY DEF LabelsFit, LInv, LabelsAreSound, Working
  <1>2. Embeddings \subseteq Int /\ IsFiniteSet(Embeddings) /\ Embeddings # {}
    BY <1>1, EmbeddingsAreNumbers
  <1>3. PICK h \in Nat : Range(clusters) = 0..h
    BY <1>1, <1>2, NumbersAreFull
  <1>4. IsFiniteSet(of)
    <2> DEFINE g == [i \in Embeddings |-> <<pairs[i][1], pairs[i][2], clusters[i]>>]
    <2>1. g \in Surjection(Embeddings, of)
      BY DEF Surjection, Clustered, Embeddings
    <2> HIDE DEF g, of
    <2> QED
      BY <1>2, <2>1, FS_Surjection
  <1>5. {x[3] : x \in of} = 0..h
    <2>1. DOMAIN pairs = DOMAIN clusters
      BY <1>1 DEF Embeddings
    <2>2. \A x \in of : \E i \in DOMAIN clusters : x[3] = clusters[i]
      BY <2>1 DEF Clustered
    <2>3. \A i \in DOMAIN clusters : \E x \in of : x[3] = clusters[i]
      <3> SUFFICES ASSUME NEW i \in DOMAIN clusters PROVE \E x \in of : x[3] = clusters[i]
        OBVIOUS
      <3>1. <<pairs[i][1], pairs[i][2], clusters[i]>> \in of
        BY <2>1 DEF Clustered
      <3> HIDE DEF of
      <3> QED
        BY <3>1
    <2> HIDE DEF of
    <2>4. {x[3] : x \in of} = {clusters[i] : i \in DOMAIN clusters}
      BY <2>2, <2>3
    <2> QED
      BY <1>3, <2>4 DEF Range
  <1> QED
    BY <1>3, <1>4, <1>5

(* What reconstruct makes of them are turns.                                                              *)
LEMMA ReconstructedAreTurns ==
    ASSUME DiarAssumption, LInv, LabelsFit, stage = "labelled",
           NEW turns, turns = Reconstruct(store.labels, pairs, clusters, store.samples, cfg.block)
    PROVE  IsTurns(turns) /\ TurnsApart(turns) /\ \E h \in Nat : OfSpeakers(turns, 0..h)
  <1> DEFINE of == Clustered(pairs, clusters)
             n == Frames(store.labels, store.samples)
             picked == Picked(store.labels, of, store.samples, cfg.block)
  <1>1. n \in Int
    <2>1. store \in Stores
      BY DEF LabelsFit, Working
    <2> QED
      BY <2>1, SpeakersAreNumbers
  <1>2. PICK h \in Nat : {x[3] : x \in of} = 0..h
    BY SpeakersAreNumbered
  <1>3. picked \in SUBSET ((0..n - 1) \X (0..h))
    BY <1>2 DEF Picked
  <1>4. turns = TurnsOf(picked, n)
    BY DEF Reconstruct
  <1>5. 0..h \in SUBSET Int /\ IsFiniteSet(0..h)
    <2>1. h \in Int /\ 0 \in Int
      OBVIOUS
    <2>2. IsFiniteSet(0..h)
      BY ONLY <2>1, FS_Interval
    <2> QED
      BY <2>2
  <1> HIDE DEF picked, n, of
  <1>6. IsTurns(turns) /\ TurnsApart(turns) /\ OfSpeakers(turns, 0..h)
    BY <1>1, <1>3, <1>4, <1>5, SpeakersTurnsAreApart
  <1> QED
    BY <1>6

(* The property of a labelled meeting, from the two invariants. *)
LEMMA LabelledIsMostVoted ==
    ASSUME DiarAssumption, LInv, LabelsFit
    PROVE  TurnsAreTheMostVoted
  <1> SUFFICES ASSUME stage = "labelled" PROVE TurnsAreTheMostVoted
    BY DEF TurnsAreTheMostVoted
  <1> DEFINE of == Clustered(pairs, clusters)
             n == Frames(store.labels, store.samples)
  <1>1. store \in Stores
    BY DEF LabelsFit, Working
  <1>2. n \in Int
    BY <1>1, SpeakersAreNumbers
  <1>3. PICK h \in Nat : /\ IsFiniteSet(of) /\ {x[3] : x \in of} = 0..h /\ Range(clusters) = 0..h
    BY SpeakersAreNumbered
  <1>4. \A block \in {1, 3, n} : Picked(store.labels, of, store.samples, block) =
          {x \in (0..n-1) \X (0..h) :
             x[2] \in MostVoted(store.labels, of, x[1], 0..h, SpeakersPerFrame(store.labels, x[1]))}
    <2> HIDE DEF of
    <2> QED
      BY <1>1, <1>3, PickedAreMostVoted
  <1>5. TurnsApart(Reconstruct(store.labels, pairs, clusters, store.samples, cfg.block))
    BY ReconstructedAreTurns
  <1> HIDE DEF of, n
  <1> QED
    BY <1>3, <1>4, <1>5 DEF TurnsAreTheMostVoted, TurnsApart, of, n

(* Whatever the size of the blocks, each frame keeps the clusters with the most votes of all there are;  *)
(* a speaker's turns are longer than MinOn and more than MinOff apart (reconstruct, merge_and_filter).    *)
THEOREM TurnsStayTheMostVoted == Spec => []TurnsAreTheMostVoted
  <1>1. Init => LabelsFit
    BY LabelsFitBegins
  <1>2. LInv /\ LabelsFit /\ [Next]_vars => LabelsFit'
    BY LabelsFitKeeps, DiarAssumption
  <1>3. LInv /\ LabelsFit => TurnsAreTheMostVoted
    BY LabelledIsMostVoted, DiarAssumption
  <1> QED
    BY <1>1, <1>2, <1>3, LabelsInvariant, PTL DEF Spec

-----------------------------------------------------------------------------
(* The turns that are scored.  One voice never speaks twice at once.                                      *)
IsVoice(turns) ==
    \E n \in Nat : /\ DOMAIN turns = 1..n
                   /\ \A i \in 1..n : turns[i].start \in Nat /\ turns[i].end \in Nat
                   /\ \A i \in 1..n : \A j \in 1..i - 1 : turns[j].end < turns[i].start

(* The voice of a microphone is such a list (one_voice). *)
LEMMA OneVoiceIsApart ==
    ASSUME DiarAssumption, NEW A, NEW labels \in Seq(A), NEW samples \in Int
    PROVE  IsVoice(OneVoice(labels, samples))
  <1> DEFINE all == EveryPair(labels)
             none == [i \in DOMAIN all |-> 0]
             of == Clustered(all, none)
             n == Frames(labels, samples)
             picked == Picked(labels, of, samples, samples)
             f == Reconstruct(labels, all, none, samples, samples)
  <1>1. n \in Int
    BY FramesAreNumbers
  <1>2. picked \in SUBSET ((0..n - 1) \X {0})
    <2>1. \A x \in of : x[3] = 0
      BY DEF Clustered
    <2>2. {y[3] : y \in of} \subseteq {0}
      <3> HIDE DEF of
      <3> QED
        BY <2>1
    <2>3. picked \subseteq (0..n - 1) \X {y[3] : y \in of}
      BY DEF Picked
    <2> HIDE DEF picked, of, n
    <2> QED
      BY <2>2, <2>3
  <1>3. f = TurnsOf(picked, n)
    BY DEF Reconstruct
  <1>4. IsTurns(f) /\ TurnsApart(f) /\ OfSpeakers(f, {0})
    <2>1. {0} \in SUBSET Int /\ IsFiniteSet({0})
      <3>1. IsFiniteSet({0})
        BY ONLY FS_Singleton
      <3> QED
        BY <3>1
    <2> HIDE DEF picked, n, f
    <2> QED
      BY <1>1, <1>2, <1>3, <2>1, SpeakersTurnsAreApart
  <1>5. OneVoice(labels, samples) = [i \in DOMAIN f |-> [f[i] EXCEPT !.speaker = Me]]
    BY DEF OneVoice
  <1> HIDE DEF f
  <1>6. PICK m \in Nat : DOMAIN f = 1..m /\ \A i \in 1..m : f[i] \in [speaker : Int, start : Nat, end : Nat]
    <2>1. PICK E : E = [speaker : Int, start : Nat, end : Nat]
      OBVIOUS
    <2>2. f \in Seq(E)
      BY <1>4, <2>1 DEF IsTurns
    <2>3. \E m \in Nat : DOMAIN f = 1..m /\ \A i \in 1..m : f[i] \in E
      BY ONLY <2>2, ListsHaveLengths
    <2> QED
      BY <2>1, <2>3
  <1>7. PICK voice : /\ voice = OneVoice(labels, samples) /\ DOMAIN voice = 1..m
                     /\ \A i \in 1..m : voice[i].start = f[i].start /\ voice[i].end = f[i].end
    BY <1>5, <1>6
  <1>8. \A i \in 1..m : f[i].speaker = 0
    <2>1. OfSpeakers(f, {0}) /\ DOMAIN f = 1..m
      BY <1>4, <1>6
    <2> QED
      BY ONLY <2>1 DEF OfSpeakers, Range
  <1>9. \A i \in 1..m : \A j \in 1..i - 1 : f[j].end < f[i].start
    <2> SUFFICES ASSUME NEW i \in 1..m, NEW j \in 1..i - 1 PROVE f[j].end < f[i].start
      OBVIOUS
    <2>1. j \in 1..m
      OBVIOUS
    <2>2. f[j].end + MinOff < f[i].start
      BY <1>4, <1>6, <1>8, <2>1 DEF TurnsApart
    <2>3. MinOff \in Nat /\ f[j].end \in Nat /\ f[i].start \in Nat
      BY <1>6, <2>1 DEF DiarAssumption
    <2> QED
      BY <2>2, <2>3
  <1>10. \A i \in 1..m : f[i].start \in Nat /\ f[i].end \in Nat
    BY <1>6
  <1>11. IsVoice(voice)
    <2>1. \A i \in 1..m : voice[i].start \in Nat /\ voice[i].end \in Nat
      BY <1>7, <1>10
    <2>2. \A i \in 1..m : \A j \in 1..i - 1 : voice[j].end < voice[i].start
      BY <1>7, <1>9
    <2> QED
      BY <1>7, <2>1, <2>2 DEF IsVoice
  <1> QED
    BY <1>7, <1>11

(* What is left of it without the echo are turns still, each with a start of its own.                       *)
Pieces(V) ==
    /\ IsFiniteSet(V) /\ V \subseteq [speaker : {Me}, start : Nat, end : Nat]
    /\ \A x, y \in V : x.start = y.start => x = y

(* What is left of a voice without the echo is such pieces (drop_echo). *)
LEMMA EchoIsDropped ==
    ASSUME NEW turns, IsVoice(turns), NEW echo
    PROVE  Pieces(DropEcho(turns, echo))
  <1> DEFINE clear(t) == (t.start..t.end - 1) \ echo
             after(t, a) == {b \in a..t.end : b \notin clear(t)}
             first(t) == {x \in clear(t) : x - 1 \notin clear(t)}
             left(t) == {<<a, Min(after(t, a))>> : a \in first(t)}
             long(t) == {x \in left(t) : x[2] - x[1] > MinOn}
             said(t) == {Turn(Me, x[1], x[2]) : x \in long(t)}
             V == UNION {said(t) : t \in Range(turns)}
  <1>1. DropEcho(turns, echo) = V
    BY DEF DropEcho
  <1>2. PICK n \in Nat : /\ DOMAIN turns = 1..n
                         /\ \A i \in 1..n : turns[i].start \in Nat /\ turns[i].end \in Nat
                         /\ \A i \in 1..n : \A j \in 1..i - 1 : turns[j].end < turns[i].start
    BY DEF IsVoice
  <1>3. \A t \in Range(turns) : t.start \in Nat /\ t.end \in Nat
    BY <1>2 DEF Range
  <1>4. ASSUME NEW t \in Range(turns), NEW a \in first(t)
        PROVE  a \in Nat /\ Min(after(t, a)) \in Nat
    <2>1. t.start \in Nat /\ t.end \in Nat
      BY <1>3
    <2>2. a \in t.start..t.end - 1
      OBVIOUS
    <2>3. after(t, a) # {} /\ after(t, a) \subseteq a..t.end
      <3>1. t.end \in after(t, a)
        BY <2>1, <2>2
      <3> QED
        BY <3>1
    <2>4. IsFiniteSet(a..t.end) /\ a..t.end \subseteq Nat /\ a \in Nat
      <3>1. a \in Int /\ t.end \in Int
        BY <2>1, <2>2
      <3>2. IsFiniteSet(a..t.end)
        BY <3>1, FS_Interval
      <3> QED
        BY <2>1, <2>2, <3>2
    <2> HIDE DEF after
    <2>5. IsFiniteSet(after(t, a)) /\ after(t, a) \subseteq Int
      <3>1. PICK F, G : F = after(t, a) /\ G = a..t.end
        OBVIOUS
      <3>2. IsFiniteSet(G) /\ F \in SUBSET G /\ F \subseteq Int
        BY <2>3, <2>4, <3>1
      <3>3. IsFiniteSet(F) /\ F \subseteq Int
        BY ONLY <3>2, FS_Subset, Zenon
      <3> QED
        BY <3>1, <3>3
    <2>6. Min(after(t, a)) \in after(t, a)
      BY <2>3, <2>5, HasExtremes
    <2> QED
      BY <2>3, <2>4, <2>6
  <1>5. ASSUME NEW t \in Range(turns) PROVE IsFiniteSet(said(t))
    <2>1. IsFiniteSet(first(t))
      <3>1. first(t) \subseteq t.start..t.end - 1
        OBVIOUS
      <3>2. IsFiniteSet(t.start..t.end - 1)
        <4>1. t.start \in Int /\ t.end - 1 \in Int
          BY <1>3
        <4> QED
          BY <4>1, FS_Interval
      <3> HIDE DEF first
      <3> QED
        BY <3>1, <3>2, FS_Subset
    <2> DEFINE g == [a \in first(t) |-> <<a, Min(after(t, a))>>]
               k == [x \in long(t) |-> Turn(Me, x[1], x[2])]
    <2>2. IsFiniteSet(left(t))
      <3>1. g \in Surjection(first(t), left(t))
        BY DEF Surjection
      <3> HIDE DEF g, first, left
      <3> QED
        BY <2>1, <3>1, FS_Surjection
    <2>3. IsFiniteSet(long(t))
      <3> HIDE DEF left
      <3> QED
        BY <2>2, FS_Subset
    <2>4. k \in Surjection(long(t), said(t))
      BY DEF Surjection
    <2> HIDE DEF k, long, said
    <2> QED
      BY <2>3, <2>4, FS_Surjection
  <1>6. IsFiniteSet(V)
    <2>1. IsFiniteSet(Range(turns))
      <3>1. [i \in 1..n |-> turns[i]] \in Surjection(1..n, Range(turns))
        BY <1>2 DEF Surjection, Range
      <3>2. IsFiniteSet(1..n)
        BY FS_Interval
      <3> QED
        BY <3>1, <3>2, FS_Surjection
    <2> DEFINE g == [t \in Range(turns) |-> said(t)]
               some == {said(t) : t \in Range(turns)}
    <2>2. g \in Surjection(Range(turns), some)
      <3> HIDE DEF said
      <3> QED
        BY DEF Surjection
    <2>3. IsFiniteSet(some)
      <3> HIDE DEF g, some
      <3> QED
        BY <2>1, <2>2, FS_Surjection
    <2>4. \A U \in some : IsFiniteSet(U)
      <3> HIDE DEF said
      <3> QED
        BY <1>5
    <2>5. IsFiniteSet(UNION some)
      <3> HIDE DEF some
      <3> QED
        BY <2>3, <2>4, FS_UNION
    <2> QED
      BY <2>5
  <1>7. ASSUME NEW x \in V
        PROVE  \E t \in Range(turns) : \E a \in first(t) : x = Turn(Me, a, Min(after(t, a)))
    <2>1. PICK t \in Range(turns) : x \in said(t)
      OBVIOUS
    <2>2. PICK y \in long(t) : x = Turn(Me, y[1], y[2])
      BY <2>1
    <2>3. PICK a \in first(t) : y = <<a, Min(after(t, a))>>
      OBVIOUS
    <2> HIDE DEF first, after
    <2> QED
      BY <2>2, <2>3
  <1> HIDE DEF V, said, long, left
  <1>8. ASSUME NEW x \in V PROVE x \in [speaker : {Me}, start : Nat, end : Nat]
    <2>1. PICK t \in Range(turns) : \E a \in first(t) : x = Turn(Me, a, Min(after(t, a)))
      BY <1>7
    <2>2. PICK a \in first(t) : x = Turn(Me, a, Min(after(t, a)))
      BY <2>1
    <2>3. a \in Nat /\ Min(after(t, a)) \in Nat
      BY <1>4
    <2> HIDE DEF first, after
    <2> QED
      BY <2>2, <2>3 DEF Turn
  <1>9. ASSUME NEW x \in V, NEW y \in V, x.start = y.start PROVE x = y
    <2>1. PICK s \in Range(turns) : \E a \in first(s) : x = Turn(Me, a, Min(after(s, a)))
      BY <1>7
    <2>2. PICK a \in first(s) : x = Turn(Me, a, Min(after(s, a)))
      BY <2>1
    <2>3. PICK t \in Range(turns) : \E b \in first(t) : y = Turn(Me, b, Min(after(t, b)))
      BY <1>7
    <2>4. PICK b \in first(t) : y = Turn(Me, b, Min(after(t, b)))
      BY <2>3
    <2>5. a = b
      <3>1. x.start = a /\ y.start = b
        BY <2>2, <2>4 DEF Turn
      <3> QED
        BY <1>9, <3>1
    <2>6. s.start <= a /\ a < s.end /\ t.start <= a /\ a < t.end /\ a \in Nat
      <3>1. a \in s.start..s.end - 1 /\ a \in t.start..t.end - 1
        BY <2>5
      <3> QED
        BY <1>3, <3>1
    <2>7. s = t
      <3>1. PICK i \in 1..n, j \in 1..n : s = turns[i] /\ t = turns[j]
        BY <1>2 DEF Range
      <3>2. CASE i = j
        BY <3>1, <3>2
      <3>3. CASE j < i
        <4>1. j \in 1..i - 1
          BY <3>3
        <4>2. t.end < s.start
          BY <1>2, <3>1, <4>1
        <4> QED
          BY <1>3, <2>6, <4>2
      <3>4. CASE i < j
        <4>1. i \in 1..j - 1
          BY <3>4
        <4>2. s.end < t.start
          BY <1>2, <3>1, <4>1
        <4> QED
          BY <1>3, <2>6, <4>2
      <3> QED
        BY <3>2, <3>3, <3>4
    <2> QED
      BY <2>2, <2>4, <2>5, <2>7
  <1>10. Pieces(V)
    BY <1>6, <1>8, <1>9 DEF Pieces
  <1> QED
    BY <1>1, <1>10

(* What is written down of a meeting are turns: the speakers' and the voice of a call, in order.           *)
LEMMA WrittenAreTurns ==
    ASSUME DiarAssumption, LInv, LabelsFit, Reconstructs
    PROVE  IsTurns(hyp')
  <1> DEFINE turns == Reconstruct(store.labels, pairs, clusters, store.samples, cfg.block)
             mic == OneVoice(store.mic, store.samples)
  <1>1. PICK voice : /\ voice = {} \/ \E echo : voice = DropEcho(mic, echo)
                     /\ hyp' = Ordered(voice \cup Range(turns), Sooner)
    BY DEF Reconstructs
  <1>2. stage = "labelled" /\ store \in Stores
    BY DEF Reconstructs, LabelsFit, Working
  <1>3. Pieces(voice)
    <2>1. Pieces({})
      BY FS_EmptySet DEF Pieces
    <2>2. store.mic \in Seq(Range(store.mic)) /\ store.samples \in Int
      BY <1>2 DEF DiarAssumption
    <2>3. IsVoice(mic)
      BY <2>2, OneVoiceIsApart
    <2> HIDE DEF mic
    <2>4. \A echo : Pieces(DropEcho(mic, echo))
      BY <2>3, EchoIsDropped
    <2> QED
      BY <1>1, <2>1, <2>4
  <1>4. PICK h \in Nat : IsTurns(turns) /\ TurnsApart(turns) /\ OfSpeakers(turns, 0..h)
    BY <1>2, ReconstructedAreTurns
  <1>5. PICK all : all = voice \cup Range(turns) /\ hyp' = Ordered(all, Sooner)
    BY <1>1
  <1> HIDE DEF turns, mic
  <1>6. IsFiniteSet(Range(turns))
    <2>1. PICK n \in Nat : DOMAIN turns = 1..n
      BY <1>4 DEF IsTurns
    <2>2. turns \in Surjection(1..n, Range(turns))
      <3>1. [i \in 1..n |-> turns[i]] \in Surjection(1..n, Range(turns))
        BY <2>1 DEF Surjection, Range
      <3>2. turns = [i \in 1..n |-> turns[i]]
        BY <1>4, <2>1 DEF IsTurns
      <3> QED
        BY <3>1, <3>2
    <2>3. IsFiniteSet(1..n)
      BY FS_Interval
    <2> QED
      BY <2>2, <2>3, FS_Surjection
  <1>7. IsFiniteSet(all)
    BY <1>3, <1>5, <1>6, FS_Union DEF Pieces
  <1>8. \A x \in voice : x \in [speaker : Int, start : Nat, end : Nat] /\ x.speaker = Me
    BY <1>3 DEF Pieces, Me
  <1>9. \A x \in Range(turns) : /\ x \in [speaker : Int, start : Nat, end : Nat]
                                  /\ x.speaker \in 0..h /\ x.start <= x.end
    BY <1>4 DEF OfSpeakers
  <1>10. ASSUME NEW x \in Range(turns), NEW y \in Range(turns), x.speaker = y.speaker, x.start = y.start
         PROVE  x = y
    <2>1. PICK i \in DOMAIN turns, j \in DOMAIN turns : x = turns[i] /\ y = turns[j]
      BY DEF Range
    <2>2. i \in Nat /\ j \in Nat /\ i > 0 /\ j > 0
      <3>1. PICK m \in Nat : DOMAIN turns = 1..m
        BY <1>4, SequencesAreFunctions DEF IsTurns
      <3> QED
        BY ONLY <2>1, <3>1
    <2>3. MinOff \in Nat
      BY DEF DiarAssumption
    <2>4. CASE i = j
      BY <2>1, <2>4
    <2>5. CASE i < j
      <3>1. i \in 1..j - 1
        BY <2>2, <2>5
      <3>2. x.end + MinOff < y.start
        BY <1>4, <1>10, <2>1, <3>1 DEF TurnsApart
      <3> QED
        BY <1>9, <1>10, <2>3, <3>2
    <2>6. CASE j < i
      <3>1. j \in 1..i - 1
        BY <2>2, <2>6
      <3>2. y.end + MinOff < x.start
        BY <1>4, <1>10, <2>1, <3>1 DEF TurnsApart
      <3> QED
        BY <1>9, <1>10, <2>3, <3>2
    <2> QED
      BY <2>2, <2>4, <2>5, <2>6
  <1>11. StartOnce(all)
    <2>1. \A x \in all : x.speaker \in Int /\ x.start \in Int
      BY <1>5, <1>8, <1>9
    <2>2. ASSUME NEW x \in all, NEW y \in all, x.speaker = y.speaker, x.start = y.start PROVE x = y
      <3>1. CASE x \in voice /\ y \in voice
        BY <1>3, <2>2, <3>1 DEF Pieces
      <3>2. CASE x \in Range(turns) /\ y \in Range(turns)
        BY <1>10, <2>2, <3>2
      <3>3. ~(x \in voice /\ y \in Range(turns)) /\ ~(y \in voice /\ x \in Range(turns))
        <4>1. \A k \in 0..h : k # Me
          BY DEF Me
        <4> QED
          BY <1>8, <1>9, <2>2, <4>1
      <3> QED
        BY <1>5, <3>1, <3>2, <3>3
    <2> QED
      BY <2>1, <2>2 DEF StartOnce
  <1>12. PICK E : E = [speaker : Int, start : Nat, end : Nat] /\ all \subseteq E
    BY <1>5, <1>8, <1>9
  <1>13. PICK f : f = Ordered(all, Sooner) /\ f \in [1..Cardinality(all) -> all] /\ Cardinality(all) \in Nat
    BY <1>7, <1>11, SoonerSorts
  <1>14. f \in Seq(E)
    <2>1. PICK m \in Nat : m = Cardinality(all) /\ f \in [1..m -> E]
      BY <1>12, <1>13
    <2> QED
      BY ONLY <2>1
  <1> QED
    BY <1>5, <1>12, <1>13, <1>14 DEF IsTurns

(* The invariant of the turns scored.                                                                      *)
TurnsListed == IsTurns(ref) /\ IsTurns(hyp)

(* It holds at first, *)
LEMMA TurnsListedBegins ==
    ASSUME DiarAssumption, Init
    PROVE  TurnsListed
  <1>1. IsTurns(<<>>)
    BY DEF IsTurns
  <1>2. (ref \in References /\ hyp = <<>>) \/ \E x \in Rescored : ref = x[1] /\ hyp = x[2]
    BY DEF Init
  <1>3. \A r \in References : IsTurns(r)
    BY DEF DiarAssumption
  <1>4. \A x \in Rescored : IsTurns(x[1]) /\ IsTurns(x[2])
    BY DEF DiarAssumption
  <1> QED
    BY <1>1, <1>2, <1>3, <1>4 DEF TurnsListed

(* and every step keeps it. *)
LEMMA TurnsListedKeeps ==
    ASSUME DiarAssumption, LInv, LabelsFit, TurnsListed, [Next]_vars
    PROVE  TurnsListed'
  <1>1. ref' = ref
    BY DEF Next, Extracts, ClustersWhole, ClustersPiece, Joins, LinksPieces, Floors, Reconstructs,
           Matches, Assigns, Scores, Ended, vars
  <1>2. CASE Reconstructs
    BY <1>1, <1>2, WrittenAreTurns DEF TurnsListed, IsTurns
  <1>3. CASE ~Reconstructs
    <2>1. hyp' = hyp
      BY <1>3 DEF Next, Extracts, ClustersWhole, ClustersPiece, Joins, LinksPieces, Floors,
                  Matches, Assigns, Scores, Ended, vars
    <2> QED
      BY <1>1, <2>1 DEF TurnsListed, IsTurns
  <1> QED
    BY <1>2, <1>3

(* So what is scored are turns, always. *)
LEMMA TurnsAreListed == Spec => []TurnsListed
  <1>1. Init => LabelsFit /\ TurnsListed
    BY LabelsFitBegins, TurnsListedBegins, DiarAssumption
  <1>2. LInv /\ LabelsFit /\ TurnsListed /\ [Next]_vars => LabelsFit' /\ TurnsListed'
    BY LabelsFitKeeps, TurnsListedKeeps, DiarAssumption
  <1> QED
    BY <1>1, <1>2, LabelsInvariant, PTL DEF Spec

-----------------------------------------------------------------------------
(* The score.  Sums compare as their parts do, and add up as they do.                                   *)
LEMMA SumsCompare ==
    ASSUME NEW S, IsFiniteSet(S), NEW f, NEW g, \A x \in S : f[x] \in Int /\ g[x] \in Int
    PROVE  /\ (\A x \in S : f[x] <= g[x]) => SumFunctionOnSet(f, S) <= SumFunctionOnSet(g, S)
           /\ (\A x \in S : f[x] = g[x]) => SumFunctionOnSet(f, S) = SumFunctionOnSet(g, S)
  <1> DEFINE P == {T \in SUBSET S :
                /\ (\A x \in T : f[x] <= g[x]) => SumFunctionOnSet(f, T) <= SumFunctionOnSet(g, T)
                /\ (\A x \in T : f[x] = g[x]) => SumFunctionOnSet(f, T) = SumFunctionOnSet(g, T)}
  <1>1. ASSUME NEW T \in SUBSET S, \A R \in SUBSET S : Cardinality(R) < Cardinality(T) => R \in P
        PROVE  T \in P
    <2>1. IsFiniteSet(T)
      BY FS_Subset
    <2>2. CASE T = {}
      <3>1. SumFunctionOnSet(f, T) = 0 /\ SumFunctionOnSet(g, T) = 0
        BY <2>1, <2>2, SumStep
      <3> QED
        BY <3>1
    <2>3. CASE T # {}
      <3> DEFINE R == Rest(T)
                 x == Pick(T)
                 F == SumFunctionOnSet(f, R)
                 G == SumFunctionOnSet(g, R)
      <3>1. R \in SUBSET S /\ Cardinality(R) < Cardinality(T) /\ x \in S /\ x \in T
            /\ IsFiniteSet(R) /\ R \subseteq T
        BY <2>1, <2>3, RestIsSmaller
      <3>2. R \in P
        BY <1>1, <3>1
      <3>3. SumFunctionOnSet(f, T) = f[x] + F /\ SumFunctionOnSet(g, T) = g[x] + G
        BY <2>1, <2>3, SumStep
      <3>4. F \in Int /\ G \in Int
        BY <3>1, SumIsInt
      <3>5. f[x] \in Int /\ g[x] \in Int
        BY <3>1
      <3>6. (\A y \in T : f[y] <= g[y]) => F <= G /\ f[x] <= g[x]
        BY <3>1, <3>2
      <3>7. (\A y \in T : f[y] = g[y]) => F = G /\ f[x] = g[x]
        BY <3>1, <3>2
      <3> HIDE DEF R, x, F, G
      <3> QED
        BY <3>3, <3>4, <3>5, <3>6, <3>7
    <2> QED
      BY <2>2, <2>3
  <1>2. S \in P
    <2> HIDE DEF P
    <2> QED
      BY <1>1, BySize
  <1> QED
    BY <1>2

(* The sum of the differences is the difference of the sums. *)
LEMMA SumsAdd ==
    ASSUME NEW S, IsFiniteSet(S), NEW f, NEW g, NEW h, \A x \in S : f[x] \in Int /\ g[x] \in Int,
           \A x \in S : h[x] = f[x] + g[x]
    PROVE  /\ SumFunctionOnSet(h, S) = SumFunctionOnSet(f, S) + SumFunctionOnSet(g, S)
           /\ SumFunctionOnSet(f, S) \in Int /\ SumFunctionOnSet(g, S) \in Int /\ SumFunctionOnSet(h, S) \in Int
  <1>1. \A x \in S : h[x] \in Int /\ h[x] <= f[x] + g[x] /\ f[x] + g[x] <= h[x]
    OBVIOUS
  <1>2. /\ SumFunctionOnSet(f, S) \in Int /\ SumFunctionOnSet(g, S) \in Int /\ SumFunctionOnSet(h, S) \in Int
    BY <1>1, SumIsInt
  <1>3. /\ SumFunctionOnSet(h, S) <= SumFunctionOnSet(f, S) + SumFunctionOnSet(g, S)
        /\ SumFunctionOnSet(f, S) + SumFunctionOnSet(g, S) <= SumFunctionOnSet(h, S)
    BY <1>1, SumOfParts
  <1> QED
    BY <1>2, <1>3

(* A part of natural numbers sums to no more than all. *)
LEMMA SumOfSome ==
    ASSUME NEW S, IsFiniteSet(S), NEW T \in SUBSET S, NEW f, \A x \in S : f[x] \in Nat
    PROVE  SumFunctionOnSet(f, T) <= SumFunctionOnSet(f, S)
  <1> DEFINE a == [x \in S |-> x]
  <1>1. IsFiniteSet(T) /\ \A s, r \in T : a[s] = a[r] => s = r
    BY FS_Subset
  <1>2. \A s \in T : f[s] = 0 \/ \E t \in S : a[t] = a[s] /\ f[t] = f[s]
    OBVIOUS
  <1> HIDE DEF a
  <1> QED
    BY <1>1, <1>2, Dominates

(* A count is a sum of ones. *)
LEMMA CountIsSum ==
    ASSUME NEW S, IsFiniteSet(S), NEW T, NEW g, \A x \in S : g[x] = IF x \in T THEN 1 ELSE 0
    PROVE  SumFunctionOnSet(g, S) = Cardinality(S \cap T)
  <1> DEFINE P == {R \in SUBSET S : SumFunctionOnSet(g, R) = Cardinality(R \cap T)}
  <1>1. ASSUME NEW R \in SUBSET S, \A Q \in SUBSET S : Cardinality(Q) < Cardinality(R) => Q \in P
        PROVE  R \in P
    <2>1. IsFiniteSet(R)
      BY FS_Subset
    <2>2. CASE R = {}
      <3>1. SumFunctionOnSet(g, R) = 0 /\ R \cap T = {}
        BY <2>1, <2>2, SumStep
      <3> QED
        BY <3>1, FS_EmptySet
    <2>3. CASE R # {}
      <3> DEFINE Q == Rest(R)
                 x == Pick(R)
      <3>1. Q \in SUBSET S /\ Cardinality(Q) < Cardinality(R) /\ x \in S /\ IsFiniteSet(Q)
            /\ R = Q \cup {x} /\ x \notin Q
        BY <2>1, <2>3, RestIsSmaller
      <3>2. SumFunctionOnSet(g, Q) = Cardinality(Q \cap T)
        BY <1>1, <3>1
      <3>3. SumFunctionOnSet(g, R) = g[x] + SumFunctionOnSet(g, Q)
        BY <2>1, <2>3, SumStep
      <3>4. IsFiniteSet(Q \cap T)
        BY <3>1, FS_Intersection
      <3>5. Cardinality(Q \cap T) \in Nat
        BY <3>4, FS_CardinalityType
      <3>6. Cardinality(R \cap T) = IF x \in T THEN Cardinality(Q \cap T) + 1 ELSE Cardinality(Q \cap T)
        <4> HIDE DEF Q, x
        <4>1. CASE x \in T
          <5>1. R \cap T = (Q \cap T) \cup {x} /\ x \notin Q \cap T
            BY <3>1, <4>1
          <5> QED
            BY <3>4, <4>1, <5>1, FS_AddElement
        <4>2. CASE x \notin T
          <5>1. R \cap T = Q \cap T
            BY <3>1, <4>2
          <5> QED
            BY <4>2, <5>1
        <4> QED
          BY <4>1, <4>2
      <3>7. g[x] = IF x \in T THEN 1 ELSE 0
        BY <3>1
      <3> HIDE DEF Q, x
      <3>8. SumFunctionOnSet(g, R) = Cardinality(R \cap T)
        BY <3>2, <3>3, <3>5, <3>6, <3>7
      <3> QED
        BY <3>8
    <2> QED
      BY <2>2, <2>3
  <1>2. S \in P
    <2> HIDE DEF P
    <2> QED
      BY <1>1, BySize
  <1> QED
    BY <1>2

(* Pairs are counted by the first as they are by the second.                                 *)
SecondsOf(rel, F, x) == {f \in F : <<x, f>> \in rel}
FirstsOf(rel, M, f) == {x \in M : <<x, f>> \in rel}
(* Summed by the first or by the second, it is the same. *)
LEMMA CountedTwice ==
    ASSUME NEW M, IsFiniteSet(M), NEW F, IsFiniteSet(F), NEW rel, NEW a, NEW b,
           \A x \in M : a[x] = Cardinality(SecondsOf(rel, F, x)), \A f \in F : b[f] = Cardinality(FirstsOf(rel, M, f))
    PROVE  SumFunctionOnSet(a, M) = SumFunctionOnSet(b, F)
  <1> DEFINE in(X) == [f \in F |-> Cardinality(FirstsOf(rel, X, f))]
             P == {X \in SUBSET M : SumFunctionOnSet(a, X) = SumFunctionOnSet(in(X), F)}
  <1>1. \A X \in SUBSET M : \A f \in F : IsFiniteSet(FirstsOf(rel, X, f)) /\ in(X)[f] \in Nat
    <2> SUFFICES ASSUME NEW X \in SUBSET M, NEW f \in F
                 PROVE  IsFiniteSet(FirstsOf(rel, X, f)) /\ in(X)[f] \in Nat
      OBVIOUS
    <2>1. FirstsOf(rel, X, f) \in SUBSET M
      BY DEF FirstsOf
    <2> QED
      BY <2>1, FS_Subset, FS_CardinalityType
  <1>2. ASSUME NEW X \in SUBSET M, \A Q \in SUBSET M : Cardinality(Q) < Cardinality(X) => Q \in P
        PROVE  X \in P
    <2>1. IsFiniteSet(X)
      BY FS_Subset
    <2>2. CASE X = {}
      <3>1. SumFunctionOnSet(a, X) = 0
        BY <2>1, <2>2, SumStep
      <3>2. \A f \in F : FirstsOf(rel, X, f) = {}
        BY <2>2 DEF FirstsOf
      <3>3. \A f \in F : in(X)[f] = IF f \in {} THEN 1 ELSE 0
        BY <3>2, FS_EmptySet
      <3>4. SumFunctionOnSet(in(X), F) = Cardinality(F \cap {})
        <4> PICK g : g = in(X)
          OBVIOUS
        <4> HIDE DEF in
        <4> QED
          BY <3>3, CountIsSum
      <3>5. SumFunctionOnSet(in(X), F) = 0
        <4>1. F \cap {} = {}
          OBVIOUS
        <4> HIDE DEF in
        <4> QED
          BY <3>4, <4>1, FS_EmptySet
      <3> QED
        BY <3>1, <3>5
    <2>3. CASE X # {}
      <3> DEFINE R == Rest(X)
                 x == Pick(X)
                 one == [f \in F |-> IF f \in SecondsOf(rel, F, x) THEN 1 ELSE 0]
      <3>1. R \in SUBSET M /\ Cardinality(R) < Cardinality(X) /\ x \in M /\ X = R \cup {x} /\ x \notin R
        BY <2>1, <2>3, RestIsSmaller
      <3>2. SumFunctionOnSet(a, R) = SumFunctionOnSet(in(R), F)
        BY <1>2, <3>1
      <3>3. SumFunctionOnSet(a, X) = a[x] + SumFunctionOnSet(a, R)
        BY <2>1, <2>3, SumStep
      <3> HIDE DEF R, x
      <3>4. \A f \in F : in(X)[f] = in(R)[f] + one[f]
        <4> SUFFICES ASSUME NEW f \in F PROVE in(X)[f] = in(R)[f] + one[f]
          OBVIOUS
        <4>0. IsFiniteSet(FirstsOf(rel, R, f)) /\ Cardinality(FirstsOf(rel, R, f)) \in Nat
          BY <1>1, <3>1
        <4>1. CASE <<x, f>> \in rel
          <5>1. FirstsOf(rel, X, f) = FirstsOf(rel, R, f) \cup {x} /\ x \notin FirstsOf(rel, R, f) /\ f \in SecondsOf(rel, F, x)
            BY <3>1, <4>1 DEF SecondsOf, FirstsOf
          <5>2. Cardinality(FirstsOf(rel, X, f)) = Cardinality(FirstsOf(rel, R, f)) + 1
            <6>1. PICK O : O = FirstsOf(rel, R, f)
              OBVIOUS
            <6>2. IsFiniteSet(O) /\ x \notin O
              BY <4>0, <5>1, <6>1
            <6>3. Cardinality(O \cup {x}) = Cardinality(O) + 1
              BY <6>2, FS_AddElement
            <6> QED
              BY <5>1, <6>1, <6>3
          <5> QED
            BY <5>1, <5>2
        <4>2. CASE <<x, f>> \notin rel
          <5>1. FirstsOf(rel, X, f) = FirstsOf(rel, R, f) /\ f \notin SecondsOf(rel, F, x)
            BY <3>1, <4>2 DEF SecondsOf, FirstsOf
          <5> QED
            BY <4>0, <5>1
        <4> QED
          BY <4>1, <4>2
      <3>5. SumFunctionOnSet(one, F) = Cardinality(SecondsOf(rel, F, x))
        <4>1. \A f \in F : one[f] = IF f \in SecondsOf(rel, F, x) THEN 1 ELSE 0
          OBVIOUS
        <4>2. SumFunctionOnSet(one, F) = Cardinality(F \cap SecondsOf(rel, F, x))
          <5> HIDE DEF one
          <5> QED
            BY <4>1, CountIsSum
        <4>3. F \cap SecondsOf(rel, F, x) = SecondsOf(rel, F, x)
          BY DEF SecondsOf
        <4> QED
          BY <4>2, <4>3
      <3>6. \A f \in F : one[f] \in Int /\ in(R)[f] \in Int
        BY <1>1, <3>1
      <3> HIDE DEF one, in
      <3>7. SumFunctionOnSet(in(X), F) = SumFunctionOnSet(in(R), F) + SumFunctionOnSet(one, F)
            /\ SumFunctionOnSet(in(R), F) \in Int /\ SumFunctionOnSet(one, F) \in Int
        BY <3>4, <3>6, SumsAdd
      <3>8. a[x] = Cardinality(SecondsOf(rel, F, x))
        BY <3>1
      <3>9. SumFunctionOnSet(a, X) = SumFunctionOnSet(in(X), F)
        BY <3>2, <3>3, <3>5, <3>7, <3>8
      <3> QED
        BY <3>9
    <2> QED
      BY <2>2, <2>3
  <1>3. SumFunctionOnSet(a, M) = SumFunctionOnSet(in(M), F)
    <2>1. M \in P
      <3> HIDE DEF P
      <3> QED
        BY <1>2, BySize
    <2> QED
      BY <2>1
  <1>4. \A f \in F : in(M)[f] \in Int /\ b[f] \in Int /\ in(M)[f] = b[f]
    BY <1>1
  <1> HIDE DEF in
  <1>5. SumFunctionOnSet(in(M), F) = SumFunctionOnSet(b, F)
    BY <1>4, SumsCompare
  <1> QED
    BY <1>3, <1>5

(* The last of a list, and the list without it. *)
LEMMA FrontAndLast ==
    ASSUME NEW E, NEW out \in Seq(E), out # <<>>
    PROVE  /\ Len(out) \in Nat /\ Len(out) > 0 /\ DOMAIN out = 1..Len(out) /\ Last(out) = out[Len(out)]
           /\ Front(out) \in Seq(E) /\ Len(Front(out)) = Len(out) - 1
           /\ \A i \in 1..Len(out) - 1 : Front(out)[i] = out[i]
  <1>1. PICK m \in Nat : m = Len(out) /\ DOMAIN out = 1..m /\ \A i \in 1..m : out[i] \in E
    BY SequencesAreFunctions
  <1>2. m > 0
    BY <1>1
  <1>3. Last(out) = out[m]
    BY <1>1 DEF Last
  <1>4. Front(out) \in Seq(E) /\ Len(Front(out)) = m - 1 /\ \A i \in 1..m - 1 : Front(out)[i] = out[i]
    BY ONLY out \in Seq(E), <1>1, <1>2 DEF Front
  <1> QED
    BY <1>1, <1>2, <1>3, <1>4

(* The frames of a list of spans, and spans that are not empty and do not touch.             *)
InSpan(x, f) == x[1] <= f /\ f < x[2]
CoveredBy(out, f) == \E i \in DOMAIN out : InSpan(out[i], f)
Disjoint(out) ==
    \A i, j \in DOMAIN out : /\ out[i][1] < out[i][2]
                             /\ i < j => out[i][2] < out[j][1]

(* One more span, no earlier than the last, is one with it or apart from it. *)
LEMMA FusedKeeps ==
    ASSUME NEW out \in SpanLists, Disjoint(out), NEW x \in Nat \X Nat, x[1] < x[2],
           out # <<>> => Last(out)[1] <= x[1]
    PROVE  /\ Fused(out, x) \in SpanLists /\ Disjoint(Fused(out, x))
           /\ Fused(out, x) # <<>> /\ Last(Fused(out, x))[1] <= x[1]
           /\ \A f \in Nat : CoveredBy(Fused(out, x), f) <=> CoveredBy(out, f) \/ InSpan(x, f)
  <1>1. PICK m \in Nat : m = Len(out) /\ DOMAIN out = 1..m /\ \A i \in 1..m : out[i] \in Nat \X Nat
    BY SequencesAreFunctions DEF SpanLists
  <1>2. \A i \in 1..m : out[i][1] \in Nat /\ out[i][2] \in Nat
    BY <1>1
  <1>3. x[1] \in Nat /\ x[2] \in Nat
    OBVIOUS
  <1>4. out # <<>> => m > 0 /\ Last(out) = out[m]
    BY <1>1 DEF SpanLists, Last
  <1>5. \A i, j \in 1..m : out[i][1] < out[i][2] /\ (i < j => out[i][2] < out[j][1])
    BY <1>1 DEF Disjoint
  <1>6. CASE out # <<>> /\ x[1] <= Last(out)[2]
    <2> DEFINE end == Max({Last(out)[2], x[2]})
               new == <<Last(out)[1], end>>
               more == Front(out) \o <<new>>
    <2>1. Fused(out, x) = more
      BY <1>6 DEF Fused
    <2>2. m > 0 /\ Last(out) = out[m] /\ m \in 1..m /\ out[m][1] <= x[1] /\ x[1] <= out[m][2]
      BY <1>4, <1>6
    <2>3. end = IF out[m][2] <= x[2] THEN x[2] ELSE out[m][2]
      <3>1. PICK a \in Int, b \in Int : a = Last(out)[2] /\ b = x[2] /\ a = out[m][2]
        BY <1>2, <1>3, <2>2
      <3>2. Max({a, b}) = IF a <= b THEN b ELSE a
        <4>1. PICK c : c = Max({a, b})
          OBVIOUS
        <4>2. c \in {a, b} /\ a <= c /\ b <= c
          BY <4>1, PairExtremes
        <4> QED
          BY <4>1, <4>2
      <3> QED
        BY <3>1, <3>2
    <2> HIDE DEF end
    <2>4. /\ new \in Nat \X Nat /\ new[1] = out[m][1] /\ new[2] = end /\ end \in Nat
          /\ out[m][2] <= end /\ x[2] <= end /\ new[1] < new[2]
          /\ end = x[2] \/ end = out[m][2]
      <3>1. end \in Nat /\ out[m][2] <= end /\ x[2] <= end /\ (end = x[2] \/ end = out[m][2])
        BY <1>2, <1>3, <2>2, <2>3
      <3>2. out[m][1] < end /\ out[m][1] \in Nat
        BY <1>2, <1>5, <2>2, <3>1
      <3> QED
        BY <2>2, <3>1, <3>2
    <2> HIDE DEF new
    <2>5. Front(out) \in SpanLists /\ Len(Front(out)) = m - 1 /\ \A i \in 1..m - 1 : Front(out)[i] = out[i]
      BY <1>1, <1>6, FrontAndLast DEF SpanLists
    <2>6. /\ more \in SpanLists /\ Len(more) = m /\ DOMAIN more = 1..m
          /\ more[m] = new /\ \A i \in 1..m - 1 : more[i] = out[i]
      <3>1. PICK f : f = Front(out)
        OBVIOUS
      <3>2. f \in Seq(Nat \X Nat) /\ Len(f) = m - 1 /\ (\A i \in 1..m - 1 : f[i] = out[i]) /\ new \in Nat \X Nat
        BY <2>4, <2>5, <3>1 DEF SpanLists
      <3>3. m \in Nat /\ m > 0
        BY <1>1, <2>2
      <3>4. /\ f \o <<new>> \in Seq(Nat \X Nat) /\ Len(f \o <<new>>) = m /\ DOMAIN (f \o <<new>>) = 1..m
            /\ (f \o <<new>>)[m] = new /\ \A i \in 1..m - 1 : (f \o <<new>>)[i] = out[i]
        <4>1. f \o <<new>> \in Seq(Nat \X Nat) /\ Len(f \o <<new>>) = m
          BY ONLY <3>2, <3>3
        <4>2. DOMAIN (f \o <<new>>) = 1..m
          BY ONLY <4>1, SequencesAreFunctions
        <4>3. (f \o <<new>>)[m] = new
          BY ONLY <3>2, <3>3
        <4>4. \A i \in 1..m - 1 : (f \o <<new>>)[i] = out[i]
          BY ONLY <3>2, <3>3
        <4> QED
          BY ONLY <4>1, <4>2, <4>3, <4>4
      <3> QED
        BY <3>1, <3>4 DEF SpanLists
    <2> HIDE DEF more
    <2>7. Disjoint(more)
      <3> SUFFICES ASSUME NEW i \in 1..m, NEW j \in 1..m
                   PROVE  more[i][1] < more[i][2] /\ (i < j => more[i][2] < more[j][1])
        BY <2>6 DEF Disjoint
      <3>1. more[j][1] = out[j][1]
        BY <2>4, <2>6
      <3>2. CASE i = m
        BY <2>4, <2>6, <3>2
      <3>3. CASE i # m
        <4>1. more[i] = out[i]
          BY <2>6, <3>3
        <4> QED
          BY <1>5, <3>1, <4>1
      <3> QED
        BY <3>2, <3>3
    <2>8. more # <<>> /\ Last(more)[1] <= x[1]
      <3>1. more # <<>> /\ Last(more) = new
        BY <2>2, <2>6 DEF Last
      <3> QED
        BY <2>2, <2>4, <3>1
    <2>9. ASSUME NEW f \in Nat PROVE CoveredBy(more, f) <=> CoveredBy(out, f) \/ InSpan(x, f)
      <3>1. InSpan(new, f) <=> InSpan(out[m], f) \/ InSpan(x, f)
        BY <1>2, <1>3, <2>2, <2>4 DEF InSpan
      <3>2. CoveredBy(more, f) <=> InSpan(new, f) \/ \E i \in 1..m - 1 : InSpan(out[i], f)
        <4>1. \A i \in 1..m : i = m \/ i \in 1..m - 1
          OBVIOUS
        <4>2. m \in 1..m /\ \A i \in 1..m - 1 : i \in 1..m
          BY <2>2
        <4> QED
          BY <2>6, <4>1, <4>2 DEF CoveredBy
      <3>3. CoveredBy(out, f) <=> InSpan(out[m], f) \/ \E i \in 1..m - 1 : InSpan(out[i], f)
        <4>1. \A i \in 1..m : i = m \/ i \in 1..m - 1
          OBVIOUS
        <4>2. m \in 1..m /\ \A i \in 1..m - 1 : i \in 1..m
          BY <2>2
        <4> QED
          BY <1>1, <4>1, <4>2 DEF CoveredBy
      <3> QED
        BY <3>1, <3>2, <3>3
    <2> QED
      BY <2>1, <2>6, <2>7, <2>8, <2>9
  <1>7. CASE ~(out # <<>> /\ x[1] <= Last(out)[2])
    <2> DEFINE more == Append(out, x)
    <2>1. Fused(out, x) = more
      BY <1>7 DEF Fused
    <2>2. \A i \in 1..m : out[i][2] < x[1]
      <3> SUFFICES ASSUME NEW i \in 1..m PROVE out[i][2] < x[1]
        OBVIOUS
      <3>1. out # <<>> /\ m \in 1..m /\ Last(out) = out[m] /\ i <= m
        BY <1>1, <1>4
      <3>2. out[m][2] < x[1]
        BY <1>2, <1>3, <1>7, <3>1
      <3>3. CASE i = m
        BY <3>2, <3>3
      <3>4. CASE i # m
        <4>1. out[i][2] < out[m][1] /\ out[m][1] < out[m][2]
          BY <1>5, <3>1, <3>4
        <4> QED
          BY <1>2, <1>3, <3>1, <3>2, <4>1
      <3> QED
        BY <3>3, <3>4
    <2>3. /\ more \in SpanLists /\ Len(more) = m + 1 /\ DOMAIN more = 1..m + 1
          /\ more[m + 1] = x /\ \A i \in 1..m : more[i] = out[i]
      BY <1>1 DEF SpanLists
    <2> HIDE DEF more
    <2>4. Disjoint(more)
      <3> SUFFICES ASSUME NEW i \in 1..m + 1, NEW j \in 1..m + 1
                   PROVE  more[i][1] < more[i][2] /\ (i < j => more[i][2] < more[j][1])
        BY <2>3 DEF Disjoint
      <3>1. CASE i = m + 1
        BY <2>3, <3>1
      <3>2. CASE i # m + 1
        <4>1. i \in 1..m /\ more[i] = out[i]
          BY <2>3, <3>2
        <4>2. CASE j = m + 1
          BY <1>5, <2>2, <2>3, <4>1, <4>2
        <4>3. CASE j # m + 1
          <5>1. j \in 1..m /\ more[j] = out[j]
            BY <2>3, <4>3
          <5> QED
            BY <1>5, <4>1, <5>1
        <4> QED
          BY <4>2, <4>3
      <3> QED
        BY <3>1, <3>2
    <2>5. more # <<>> /\ Last(more)[1] <= x[1]
      <3>1. more # <<>> /\ Last(more) = x
        BY <1>1, <2>3 DEF Last
      <3> QED
        BY <1>3, <3>1
    <2>6. ASSUME NEW f \in Nat PROVE CoveredBy(more, f) <=> CoveredBy(out, f) \/ InSpan(x, f)
      <3>1. \A i \in 1..m + 1 : i = m + 1 \/ i \in 1..m
        OBVIOUS
      <3>2. m + 1 \in 1..m + 1 /\ \A i \in 1..m : i \in 1..m + 1
        OBVIOUS
      <3> QED
        BY <1>1, <2>3, <3>1, <3>2 DEF CoveredBy
    <2> QED
      BY <2>1, <2>3, <2>4, <2>5, <2>6
  <1> QED
    BY <1>6, <1>7

(* FoldLeft takes the numbers of the list by the highest of those not taken; there is such a function. *)
FusesBy(it, raw, C) == it = [S \in C |-> IF S = {} THEN <<>> ELSE Fused(it[S \ {Max(S)}], raw[Max(S)])]
(* There is one, up to every number of spans. *)
LEMMA FusesExist ==
    ASSUME NEW raw, DOMAIN raw \subseteq Int, IsFiniteSet(DOMAIN raw)
    PROVE  \E it : FusesBy(it, raw, SUBSET (DOMAIN raw))
  <1> DEFINE D == DOMAIN raw
             C(k) == {S \in SUBSET D : Cardinality(S) <= k}
             P == {k \in Nat : \E it : FusesBy(it, raw, C(k))}
  <1> HIDE DEF D
  <1>1. \A S \in SUBSET D : /\ IsFiniteSet(S) /\ Cardinality(S) \in Nat /\ Cardinality(S) <= Cardinality(D)
                            /\ S # {} => Max(S) \in S /\ Cardinality(S \ {Max(S)}) = Cardinality(S) - 1
    <2> SUFFICES ASSUME NEW S \in SUBSET D
                 PROVE  /\ IsFiniteSet(S) /\ Cardinality(S) \in Nat /\ Cardinality(S) <= Cardinality(D)
                        /\ S # {} => Max(S) \in S /\ Cardinality(S \ {Max(S)}) = Cardinality(S) - 1
      OBVIOUS
    <2>1. IsFiniteSet(S) /\ Cardinality(S) \in Nat /\ Cardinality(S) <= Cardinality(D)
      BY FS_Subset, FS_CardinalityType DEF D
    <2>2. S # {} => Max(S) \in S
      <3>1. S \subseteq Int
        BY DEF D
      <3> QED
        BY <2>1, <3>1, HasExtremes
    <2> QED
      BY <2>1, <2>2, FS_RemoveElement
  <1>0. \A S \in SUBSET D : IsFiniteSet(S) /\ Cardinality(S) \in Nat
    BY <1>1
  <1>2. 0 \in P
    <2> DEFINE it == [S \in C(0) |-> <<>>]
    <2>1. \A S \in C(0) : S = {}
      BY <1>0, FS_EmptySet
    <2>2. FusesBy(it, raw, C(0))
      BY <2>1 DEF FusesBy
    <2> QED
      BY <2>2
  <1>3. ASSUME NEW k \in Nat, k \in P PROVE k + 1 \in P
    <2>1. PICK it : FusesBy(it, raw, C(k))
      BY <1>3
    <2> DEFINE more == [S \in C(k + 1) |-> IF S = {} THEN <<>> ELSE Fused(it[S \ {Max(S)}], raw[Max(S)])]
    <2>2. \A S \in C(k) : S \in C(k + 1) /\ it[S] = more[S]
      <3>1. \A S \in C(k) : S \in C(k + 1)
        BY <1>0
      <3>2. \A S \in C(k) : it[S] = IF S = {} THEN <<>> ELSE Fused(it[S \ {Max(S)}], raw[Max(S)])
        BY <2>1 DEF FusesBy
      <3> QED
        BY <3>1, <3>2
    <2>3. \A S \in C(k + 1) : S # {} => S \ {Max(S)} \in C(k)
      BY <1>1
    <2>4. FusesBy(more, raw, C(k + 1))
      <3>1. \A S \in C(k + 1) : (IF S = {} THEN <<>> ELSE Fused(it[S \ {Max(S)}], raw[Max(S)]))
                                  = (IF S = {} THEN <<>> ELSE Fused(more[S \ {Max(S)}], raw[Max(S)]))
        <4> HIDE DEF C, more
        <4> QED
          BY <2>2, <2>3
      <3> HIDE DEF C
      <3> QED
        BY <3>1 DEF FusesBy
    <2> HIDE DEF more, C
    <2> QED
      BY <2>4
  <1>4. Cardinality(D) \in P
    <2>1. Cardinality(D) \in Nat
      BY FS_CardinalityType DEF D
    <2> HIDE DEF P
    <2> QED
      BY <1>2, <1>3, <2>1, NatIsReached
  <1>5. C(Cardinality(D)) = SUBSET D
    BY <1>1
  <1>6. \E it : FusesBy(it, raw, SUBSET D)
    <2> HIDE DEF C
    <2> QED
      BY <1>4, <1>5
  <1> QED
    BY <1>6 DEF D

(* The fold of _spans, one span after another. *)
LEMMA FusesStepByStep ==
    ASSUME NEW raw, NEW m \in Nat, DOMAIN raw = 1..m
    PROVE  \E it : /\ FoldLeft(Fused, <<>>, raw) = it[m] /\ it[0] = <<>>
                   /\ \A k \in 1..m : it[k] = Fused(it[k - 1], raw[k])
  <1> DEFINE D == DOMAIN raw
             it == CHOOSE f : FusesBy(f, raw, SUBSET D)
             upTo == [k \in 0..m |-> it[1..k]]
  <1>1. IsFiniteSet(D) /\ D \subseteq Int
    BY FS_Interval
  <1>2. FusesBy(it, raw, SUBSET D)
    <2> HIDE DEF FusesBy
    <2>1. \E f : FusesBy(f, raw, SUBSET D)
      BY <1>1, FusesExist
    <2> QED
      BY <2>1
  <1>3. FoldLeft(Fused, <<>>, raw) = it[D]
    BY DEF FoldLeft, MapThenFoldSet, FusesBy
  <1> HIDE DEF it
  <1>4. \A S \in SUBSET D : it[S] = IF S = {} THEN <<>> ELSE Fused(it[S \ {Max(S)}], raw[Max(S)])
    BY <1>2 DEF FusesBy
  <1>5. it[1..0] = <<>>
    <2>1. 1..0 = {} /\ {} \in SUBSET D
      OBVIOUS
    <2> QED
      BY <1>4, <2>1
  <1>6. ASSUME NEW k \in 1..m PROVE it[1..k] = Fused(it[1..k - 1], raw[k])
    <2>1. 1..k \in SUBSET D /\ 1..k # {} /\ (1..k) \ {k} = 1..k - 1
      <3>1. k \in 1..k
        OBVIOUS
      <3>2. 1..k \in SUBSET D
        OBVIOUS
      <3>3. (1..k) \ {k} = 1..k - 1
        OBVIOUS
      <3> QED
        BY <3>1, <3>2, <3>3
    <2>2. Max(1..k) = k
      <3>1. PICK S : S = 1..k
        OBVIOUS
      <3>2. IsFiniteSet(S) /\ S # {} /\ S \subseteq Int /\ k \in S
        BY <2>1, <3>1, FS_Interval
      <3>3. Max(S) \in S /\ k <= Max(S)
        BY <3>2, HasExtremes
      <3> QED
        BY <3>1, <3>3
    <2> QED
      BY <1>4, <2>1, <2>2
  <1>7. upTo[m] = it[D] /\ upTo[0] = <<>> /\ \A k \in 1..m : upTo[k] = Fused(upTo[k - 1], raw[k])
    <2>1. \A k \in 0..m : upTo[k] = it[1..k]
      OBVIOUS
    <2>2. \A k \in 1..m : k \in 0..m /\ k - 1 \in 0..m
      OBVIOUS
    <2>3. 0 \in 0..m /\ m \in 0..m
      OBVIOUS
    <2> HIDE DEF upTo
    <2> QED
      BY <1>5, <1>6, <2>1, <2>2, <2>3
  <1> HIDE DEF upTo
  <1> QED
    BY <1>3, <1>7

(* Of spans in order, what is fused is disjoint and has their frames. *)
LEMMA SpansAreFused ==
    ASSUME NEW raw \in SpanLists,
           \A i, j \in DOMAIN raw : raw[i][1] < raw[i][2] /\ (i < j => raw[i][1] <= raw[j][1])
    PROVE  /\ FoldLeft(Fused, <<>>, raw) \in SpanLists /\ Disjoint(FoldLeft(Fused, <<>>, raw))
           /\ \A f \in Nat : CoveredBy(FoldLeft(Fused, <<>>, raw), f) <=> CoveredBy(raw, f)
  <1>1. PICK m \in Nat : DOMAIN raw = 1..m /\ \A k \in 1..m : raw[k] \in Nat \X Nat
    BY SequencesAreFunctions DEF SpanLists
  <1>2. PICK it : /\ FoldLeft(Fused, <<>>, raw) = it[m] /\ it[0] = <<>>
                  /\ \A k \in 1..m : it[k] = Fused(it[k - 1], raw[k])
    BY <1>1, FusesStepByStep
  <1>3. \A i, j \in 1..m : /\ raw[i][1] \in Nat /\ raw[i][1] < raw[i][2]
                           /\ i < j => raw[i][1] <= raw[j][1]
    BY <1>1
  <1> DEFINE Good(k) == /\ it[k] \in SpanLists /\ Disjoint(it[k])
                        /\ it[k] # <<>> => k > 0 /\ Last(it[k])[1] <= raw[k][1]
                        /\ \A f \in Nat : CoveredBy(it[k], f) <=> \E j \in 1..k : InSpan(raw[j], f)
             P == {k \in Nat : k <= m => Good(k)}
  <1>4. 0 \in P
    <2>1. it[0] \in SpanLists /\ DOMAIN it[0] = {} /\ it[0] = <<>>
      <3>1. <<>> \in Seq(Nat \X Nat) /\ DOMAIN <<>> = {}
        OBVIOUS
      <3> QED
        BY <1>2, <3>1 DEF SpanLists
    <2>2. 1..0 = {}
      OBVIOUS
    <2> QED
      BY <2>1, <2>2 DEF Disjoint, CoveredBy
  <1>5. ASSUME NEW k \in Nat, k \in P PROVE k + 1 \in P
    <2> SUFFICES ASSUME k + 1 <= m PROVE Good(k + 1)
      OBVIOUS
    <2>1. k <= m /\ Good(k) /\ k + 1 \in 1..m /\ (k + 1) - 1 = k
      BY <1>5
    <2>2. PICK x \in Nat \X Nat : x = raw[k + 1] /\ x[1] < x[2]
      BY <1>1, <2>1
    <2>3. it[k + 1] = Fused(it[k], x)
      BY <1>2, <2>1, <2>2
    <2>4. PICK out \in SpanLists : out = it[k] /\ Disjoint(out)
      BY <2>1
    <2>5. out # <<>> => Last(out)[1] <= x[1]
      <3> SUFFICES ASSUME out # <<>> PROVE Last(out)[1] <= x[1]
        OBVIOUS
      <3>1. k \in 1..m /\ Last(out)[1] <= raw[k][1]
        BY <2>1, <2>4
      <3>2. raw[k][1] <= x[1] /\ raw[k][1] \in Nat /\ x[1] \in Nat
        <4>1. k < k + 1 /\ k + 1 \in 1..m
          BY <2>1
        <4> QED
          BY <1>3, <2>2, <3>1, <4>1
      <3>3. Last(out)[1] \in Int
        <4>1. PICK E : E = Nat \X Nat /\ out \in Seq(E)
          BY DEF SpanLists
        <4>2. Len(out) \in Nat /\ Len(out) > 0 /\ Last(out) = out[Len(out)] /\ out \in [1..Len(out) -> E]
          <5>1. Len(out) \in Nat /\ Len(out) > 0 /\ Last(out) = out[Len(out)]
            BY <4>1, FrontAndLast
          <5>2. out \in [1..Len(out) -> E]
            BY <4>1, SequencesAreFunctions
          <5> QED
            BY <5>1, <5>2
        <4>3. Last(out) \in E
          BY <4>2
        <4> QED
          BY <4>1, <4>3
      <3> QED
        BY <3>1, <3>2, <3>3
    <2>6. /\ it[k + 1] \in SpanLists /\ Disjoint(it[k + 1])
          /\ it[k + 1] # <<>> /\ Last(it[k + 1])[1] <= x[1]
          /\ \A f \in Nat : CoveredBy(it[k + 1], f) <=> CoveredBy(out, f) \/ InSpan(x, f)
      BY <2>2, <2>3, <2>4, <2>5, FusedKeeps
    <2>7. ASSUME NEW f \in Nat PROVE CoveredBy(it[k + 1], f) <=> \E j \in 1..k + 1 : InSpan(raw[j], f)
      <3>1. CoveredBy(out, f) <=> \E j \in 1..k : InSpan(raw[j], f)
        BY <2>1, <2>4
      <3>2. \A j \in 1..k + 1 : j = k + 1 \/ j \in 1..k
        OBVIOUS
      <3>3. k + 1 \in 1..k + 1 /\ \A j \in 1..k : j \in 1..k + 1
        OBVIOUS
      <3> QED
        BY <2>2, <2>6, <3>1, <3>2, <3>3
    <2> QED
      BY <2>2, <2>6, <2>7
  <1>6. m \in P
    <2> HIDE DEF P
    <2> QED
      BY <1>4, <1>5, NatIsReached
  <1>7. Good(m)
    BY <1>6
  <1> HIDE DEF Good, P
  <1>8. it[m] \in SpanLists /\ Disjoint(it[m])
    BY <1>7 DEF Good
  <1>9. \A f \in Nat : CoveredBy(it[m], f) <=> \E j \in 1..m : InSpan(raw[j], f)
    BY <1>7 DEF Good
  <1>10. \A f \in Nat : CoveredBy(raw, f) <=> \E j \in 1..m : InSpan(raw[j], f)
    BY <1>1 DEF CoveredBy
  <1> QED
    BY <1>2, <1>8, <1>9, <1>10

(* A speaker's spans are disjoint, and their frames the speaker's, empty turns and those that overlap *)
(* included. *)
LEMMA SpansAreTheGrid ==
    ASSUME NEW turns, IsTurns(turns), NEW s, NEW n \in Nat, \A t \in Range(turns) : t.end <= n
    PROVE  /\ Spans(turns, s, n) \in SpanLists /\ Disjoint(Spans(turns, s, n))
           /\ \A f \in Nat : CoveredBy(Spans(turns, s, n), f) <=> f \in Grid(turns, s, n)
  <1> DEFINE Mine == {<<t.start, Min({t.end, n})>> : t \in {x \in Range(turns) : x.speaker = s}}
             Some == {x \in Mine : x[2] > x[1]}
  <1>1. \A t \in Range(turns) : t.start \in Nat /\ t.end \in Nat /\ Min({t.end, n}) = t.end
    <2> SUFFICES ASSUME NEW t \in Range(turns)
                 PROVE  t.start \in Nat /\ t.end \in Nat /\ Min({t.end, n}) = t.end
      OBVIOUS
    <2>1. t.start \in Nat /\ t.end \in Nat
      <3>1. turns \in [1..Len(turns) -> [speaker : Int, start : Nat, end : Nat]]
        BY SequencesAreFunctions DEF IsTurns
      <3> QED
        BY <3>1 DEF Range
    <2>2. PICK a \in Int, b \in Int : a = t.end /\ b = n /\ a <= b
      BY <2>1
    <2>3. PICK c : c = Min({a, b})
      OBVIOUS
    <2>4. c \in {a, b} /\ c <= a /\ c <= b
      BY <2>3, PairExtremes
    <2>5. c = a
      BY <2>2, <2>4
    <2> QED
      BY <2>1, <2>2, <2>3, <2>5
  <1>2. Mine = {<<t.start, t.end>> : t \in {x \in Range(turns) : x.speaker = s}}
    BY <1>1
  <1>3. IsFiniteSet(Some)
    <2> DEFINE T == {x \in Range(turns) : x.speaker = s}
               f == [t \in T |-> <<t.start, Min({t.end, n})>>]
    <2>1. IsFiniteSet(T)
      BY TurnsAreFinite, FS_Subset
    <2>2. f \in Surjection(T, Mine)
      BY DEF Surjection
    <2>3. IsFiniteSet(Mine)
      <3> HIDE DEF T, f, Mine
      <3> QED
        BY <2>1, <2>2, FS_Surjection
    <2> HIDE DEF Mine
    <2> QED
      BY <2>3, FS_Subset
  <1>4. Mine \subseteq Nat \X Nat
    <2> SUFFICES ASSUME NEW x \in Mine PROVE x \in Nat \X Nat
      OBVIOUS
    <2>1. PICK t \in Range(turns) : x = <<t.start, t.end>>
      BY <1>2
    <2> QED
      BY <1>1, <2>1
  <1>5. \A f \in Nat : f \in Grid(turns, s, n) <=> \E x \in Some : InSpan(x, f)
    <2> SUFFICES ASSUME NEW f \in Nat PROVE f \in Grid(turns, s, n) <=> \E x \in Some : InSpan(x, f)
      OBVIOUS
    <2>1. ASSUME f \in Grid(turns, s, n) PROVE \E x \in Some : InSpan(x, f)
      <3>1. PICK t \in Range(turns) : t.speaker = s /\ t.start <= f /\ f < t.end
        BY <2>1 DEF Grid
      <3>2. <<t.start, t.end>> \in Mine
        BY <1>2, <3>1
      <3>3. PICK x : x = <<t.start, t.end>> /\ x[1] = t.start /\ x[2] = t.end
        <4>1. PICK a, b : a = t.start /\ b = t.end
          OBVIOUS
        <4>2. <<a, b>>[1] = a /\ <<a, b>>[2] = b
          BY ONLY TRUE
        <4> QED
          BY <4>1, <4>2
      <3>4. x[2] > x[1]
        <4>1. t.start \in Nat /\ t.end \in Nat
          BY <1>1
        <4> QED
          BY <3>1, <3>3, <4>1
      <3>5. x \in Some
        <4> HIDE DEF Mine
        <4> QED
          BY <3>2, <3>3, <3>4
      <3> HIDE DEF Some
      <3> QED
        BY <3>1, <3>3, <3>5 DEF InSpan
    <2>2. ASSUME NEW x \in Some, InSpan(x, f) PROVE f \in Grid(turns, s, n)
      <3>1. PICK t \in Range(turns) : t.speaker = s /\ x = <<t.start, t.end>>
        BY <1>2
      <3>2. t.start <= f /\ f < t.end
        BY <2>2, <3>1 DEF InSpan
      <3>3. f \in 0..n-1
        <4>1. t.end \in Nat /\ t.end <= n
          BY <1>1
        <4> QED
          BY <3>2, <4>1
      <3> QED
        BY <3>1, <3>2, <3>3 DEF Grid
    <2> QED
      BY <2>1, <2>2
  <1>6. Spans(turns, s, n) = FoldLeft(Fused, <<>>, Ordered(Some, Earlier))
    BY DEF Spans
  <1>7. PICK S : S = Some
    OBVIOUS
  <1>8. IsFiniteSet(S) /\ S \subseteq Nat \X Nat /\ \A x \in S : x[1] < x[2]
    BY <1>3, <1>4, <1>7
  <1>9. \A f \in Nat : f \in Grid(turns, s, n) <=> \E x \in S : InSpan(x, f)
    BY <1>5, <1>7
  <1> HIDE DEF Some, Mine
  <1>10. PICK raw : raw = Ordered(S, Earlier)
    OBVIOUS
  <1>11. raw \in [1..Cardinality(S) -> S] /\ Cardinality(S) \in Nat /\ InOrder(S, EarlierIn(S), raw)
    <2>1. S \subseteq Int \X Int
      BY <1>8
    <2> QED
      BY <1>8, <1>10, <2>1, EarlierSorts
  <1>12. raw \in SpanLists
    BY <1>8, <1>11 DEF SpanLists
  <1>13. ASSUME NEW i \in DOMAIN raw, NEW j \in DOMAIN raw
         PROVE  raw[i][1] < raw[i][2] /\ (i < j => raw[i][1] <= raw[j][1])
    <2>1. raw[i] \in S /\ raw[j] \in S
      BY <1>11
    <2>2. i < j => Earlier(raw[i], raw[j])
      BY <1>11 DEF InOrder, EarlierIn
    <2>3. raw[i][1] \in Nat /\ raw[j][1] \in Nat /\ raw[i][1] < raw[i][2]
      BY <1>8, <2>1
    <2> QED
      BY <2>2, <2>3 DEF Earlier
  <1>14. \A f \in Nat : CoveredBy(raw, f) <=> f \in Grid(turns, s, n)
    <2>1. \A i \in DOMAIN raw : raw[i] \in S
      BY <1>11
    <2>2. \A x \in S : \E i \in DOMAIN raw : raw[i] = x
      BY <1>11 DEF InOrder
    <2> QED
      BY <1>9, <2>1, <2>2 DEF CoveredBy
  <1>15. PICK out : out = FoldLeft(Fused, <<>>, raw)
    OBVIOUS
  <1>16. out \in SpanLists /\ Disjoint(out) /\ \A f \in Nat : CoveredBy(out, f) <=> CoveredBy(raw, f)
    BY <1>12, <1>13, <1>15, SpansAreFused
  <1>17. Spans(turns, s, n) = out
    BY <1>6, <1>7, <1>10, <1>15
  <1> QED
    BY <1>14, <1>16, <1>17

(* A frame is in one of disjoint spans, or in none. *)
LEMMA OneSpan ==
    ASSUME NEW out \in SpanLists, Disjoint(out), NEW f \in Nat
    PROVE  Cardinality({k \in DOMAIN out : InSpan(out[k], f)}) = IF CoveredBy(out, f) THEN 1 ELSE 0
  <1> DEFINE Over == {k \in DOMAIN out : InSpan(out[k], f)}
  <1>1. CASE CoveredBy(out, f)
    <2>1. PICK k \in DOMAIN out : InSpan(out[k], f)
      BY <1>1 DEF CoveredBy
    <2>2. ASSUME NEW j \in Over PROVE j = k
      <3>1. PICK m \in Nat : DOMAIN out = 1..m /\ \A i \in 1..m : out[i] \in Nat \X Nat
        BY SequencesAreFunctions DEF SpanLists
      <3>2. j \in 1..m /\ k \in 1..m /\ InSpan(out[j], f) /\ InSpan(out[k], f)
        BY <2>1, <3>1
      <3>3. /\ j < k => out[j][2] < out[k][1]
            /\ k < j => out[k][2] < out[j][1]
        BY <3>1, <3>2 DEF Disjoint
      <3>4. out[j][2] \in Nat /\ out[j][1] \in Nat /\ out[k][2] \in Nat /\ out[k][1] \in Nat
        BY <3>1, <3>2
      <3>5. ~(j < k) /\ ~(k < j)
        BY <3>2, <3>3, <3>4 DEF InSpan
      <3> QED
        BY <3>2, <3>5
    <2>3. Over = {k}
      BY <2>1, <2>2
    <2>4. Cardinality({k}) = 1
      BY FS_Singleton
    <2> QED
      BY <1>1, <2>3, <2>4
  <1>2. CASE ~CoveredBy(out, f)
    <2>1. Over = {}
      BY <1>2 DEF CoveredBy
    <2> QED
      BY <1>2, <2>1, FS_EmptySet
  <1> QED
    BY <1>1, <1>2

(* The frames scored are more than any turn has. *)
LEMMA FrameCountIsEnough ==
    ASSUME NEW r, NEW h, IsTurns(r), IsTurns(h)
    PROVE  /\ FrameCount(r, h) \in Nat /\ FrameCount(r, h) > 0
           /\ \A t \in Range(r) \cup Range(h) : t.end < FrameCount(r, h)
  <1> DEFINE T == Range(r) \cup Range(h)
             E == {t.end : t \in T}
             f == [t \in T |-> t.end]
  <1>1. IsFiniteSet(T) /\ \A t \in T : t.end \in Nat
    BY TurnsAreFinite, FS_Union
  <1>2. f \in Surjection(T, E)
    BY DEF Surjection
  <1>3. PICK S : S = {0} \cup E
    OBVIOUS
  <1>4. S \subseteq Nat /\ 0 \in S /\ \A t \in T : t.end \in S
    BY <1>1, <1>3
  <1>5. IsFiniteSet(S)
    <2>1. IsFiniteSet(E)
      <3> HIDE DEF T, E, f
      <3> QED
        BY <1>1, <1>2, FS_Surjection
    <2> HIDE DEF E
    <2> QED
      BY <1>3, <2>1, FS_Singleton, FS_Union
  <1>6. FrameCount(r, h) = Max(S) + 1
    BY <1>3 DEF FrameCount
  <1>7. Max(S) \in S /\ \A x \in S : x <= Max(S)
    <2>1. S # {} /\ S \subseteq Int
      BY <1>4
    <2> QED
      BY <1>5, <2>1, HasExtremes
  <1>8. PICK m \in Nat : m = Max(S)
    BY <1>4, <1>7
  <1>9. \A t \in T : t.end < m + 1
    BY <1>1, <1>4, <1>7, <1>8
  <1> QED
    BY <1>6, <1>8, <1>9

(* What disjoint spans share with a set of frames, summed over the spans, is what of the set they cover. *)
LEMMA SharedIsCovered ==
    ASSUME NEW out \in SpanLists, Disjoint(out), NEW G \in SUBSET Nat, IsFiniteSet(G), NEW g,
           \A k \in DOMAIN out : g[k] = Cardinality(G \cap (out[k][1]..out[k][2]-1))
    PROVE  SumFunctionOnSet(g, DOMAIN out) = Cardinality({f \in G : CoveredBy(out, f)})
  <1> DEFINE rel == {z \in (DOMAIN out) \X G : InSpan(out[z[1]], z[2])}
             T == {f \in G : CoveredBy(out, f)}
             b == [f \in G |-> IF f \in T THEN 1 ELSE 0]
  <1>1. PICK m \in Nat : DOMAIN out = 1..m /\ \A i \in 1..m : out[i] \in Nat \X Nat
    BY SequencesAreFunctions DEF SpanLists
  <1>2. IsFiniteSet(DOMAIN out)
    BY <1>1, FS_Interval
  <1>3. ASSUME NEW k \in DOMAIN out PROVE g[k] = Cardinality(SecondsOf(rel, G, k))
    <2>1. \A f \in G : <<k, f>> \in rel <=> InSpan(out[k], f)
      OBVIOUS
    <2>2. out[k][1] \in Nat /\ out[k][2] \in Nat
      BY <1>1
    <2>3. \A f \in G : InSpan(out[k], f) <=> f \in out[k][1]..out[k][2]-1
      BY <2>2 DEF InSpan
    <2> HIDE DEF rel
    <2>4. SecondsOf(rel, G, k) = G \cap (out[k][1]..out[k][2]-1)
      BY <2>1, <2>3 DEF SecondsOf
    <2> QED
      BY <2>4
  <1>4. ASSUME NEW f \in G PROVE b[f] = Cardinality(FirstsOf(rel, DOMAIN out, f))
    <2>1. \A k \in DOMAIN out : <<k, f>> \in rel <=> InSpan(out[k], f)
      OBVIOUS
    <2> HIDE DEF rel
    <2>2. FirstsOf(rel, DOMAIN out, f) = {k \in DOMAIN out : InSpan(out[k], f)}
      BY <2>1 DEF FirstsOf
    <2>3. Cardinality({k \in DOMAIN out : InSpan(out[k], f)}) = IF CoveredBy(out, f) THEN 1 ELSE 0
      BY OneSpan
    <2>4. b[f] = IF CoveredBy(out, f) THEN 1 ELSE 0
      OBVIOUS
    <2> QED
      BY <2>2, <2>3, <2>4
  <1>5. \A f \in G : b[f] = IF f \in T THEN 1 ELSE 0
    OBVIOUS
  <1>6. G \cap T = T
    OBVIOUS
  <1> HIDE DEF rel, b, T
  <1>7. SumFunctionOnSet(g, DOMAIN out) = SumFunctionOnSet(b, G)
    <2>1. PICK M : M = DOMAIN out
      OBVIOUS
    <2>2. \A k \in M : g[k] = Cardinality(SecondsOf(rel, G, k))
      BY <1>3, <2>1
    <2>3. \A f \in G : b[f] = Cardinality(FirstsOf(rel, M, f))
      BY <1>4, <2>1
    <2>4. IsFiniteSet(M)
      BY <1>2, <2>1
    <2>5. SumFunctionOnSet(g, M) = SumFunctionOnSet(b, G)
      BY <2>2, <2>3, <2>4, CountedTwice
    <2> QED
      BY <2>1, <2>5
  <1>8. SumFunctionOnSet(b, G) = Cardinality(G \cap T)
    BY <1>5, CountIsSum
  <1> QED
    BY <1>6, <1>7, <1>8 DEF T

(* Numbers put in order: each once, by its place. *)
Enlists(l, S) ==
    /\ DOMAIN l = 1..Cardinality(S) /\ Cardinality(S) \in Nat
    /\ \A i \in DOMAIN l : l[i] \in S
    /\ \A x \in S : \E i \in DOMAIN l : l[i] = x
    /\ \A i, j \in DOMAIN l : l[i] = l[j] => i = j
(* Ordered lists numbers so. *)
LEMMA NumbersAreListed ==
    ASSUME NEW S, IsFiniteSet(S), S \subseteq Int
    PROVE  Enlists(Ordered(S, <), S)
  <1> DEFINE R == {z \in S \X S : z[1] < z[2]}
             At(i) == CHOOSE x \in S : Cardinality({y \in S : y < x}) = i - 1
             f == Ordered(S, <)
  <1>2. \A x, y \in S : <<x, y>> \in R <=> x < y
    OBVIOUS
  <1> HIDE DEF R
  <1>6. IsOrder(S, R) /\ RanksFilled(S, R)
    <2>1. IsOrder(S, R)
      BY <1>2 DEF IsOrder
    <2> QED
      BY <2>1, OrdersAreFilled
  <1>7. \A x \in S : {y \in S : <<y, x>> \in R} = {y \in S : y < x}
    BY <1>2
  <1>8. \A i \in 1..Cardinality(S) : At(i) \in S /\ Cardinality({y \in S : y < At(i)}) = i - 1
    <2> SUFFICES ASSUME NEW i \in 1..Cardinality(S)
                 PROVE  \E x \in S : Cardinality({y \in S : y < x}) = i - 1
      OBVIOUS
    <2> QED
      BY <1>6, <1>7 DEF RanksFilled
  <1>9. f = [i \in 1..Cardinality(S) |-> At(i)]
    BY DEF Ordered
  <1> HIDE DEF At, f
  <1>10. f \in [1..Cardinality(S) -> S]
    BY <1>8, <1>9
  <1>11. \A i \in 1..Cardinality(S) : Cardinality({y \in S : <<y, f[i]>> \in R}) = i - 1
    BY <1>7, <1>8, <1>9
  <1>12. InOrder(S, R, f)
    BY <1>6, <1>10, <1>11, RanksSort
  <1>13. Cardinality(S) \in Nat
    BY FS_CardinalityType
  <1>14. ASSUME NEW i \in DOMAIN f, NEW j \in DOMAIN f, f[i] = f[j] PROVE i = j
    <2>1. i \in Int /\ j \in Int /\ f[i] \in S /\ f[j] \in S
      BY <1>10, <1>13
    <2>2. i < j => f[i] < f[j]
      BY <1>2, <1>12, <2>1 DEF InOrder
    <2>3. j < i => f[j] < f[i]
      BY <1>2, <1>12, <2>1 DEF InOrder
    <2>4. f[i] \in Int /\ f[j] \in Int
      BY <2>1
    <2> QED
      BY <1>14, <2>1, <2>2, <2>3, <2>4
  <1>15. Enlists(f, S)
    BY <1>10, <1>12, <1>13, <1>14 DEF Enlists, InOrder
  <1> QED
    BY <1>15 DEF f

(* The speakers of turns. *)
SpeakersIn(turns) == {t.speaker : t \in Range(turns)}
(* They are finitely many, and SpeakersOf lists them. *)
LEMMA SpeakersAreListed ==
    ASSUME NEW turns, IsTurns(turns)
    PROVE  /\ IsFiniteSet(SpeakersIn(turns)) /\ Enlists(SpeakersOf(turns), SpeakersIn(turns))
  <1>1. IsFiniteSet(SpeakersIn(turns))
    BY TurnsAreFinite DEF SpeakersIn
  <1>2. SpeakersIn(turns) \subseteq Int
    <2>1. turns \in [1..Len(turns) -> [speaker : Int, start : Nat, end : Nat]]
      BY SequencesAreFunctions DEF IsTurns
    <2> QED
      BY <2>1 DEF Range, SpeakersIn
  <1>3. SpeakersOf(turns) = Ordered(SpeakersIn(turns), <)
    BY DEF SpeakersOf, SpeakersIn
  <1> QED
    BY <1>1, <1>2, <1>3, NumbersAreListed

(* What the matching weighs, each pair of speakers: the frames both have. *)
LEMMA OverlapIsShared ==
    ASSUME NEW r, NEW h, IsTurns(r), IsTurns(h)
    PROVE  Overlap(r, h) = [i \in DOMAIN SpeakersOf(h) |-> [j \in DOMAIN SpeakersOf(r) |->
              Cardinality(Grid(h, SpeakersOf(h)[i], FrameCount(r, h))
                          \cap Grid(r, SpeakersOf(r)[j], FrameCount(r, h)))]]
  <1> DEFINE n == FrameCount(r, h)
             rl == SpeakersOf(r)
             hl == SpeakersOf(h)
             spans == [i \in DOMAIN hl |-> Spans(h, hl[i], n)]
             shared(i, j) == [k \in DOMAIN spans[i] |->
                Cardinality(Grid(r, rl[j], n) \cap (spans[i][k][1]..spans[i][k][2]-1))]
             cell(i, j) == SumFunction(shared(i, j))
             both(i, j) == Cardinality(Grid(h, hl[i], n) \cap Grid(r, rl[j], n))
  <1>1. Overlap(r, h) = [i \in DOMAIN hl |-> [j \in DOMAIN rl |-> cell(i, j)]]
    BY DEF Overlap
  <1>2. n \in Nat /\ \A t \in Range(h) : t.end <= n
    <2>1. n \in Nat /\ \A t \in Range(h) : t.end < n
      BY FrameCountIsEnough
    <2>2. \A t \in Range(h) : t.end \in Nat
      BY TurnsAreFinite
    <2> QED
      BY <2>1, <2>2
  <1>3. ASSUME NEW i \in DOMAIN hl, NEW j \in DOMAIN rl PROVE cell(i, j) = both(i, j)
    <2>1. PICK out : out = Spans(h, hl[i], n) /\ spans[i] = out
      BY <1>3
    <2>2. out \in SpanLists /\ Disjoint(out) /\ \A f \in Nat : CoveredBy(out, f) <=> f \in Grid(h, hl[i], n)
      <3> HIDE DEF n
      <3> QED
        BY <1>2, <2>1, SpansAreTheGrid
    <2>3. PICK G : G = Grid(r, rl[j], n)
      OBVIOUS
    <2>4. G \in SUBSET Nat /\ IsFiniteSet(G)
      <3>1. PICK F : F = 0..n-1
        OBVIOUS
      <3>2. G \in SUBSET F
        BY <2>3, <3>1 DEF Grid
      <3>3. IsFiniteSet(F) /\ F \subseteq Nat
        BY <1>2, <3>1, FS_Interval
      <3> QED
        BY <3>2, <3>3, FS_Subset
    <2>5. PICK g : g = shared(i, j)
      OBVIOUS
    <2>6. DOMAIN g = DOMAIN out /\ \A k \in DOMAIN out : g[k] = Cardinality(G \cap (out[k][1]..out[k][2]-1))
      BY <2>1, <2>3, <2>5
    <2>7. SumFunctionOnSet(g, DOMAIN out) = Cardinality({f \in G : CoveredBy(out, f)})
      BY <2>2, <2>4, <2>6, SharedIsCovered
    <2>8. {f \in G : CoveredBy(out, f)} = Grid(h, hl[i], n) \cap G
      BY <2>2, <2>4
    <2>9. cell(i, j) = SumFunctionOnSet(g, DOMAIN out)
      BY <2>5, <2>6 DEF SumFunction
    <2> QED
      BY <2>3, <2>7, <2>8, <2>9
  <1> HIDE DEF cell, both
  <1>4. Overlap(r, h) = [i \in DOMAIN hl |-> [j \in DOMAIN rl |-> both(i, j)]]
    BY <1>1, <1>3
  <1> QED
    BY <1>4 DEF both

(* So the matching is of a matrix of natural numbers (overlap of der.py). *)
LEMMA OverlapIsMatrix ==
    ASSUME NEW r, NEW h, IsTurns(r), IsTurns(h)
    PROVE  IsMatrix(Overlap(r, h))
  <1>1. PICK n \in Nat : n = FrameCount(r, h)
    BY FrameCountIsEnough
  <1>2. PICK rl, hl : rl = SpeakersOf(r) /\ hl = SpeakersOf(h)
    OBVIOUS
  <1>3. PICK a \in Nat : DOMAIN hl = 1..a
    BY <1>2, SpeakersAreListed DEF Enlists
  <1>4. PICK b \in Nat : DOMAIN rl = 1..b
    BY <1>2, SpeakersAreListed DEF Enlists
  <1> DEFINE both(i, j) == Cardinality(Grid(h, hl[i], n) \cap Grid(r, rl[j], n))
  <1>5. ASSUME NEW i \in 1..a, NEW j \in 1..b PROVE both(i, j) \in Nat
    <2>1. PICK F : F = 0..n-1
      OBVIOUS
    <2>2. IsFiniteSet(F) /\ Grid(h, hl[i], n) \cap Grid(r, rl[j], n) \in SUBSET F
      BY <2>1, FS_Interval DEF Grid
    <2> QED
      BY <2>2, FS_Subset, FS_CardinalityType
  <1>6. Overlap(r, h) = [i \in DOMAIN hl |-> [j \in DOMAIN rl |-> both(i, j)]]
    <2>1. Overlap(r, h) = [i \in DOMAIN SpeakersOf(h) |-> [j \in DOMAIN SpeakersOf(r) |->
              Cardinality(Grid(h, SpeakersOf(h)[i], FrameCount(r, h))
                          \cap Grid(r, SpeakersOf(r)[j], FrameCount(r, h)))]]
      BY OverlapIsShared
    <2> QED
      BY ONLY <1>1, <1>2, <2>1
  <1>7. Overlap(r, h) = [i \in 1..a |-> [j \in 1..b |-> both(i, j)]]
    BY <1>3, <1>4, <1>6
  <1> HIDE DEF both
  <1>8. Overlap(r, h) \in [1..a -> [1..b -> Nat]]
    BY <1>5, <1>7
  <1> QED
    BY <1>8 DEF IsMatrix

(* The matching's invariant holds, as long as what is scored are turns,                              *)
LEMMA TurnsAreMatched ==
    Spec /\ [](IsTurns(ref) /\ IsTurns(hyp)) => []HInv
  <1>1. Init => HInv
    <2> SUFFICES ASSUME Init PROVE HInv
      OBVIOUS
    <2>1. /\ weights = <<>> /\ row = 0 /\ j0 = Nowhere /\ back = FALSE /\ used = {}
          /\ u = Zeros(0) /\ v = Zeros(0) /\ p = Zeros(0) /\ way = Zeros(0) /\ minv = Zeros(0)
      BY DEF Init, AssignInit
    <2>2. Rows = {} /\ Columns = {} /\ weights \in [1..0 -> [1..0 -> Nat]]
      BY <2>1 DEF Rows, Columns
    <2>3. Cardinality(Rows) = 0 /\ Cardinality(Columns) = 0
      BY <2>2, FS_EmptySet
    <2>4. Slots = 0..0
      BY <2>3 DEF Slots
    <2>5. Sizes
      BY <2>2 DEF Sizes
    <2>6. Types
      BY <2>1, <2>3, <2>4 DEF Types, Zeros
    <2> QED
      BY <2>1, <2>2, <2>5, <2>6 DEF HInv, Prices, Matched, Filled, Searching, Returning
  <1>2. ASSUME HInv, [Next]_vars, IsTurns(ref) /\ IsTurns(hyp) PROVE HInv'
    <2>1. CASE Matches
      BY <1>2, <2>1, OverlapIsMatrix, BeginsSound DEF Matches
    <2>2. CASE Assigns
      BY <1>2, <2>2, InsertKeeps, GrowKeeps, AugmentKeeps DEF Assigns, AssignNext
    <2>3. CASE UNCHANGED assigning
      <3>1. /\ weights' = weights /\ row' = row /\ j0' = j0 /\ back' = back /\ u' = u /\ v' = v
            /\ p' = p /\ way' = way /\ minv' = minv /\ used' = used
        BY <2>3 DEF assigning, hungarian
      <3>2. Rows' = Rows /\ Columns' = Columns /\ Slots' = Slots /\ INF' = INF /\ Filled' = Filled
        BY <3>1 DEF Rows, Columns, Slots, INF, Big, Filled
      <3>3. \A i, j : Left(i, j)' = Left(i, j)
        BY <3>1 DEF Left, Cost, Big, Rows
      <3>4. Sizes' /\ Types' /\ Prices'
        BY <1>2, <3>1, <3>2, <3>3 DEF HInv, Sizes, Types, Prices
      <3>5. \A j : Left(p[way[j]], j)' = Left(p[way[j]], j)
        BY <3>1 DEF Left, Cost, Big, Rows
      <3>6. \A k, j : Left(p[k], j)' = Left(p[k], j)
        BY <3>1 DEF Left, Cost, Big, Rows
      <3>7. Matched'
        <4>1. \A j : (IF p[j] = 0 THEN v[j] = 0 ELSE Tight(p[j], j))'
                     <=> IF p[j] = 0 THEN v[j] = 0 ELSE Tight(p[j], j)
          BY <3>1 DEF Tight, Left, Cost, Big, Rows
        <4> QED
          BY <1>2, <3>1, <3>2, <4>1 DEF HInv, Matched
      <3>8. \A rank, j : Follows(rank, j)' <=> Follows(rank, j)
        BY <3>1, <3>5 DEF Follows, Tight
      <3>9. Looked' <=> Looked
        <4>1. \A j : (minv[j] = Left(p[way[j]], j))' <=> minv[j] = Left(p[way[j]], j)
          BY <3>1 DEF Left, Cost, Big, Rows
        <4>2. \A j, k : (minv[j] <= Left(p[k], j))' <=> minv[j] <= Left(p[k], j)
          BY <3>1 DEF Left, Cost, Big, Rows
        <4> QED
          BY <3>1, <3>2, <4>1, <4>2 DEF Looked
      <3>10. Searching'
        BY <1>2, <3>1, <3>2, <3>8, <3>9 DEF HInv, Searching
      <3>11. Returning'
        <4>1. \A rank : Follows(rank, j0)' <=> Follows(rank, j0)
          BY <3>1, <3>5 DEF Follows, Tight, Left, Cost, Big, Rows
        <4> QED
          BY <1>2, <3>1, <3>2, <3>8, <4>1 DEF HInv, Returning
      <3> QED
        BY <3>4, <3>7, <3>10, <3>11 DEF HInv
    <2>4. UNCHANGED vars => UNCHANGED assigning
      BY DEF vars, assigning
    <2> QED
      BY <1>2, <2>1, <2>2, <2>3, <2>4 DEF Next, Extracts, ClustersWhole, ClustersPiece, Joins,
           LinksPieces, Floors, Reconstructs, Scores, Ended
  <1> QED
    BY <1>1, <1>2, PTL DEF Spec

(* and it is the best one.                                                                             *)
LEMMA TurnsAreMatchedBest ==
    Spec /\ [](IsTurns(ref) /\ IsTurns(hyp)) => []BestSoFar
  <1>1. HInv => BestSoFar
    BY BestAtRest
  <1> QED
    BY <1>1, TurnsAreMatched, PTL

(* assign of der.py finds the best matching (BestSoFar), for every reference and hypothesis: after   *)
(* each row no other placing of the rows inserted weighs more.                                        *)
THEOREM MatchingIsBest == Spec => []BestSoFar
  <1>1. TurnsListed => IsTurns(ref) /\ IsTurns(hyp)
    BY DEF TurnsListed
  <1> QED
    BY <1>1, TurnsAreListed, TurnsAreMatchedBest, PTL

(* Rows and columns paired one to one. *)
OneToOne(q) == \A x, y \in q : x = y \/ (x[1] # y[1] /\ x[2] # y[2])
WeightAt == [x \in Rows \X Columns |-> weights[x[1]][x[2]]]

(* Some rows that have their columns, and the others find one: there are enough. *)
LEMMA PlacesExtend ==
    ASSUME NEW N, IsFiniteSet(N), NEW M, IsFiniteSet(M), Cardinality(N) <= Cardinality(M),
           NEW q \in SUBSET (N \X M), OneToOne(q)
    PROVE  \E other \in Injection(N, M) : \A x \in q : other[x[1]] = x[2]
  <1> DEFINE A == {x[1] : x \in q}
             B == {x[2] : x \in q}
             col == [i \in A |-> CHOOSE j \in B : <<i, j>> \in q]
             U == N \ A
             V == M \ B
  <1>1. A \subseteq N /\ B \subseteq M /\ \A x \in q : x = <<x[1], x[2]>> /\ x[1] \in A /\ x[2] \in B
    OBVIOUS
  <1>2. \A i \in A : col[i] \in B /\ <<i, col[i]>> \in q
    <2> SUFFICES ASSUME NEW i \in A PROVE \E j \in B : <<i, j>> \in q
      OBVIOUS
    <2>1. PICK x \in q : x[1] = i
      OBVIOUS
    <2>2. <<i, x[2]>> \in q /\ x[2] \in B
      BY <1>1, <2>1
    <2> QED
      BY <2>2
  <1>3. \A x \in q : col[x[1]] = x[2]
    <2> SUFFICES ASSUME NEW x \in q PROVE col[x[1]] = x[2]
      OBVIOUS
    <2>1. PICK y \in q : y = <<x[1], col[x[1]]>>
      BY <1>1, <1>2
    <2>2. y[1] = x[1] /\ y[2] = col[x[1]]
      BY <2>1
    <2> QED
      BY <2>2 DEF OneToOne
  <1>4. \A i, k \in A : col[i] = col[k] => i = k
    <2> SUFFICES ASSUME NEW i \in A, NEW k \in A, col[i] = col[k] PROVE i = k
      OBVIOUS
    <2>1. PICK x \in q, y \in q : x = <<i, col[i]>> /\ y = <<k, col[k]>>
      BY <1>2
    <2>2. x[1] = i /\ x[2] = col[i] /\ y[1] = k /\ y[2] = col[i]
      BY <2>1
    <2> QED
      BY <2>2 DEF OneToOne
  <1>5. \A j \in B : \E i \in A : col[i] = j
    BY <1>1, <1>3
  <1>6. DOMAIN col = A /\ col \in [A -> B]
    <2>1. DOMAIN col = A
      OBVIOUS
    <2>2. \A i \in A : col[i] \in B
      BY <1>2
    <2>3. col \in [A -> B]
      <3> HIDE DEF A, B
      <3> QED
        BY <2>2
    <2> QED
      BY <2>1, <2>3
  <1> HIDE DEF A, B, col
  <1>7. IsFiniteSet(A) /\ IsFiniteSet(B) /\ Cardinality(A) = Cardinality(B)
    <2>1. IsFiniteSet(A)
      BY <1>1, FS_Subset
    <2>2. col \in [A -> B]
      BY <1>6
    <2>3. col \in Bijection(A, B)
      BY <1>4, <1>5, <2>2 DEF Bijection, Injection, Surjection, IsInjective
    <2> QED
      BY <2>1, <2>3, FS_Bijection DEF ExistsBijection
  <1>8. IsFiniteSet(U) /\ IsFiniteSet(V) /\ Cardinality(U) <= Cardinality(V)
    <2>1. /\ IsFiniteSet(U) /\ Cardinality(U) = Cardinality(N) - Cardinality(N \cap A)
          /\ IsFiniteSet(V) /\ Cardinality(V) = Cardinality(M) - Cardinality(M \cap B)
      BY FS_Difference
    <2>2. N \cap A = A /\ M \cap B = B
      BY <1>1
    <2>3. Cardinality(N) \in Nat /\ Cardinality(M) \in Nat /\ Cardinality(A) \in Nat
      BY <1>7, FS_CardinalityType
    <2>4. Cardinality(U) = Cardinality(N) - Cardinality(A) /\ Cardinality(V) = Cardinality(M) - Cardinality(A)
      BY <1>7, <2>1, <2>2
    <2> HIDE DEF U, V
    <2>5. Cardinality(U) <= Cardinality(V)
      BY <2>3, <2>4
    <2> QED
      BY <2>1, <2>5
  <1>9. PICK e : e \in [U -> V] /\ \A i, k \in U : e[i] = e[k] => i = k
    <2> DEFINE c == Cardinality(U)
               d == Cardinality(V)
    <2>1. c \in Nat /\ d \in Nat /\ c <= d
      BY <1>8, FS_CardinalityType
    <2>2. PICK f : f \in Bijection(1..c, U)
      BY <1>8, FS_CardinalityType DEF ExistsBijection
    <2>3. PICK g : g \in Bijection(1..d, V)
      BY <1>8, FS_CardinalityType DEF ExistsBijection
    <2> HIDE DEF c, d, U, V
    <2>4. f \in [1..c -> U] /\ \A x \in U : \E k \in 1..c : f[k] = x
      BY <2>2 DEF Bijection, Surjection
    <2>5. g \in [1..d -> V] /\ \A k, l \in 1..d : g[k] = g[l] => k = l
      BY <2>3 DEF Bijection, Injection, IsInjective
    <2> DEFINE at == [x \in U |-> CHOOSE k \in 1..c : f[k] = x]
               e == [x \in U |-> g[at[x]]]
    <2>6. \A x \in U : at[x] \in 1..c /\ f[at[x]] = x
      BY <2>4
    <2>7. \A k \in 1..c : k \in 1..d
      BY <2>1
    <2> HIDE DEF at
    <2>8. \A x \in U : at[x] \in 1..d /\ e[x] = g[at[x]]
      BY <2>6, <2>7
    <2>9. e \in [U -> V]
      BY <2>5, <2>8
    <2>10. \A x, y \in U : e[x] = e[y] => x = y
      <3> SUFFICES ASSUME NEW x \in U, NEW y \in U, e[x] = e[y] PROVE x = y
        OBVIOUS
      <3>1. g[at[x]] = g[at[y]]
        BY <2>8
      <3>2. at[x] = at[y]
        BY <2>5, <2>8, <3>1
      <3> QED
        BY <2>6, <3>2
    <2> HIDE DEF e
    <2> QED
      BY <2>9, <2>10
  <1> DEFINE other == [i \in N |-> IF i \in A THEN col[i] ELSE e[i]]
  <1>10. \A i \in N : /\ i \in A => other[i] = col[i] /\ other[i] \in B
                      /\ i \notin A => i \in U /\ other[i] = e[i] /\ other[i] \in V
    BY <1>2, <1>9
  <1>11. other \in [N -> M]
    <2>1. \A i \in N : other[i] \in M
      BY <1>1, <1>10
    <2> QED
      BY <2>1
  <1> HIDE DEF other
  <1>12. \A i, k \in N : other[i] = other[k] => i = k
    <2> SUFFICES ASSUME NEW i \in N, NEW k \in N, other[i] = other[k] PROVE i = k
      OBVIOUS
    <2>1. (i \in A /\ k \in A) \/ (i \notin A /\ k \notin A)
      BY <1>10
    <2> HIDE DEF U
    <2> QED
      BY <1>4, <1>9, <1>10, <2>1
  <1>13. other \in Injection(N, M)
    BY <1>11, <1>12 DEF Injection, IsInjective
  <1>14. \A x \in q : other[x[1]] = x[2]
    BY <1>1, <1>3, <1>10
  <1> QED
    BY <1>13, <1>14

(* No pairs of rows and columns, one to one, weigh more than those that are kept. *)
LEMMA KeptWeighMost ==
    ASSUME HInv, Assigned, NEW q \in SUBSET (Rows \X Columns), OneToOne(q)
    PROVE  /\ SumFunctionOnSet(WeightAt, q) <= SumFunctionOnSet(WeightAt, KeptPairs)
           /\ KeptPairs \in SUBSET (Rows \X Columns) /\ OneToOne(KeptPairs)
           /\ IsFiniteSet(Rows) /\ IsFiniteSet(Columns)
           /\ \A x \in Rows \X Columns : WeightAt[x] = weights[x[1]][x[2]] /\ WeightAt[x] \in Nat
  <1>1. /\ Cardinality(Rows) \in Nat /\ Cardinality(Columns) \in Nat
        /\ Cardinality(Rows) <= Cardinality(Columns)
        /\ Rows = 1..Cardinality(Rows) /\ Columns = 1..Cardinality(Columns)
        /\ Slots = 0..Cardinality(Columns) /\ weights \in [Rows -> [Columns -> Nat]]
    BY Basics DEF HInv
  <1>2. IsFiniteSet(Rows) /\ IsFiniteSet(Columns)
    <2>1. PICK n \in Nat, m \in Nat : Rows = 1..n /\ Columns = 1..m
      BY <1>1
    <2>2. IsFiniteSet(1..n) /\ IsFiniteSet(1..m)
      BY FS_Interval
    <2> QED
      BY <2>1, <2>2
  <1>3. j0 = Nowhere /\ row = Cardinality(Rows) /\ 1..row = Rows
    BY <1>1 DEF Assigned
  <1>4. p \in [Slots -> 0..row]
    BY DEF HInv, Types
  <1>5. /\ {p[j] : j \in Columns} \ {0} = Rows
        /\ \A j, k \in Columns : p[j] = p[k] /\ p[j] # 0 => j = k
        /\ \A other \in Injection(Rows, Columns) : WeightOf(other) <= WeightOf([i \in Rows |-> PlaceOf(i)])
    BY <1>3, BestAtRest DEF BestSoFar, Placed
  <1>6. \A i \in Rows : PlaceOf(i) \in Columns /\ p[PlaceOf(i)] = i /\ i # 0
    <2> SUFFICES ASSUME NEW i \in Rows PROVE (\E j \in Columns : p[j] = i) /\ i # 0
      BY DEF PlaceOf
    <2> QED
      BY <1>5
  <1>7. ASSUME NEW x \in Rows \X Columns PROVE WeightAt[x] = weights[x[1]][x[2]] /\ WeightAt[x] \in Nat
    <2>1. WeightAt[x] = weights[x[1]][x[2]]
      BY DEF WeightAt
    <2>2. x[1] \in Rows /\ x[2] \in Columns
      OBVIOUS
    <2> QED
      BY <1>1, <2>1, <2>2
  <1>8. KeptPairs \in SUBSET (Rows \X Columns)
    <2> SUFFICES ASSUME NEW x \in KeptPairs PROVE x \in Rows \X Columns
      OBVIOUS
    <2>1. PICK j \in Columns : p[j] # 0 /\ x = <<p[j], j>>
      BY DEF KeptPairs, Pairs
    <2>2. p[j] \in Rows
      BY <1>5, <2>1
    <2> QED
      BY <2>1, <2>2
  <1>9. OneToOne(KeptPairs)
    <2> SUFFICES ASSUME NEW x \in KeptPairs, NEW y \in KeptPairs, x # y PROVE x[1] # y[1] /\ x[2] # y[2]
      BY DEF OneToOne
    <2>1. PICK j \in Columns : p[j] # 0 /\ x = <<p[j], j>>
      BY DEF KeptPairs, Pairs
    <2>2. PICK k \in Columns : p[k] # 0 /\ y = <<p[k], k>>
      BY DEF KeptPairs, Pairs
    <2>3. j # k
      BY <2>1, <2>2
    <2>4. p[j] # p[k]
      BY <1>5, <2>1, <2>3
    <2> QED
      BY <2>1, <2>2, <2>3, <2>4
  <1>10. PICK other \in Injection(Rows, Columns) : \A x \in q : other[x[1]] = x[2]
    BY <1>1, <1>2, PlacesExtend
  <1>11. other \in [Rows -> Columns]
    BY DEF Injection
  <1> DEFINE place == [i \in Rows |-> PlaceOf(i)]
             f == [i \in Rows |-> weights[i][other[i]]]
             g == [i \in Rows |-> weights[i][place[i]]]
             first == [x \in Rows \X Columns |-> x[1]]
             itself == [i \in Rows |-> i]
             at == [i \in Rows |-> <<i, place[i]>>]
             same == [x \in Rows \X Columns |-> x]
  <1>12. \A i \in Rows : f[i] \in Nat /\ g[i] \in Nat /\ place[i] = PlaceOf(i)
    BY <1>1, <1>6, <1>11
  <1>13. SumFunctionOnSet(f, Rows) <= SumFunctionOnSet(g, Rows)
    <2>1. DOMAIN other = Rows
      BY <1>11
    <2>2. WeightOf(other) = SumFunctionOnSet(f, Rows)
      BY <2>1 DEF WeightOf, SumFunction
    <2>3. WeightOf(place) = SumFunctionOnSet(g, Rows)
      BY DEF WeightOf, SumFunction
    <2> HIDE DEF f, g
    <2> QED
      BY <1>5, <2>2, <2>3
  <1>14. IsFiniteSet(q) /\ IsFiniteSet(KeptPairs)
    <2>1. IsFiniteSet(Rows \X Columns)
      BY <1>2, FS_Product
    <2> QED
      BY <1>8, <2>1, FS_Subset
  <1>15. SumFunctionOnSet(WeightAt, q) <= SumFunctionOnSet(f, Rows)
    <2>1. \A x \in q : WeightAt[x] \in Nat
      BY <1>7
    <2>2. \A x, y \in q : first[x] = first[y] => x = y
      <3>1. \A x \in q : first[x] = x[1]
        OBVIOUS
      <3> QED
        BY <3>1 DEF OneToOne
    <2>3. ASSUME NEW x \in q PROVE \E i \in Rows : itself[i] = first[x] /\ f[i] = WeightAt[x]
      <3>1. x[1] \in Rows /\ x[2] \in Columns /\ first[x] = x[1] /\ itself[x[1]] = x[1]
        OBVIOUS
      <3>2. f[x[1]] = weights[x[1]][x[2]]
        BY <1>10, <3>1
      <3>3. WeightAt[x] = weights[x[1]][x[2]]
        BY <1>7
      <3> HIDE DEF f, itself, first
      <3> QED
        BY <3>1, <3>2, <3>3
    <2>4. \A i \in Rows : f[i] \in Nat
      BY <1>12
    <2> HIDE DEF f, itself, first
    <2> QED
      BY <1>2, <1>14, <2>1, <2>2, <2>3, <2>4, Dominates
  <1>16. SumFunctionOnSet(g, Rows) <= SumFunctionOnSet(WeightAt, KeptPairs)
    <2>1. \A x \in KeptPairs : WeightAt[x] \in Nat
      BY <1>7, <1>8
    <2>2. \A i, k \in Rows : at[i] = at[k] => i = k
      OBVIOUS
    <2>3. ASSUME NEW i \in Rows PROVE g[i] = 0 \/ \E x \in KeptPairs : same[x] = at[i] /\ WeightAt[x] = g[i]
      <3> SUFFICES ASSUME g[i] # 0 PROVE \E x \in KeptPairs : same[x] = at[i] /\ WeightAt[x] = g[i]
        OBVIOUS
      <3>1. PICK j \in Columns : j = PlaceOf(i) /\ p[j] = i /\ p[j] # 0 /\ g[i] = weights[i][j]
        BY <1>6, <1>12
      <3>2. PICK x : x = <<i, j>>
        OBVIOUS
      <3>3. x[1] = i /\ x[2] = j /\ x \in Rows \X Columns /\ x \in Pairs
        BY <3>1, <3>2 DEF Pairs
      <3>4. weights[i][j] > 0
        BY <1>12, <3>1
      <3>5. x \in KeptPairs
        BY <3>3, <3>4 DEF KeptPairs
      <3>6. WeightAt[x] = g[i]
        BY <1>7, <3>1, <3>3
      <3>7. same[x] = at[i]
        BY <3>1, <3>2, <3>3
      <3> HIDE DEF same, at, g
      <3> QED
        BY <3>5, <3>6, <3>7
    <2>4. \A i \in Rows : g[i] \in Nat
      BY <1>12
    <2> HIDE DEF g, same, at
    <2> QED
      BY <1>2, <1>14, <2>1, <2>2, <2>3, <2>4, Dominates
  <1>17. SumFunctionOnSet(WeightAt, q) <= SumFunctionOnSet(WeightAt, KeptPairs)
    <2>1. /\ SumFunctionOnSet(WeightAt, q) \in Nat /\ SumFunctionOnSet(WeightAt, KeptPairs) \in Nat
          /\ SumFunctionOnSet(f, Rows) \in Nat /\ SumFunctionOnSet(g, Rows) \in Nat
      <3>1. /\ \A x \in q : WeightAt[x] \in Nat
            /\ \A x \in KeptPairs : WeightAt[x] \in Nat
            /\ \A i \in Rows : f[i] \in Nat
            /\ \A i \in Rows : g[i] \in Nat
        BY <1>7, <1>8, <1>12
      <3> HIDE DEF f, g
      <3> QED
        BY <1>2, <1>14, <3>1, SumIsNat
    <2> HIDE DEF f, g
    <2> QED
      BY <1>13, <1>15, <1>16, <2>1
  <1> QED
    BY <1>2, <1>7, <1>8, <1>9, <1>17

(* The same, said of what the rows and columns stand for. *)
StandsFor(who, g, HS, RS) ==
    /\ who \in [Rows \X Columns -> HS \X RS]
    /\ \A x \in Rows \X Columns : WeightAt[x] = g[who[x]]
    /\ \A x, y \in Rows \X Columns :
         /\ who[x] = who[y] => x = y
         /\ x[1] # y[1] /\ x[2] # y[2] <=> who[x][1] # who[y][1] /\ who[x][2] # who[y][2]
    /\ \A z \in HS \X RS : \E x \in Rows \X Columns : who[x] = z
(* What the kept pairs stand for weighs most, of all that is one to one. *)
LEMMA KeptStandForMost ==
    ASSUME HInv, Assigned, NEW HS, NEW RS, NEW g, NEW who, StandsFor(who, g, HS, RS),
           NEW K, K = {who[x] : x \in KeptPairs},
           NEW m \in SUBSET (HS \X RS), OneToOne(m)
    PROVE  /\ SumFunctionOnSet(g, m) <= SumFunctionOnSet(g, K)
           /\ K \in SUBSET (HS \X RS) /\ OneToOne(K) /\ IsFiniteSet(K) /\ IsFiniteSet(m)
           /\ \A z \in HS \X RS : g[z] \in Nat
  <1> DEFINE q == {x \in Rows \X Columns : who[x] \in m}
             same == [z \in HS \X RS |-> z]
  <1>1. /\ who \in [Rows \X Columns -> HS \X RS]
        /\ \A x \in Rows \X Columns : WeightAt[x] = g[who[x]]
        /\ \A x, y \in Rows \X Columns : who[x] = who[y] => x = y
        /\ \A x, y \in Rows \X Columns :
             x[1] # y[1] /\ x[2] # y[2] <=> who[x][1] # who[y][1] /\ who[x][2] # who[y][2]
        /\ \A z \in HS \X RS : \E x \in Rows \X Columns : who[x] = z
    BY DEF StandsFor
  <1>2. q \in SUBSET (Rows \X Columns)
    OBVIOUS
  <1>3. OneToOne(q)
    <2> SUFFICES ASSUME NEW x \in q, NEW y \in q, x # y PROVE x[1] # y[1] /\ x[2] # y[2]
      BY DEF OneToOne
    <2>1. who[x] \in m /\ who[y] \in m /\ who[x] # who[y]
      BY <1>1
    <2>2. who[x][1] # who[y][1] /\ who[x][2] # who[y][2]
      BY <2>1 DEF OneToOne
    <2> QED
      BY <1>1, <1>2, <2>2
  <1>4. /\ SumFunctionOnSet(WeightAt, q) <= SumFunctionOnSet(WeightAt, KeptPairs)
        /\ KeptPairs \in SUBSET (Rows \X Columns) /\ OneToOne(KeptPairs)
        /\ IsFiniteSet(Rows) /\ IsFiniteSet(Columns)
        /\ \A x \in Rows \X Columns : WeightAt[x] \in Nat
    <2> HIDE DEF q
    <2> QED
      BY <1>2, <1>3, KeptWeighMost
  <1>5. IsFiniteSet(Rows \X Columns)
    BY <1>4, FS_Product
  <1>6. IsFiniteSet(HS \X RS)
    <2>1. who \in Surjection(Rows \X Columns, HS \X RS)
      BY <1>1 DEF Surjection
    <2> QED
      BY <1>5, <2>1, FS_Surjection
  <1>7. K \in SUBSET (HS \X RS)
    BY <1>1, <1>4
  <1>8. IsFiniteSet(K) /\ IsFiniteSet(m) /\ IsFiniteSet(q) /\ IsFiniteSet(KeptPairs)
    BY <1>2, <1>4, <1>5, <1>6, <1>7, FS_Subset
  <1>9. OneToOne(K)
    <2> SUFFICES ASSUME NEW z \in K, NEW o \in K, z # o PROVE z[1] # o[1] /\ z[2] # o[2]
      BY DEF OneToOne
    <2>1. PICK x \in KeptPairs, y \in KeptPairs : z = who[x] /\ o = who[y]
      OBVIOUS
    <2>2. x[1] # y[1] /\ x[2] # y[2]
      BY <1>4, <2>1 DEF OneToOne
    <2> QED
      BY <1>1, <1>4, <2>1, <2>2
  <1>10. \A z \in HS \X RS : g[z] \in Nat
    <2> SUFFICES ASSUME NEW z \in HS \X RS PROVE g[z] \in Nat
      OBVIOUS
    <2>1. PICK x \in Rows \X Columns : who[x] = z
      BY <1>1
    <2> QED
      BY <1>1, <1>4, <2>1
  <1>11. \A z \in HS \X RS : same[z] = z
    OBVIOUS
  <1> HIDE DEF same
  <1>12. SumFunctionOnSet(g, m) <= SumFunctionOnSet(WeightAt, q)
    <2>1. \A z \in m : g[z] \in Nat
      BY <1>10
    <2>2. \A x \in q : WeightAt[x] \in Nat
      BY <1>4
    <2>3. \A z, o \in m : same[z] = same[o] => z = o
      BY <1>11
    <2>4. ASSUME NEW z \in m PROVE \E x \in q : who[x] = same[z] /\ WeightAt[x] = g[z]
      <3>1. PICK x \in Rows \X Columns : who[x] = z
        BY <1>1
      <3> QED
        BY <1>1, <1>11, <3>1
    <2> HIDE DEF q
    <2> QED
      BY <1>8, <2>1, <2>2, <2>3, <2>4, Dominates
  <1>13. SumFunctionOnSet(WeightAt, KeptPairs) <= SumFunctionOnSet(g, K)
    <2>1. \A x \in KeptPairs : WeightAt[x] \in Nat
      BY <1>4
    <2>2. \A z \in K : g[z] \in Nat
      BY <1>7, <1>10
    <2>3. \A x, y \in KeptPairs : who[x] = who[y] => x = y
      BY <1>1, <1>4
    <2>4. ASSUME NEW x \in KeptPairs PROVE \E z \in K : same[z] = who[x] /\ g[z] = WeightAt[x]
      <3>1. who[x] \in K /\ WeightAt[x] = g[who[x]]
        BY <1>1, <1>4
      <3>2. same[who[x]] = who[x]
        BY <1>7, <1>11, <3>1
      <3> QED
        BY <3>1, <3>2
    <2> QED
      BY <1>8, <2>1, <2>2, <2>3, <2>4, Dominates
  <1>14. /\ SumFunctionOnSet(g, m) \in Nat /\ SumFunctionOnSet(g, K) \in Nat
         /\ SumFunctionOnSet(WeightAt, q) \in Nat /\ SumFunctionOnSet(WeightAt, KeptPairs) \in Nat
    <2>1. /\ \A z \in m : g[z] \in Nat
          /\ \A z \in K : g[z] \in Nat
          /\ \A x \in q : WeightAt[x] \in Nat
          /\ \A x \in KeptPairs : WeightAt[x] \in Nat
      BY <1>4, <1>7, <1>10
    <2> HIDE DEF q
    <2> QED
      BY <1>8, <2>1, SumIsNat
  <1>15. SumFunctionOnSet(g, m) <= SumFunctionOnSet(g, K)
    <2> HIDE DEF q
    <2> QED
      BY <1>4, <1>12, <1>13, <1>14
  <1> QED
    BY <1>7, <1>8, <1>9, <1>10, <1>15

(* The frames that pairs of speakers share. *)
SharedBy(r, h) ==
    [z \in SpeakersIn(h) \X SpeakersIn(r) |-> Cardinality(Grid(h, z[1], FrameCount(r, h)) \cap Grid(r, z[2], FrameCount(r, h)))]

(* No pairs of speakers, one to one, share more frames than those that are matched. *)
LEMMA MatchedShareMost ==
    ASSUME HInv, Assigned, NEW r, NEW h, IsTurns(r), IsTurns(h), weights = Shorter(Overlap(r, h)),
           NEW K, K = Mapped(r, h, PairsOf(Overlap(r, h))),
           NEW m \in SUBSET (SpeakersIn(h) \X SpeakersIn(r)), OneToOne(m)
    PROVE  /\ SumFunctionOnSet(SharedBy(r, h), m) <= SumFunctionOnSet(SharedBy(r, h), K)
           /\ K \in SUBSET (SpeakersIn(h) \X SpeakersIn(r)) /\ OneToOne(K) /\ IsFiniteSet(K) /\ IsFiniteSet(m)
           /\ \A z \in SpeakersIn(h) \X SpeakersIn(r) : SharedBy(r, h)[z] \in Nat
  <1> DEFINE w == Overlap(r, h)
             a == Cardinality(SpeakersIn(h))
             b == Cardinality(SpeakersIn(r))
  <1>1. PICK rl : rl = SpeakersOf(r) /\ Enlists(rl, SpeakersIn(r))
    BY SpeakersAreListed
  <1>2. PICK hl : hl = SpeakersOf(h) /\ Enlists(hl, SpeakersIn(h))
    BY SpeakersAreListed
  <1>3. PICK g : g = SharedBy(r, h)
    OBVIOUS
  <1>4. PICK HS, RS : HS = SpeakersIn(h) /\ RS = SpeakersIn(r)
    OBVIOUS
  <1>5. DOMAIN hl = 1..a /\ DOMAIN rl = 1..b /\ a \in Nat /\ b \in Nat
    BY <1>1, <1>2 DEF Enlists
  <1>6. /\ \A i \in 1..a : hl[i] \in HS
        /\ \A j \in 1..b : rl[j] \in RS
        /\ \A s \in HS : \E i \in 1..a : hl[i] = s
        /\ \A s \in RS : \E j \in 1..b : rl[j] = s
        /\ \A i, k \in 1..a : hl[i] = hl[k] => i = k
        /\ \A j, k \in 1..b : rl[j] = rl[k] => j = k
    BY <1>1, <1>2, <1>4, <1>5 DEF Enlists
  <1>7. w = [i \in 1..a |-> [j \in 1..b |-> g[<<hl[i], rl[j]>>]]]
    <2>1. w = [i \in 1..a |-> [j \in 1..b |->
                Cardinality(Grid(h, hl[i], FrameCount(r, h)) \cap Grid(r, rl[j], FrameCount(r, h)))]]
      <3>1. w = [i \in DOMAIN SpeakersOf(h) |-> [j \in DOMAIN SpeakersOf(r) |->
                  Cardinality(Grid(h, SpeakersOf(h)[i], FrameCount(r, h))
                              \cap Grid(r, SpeakersOf(r)[j], FrameCount(r, h)))]]
        BY OverlapIsShared
      <3> HIDE DEF w
      <3> QED
        BY <1>1, <1>2, <1>5, <3>1
    <2>2. ASSUME NEW i \in 1..a, NEW j \in 1..b
          PROVE  g[<<hl[i], rl[j]>>]
                   = Cardinality(Grid(h, hl[i], FrameCount(r, h)) \cap Grid(r, rl[j], FrameCount(r, h)))
      <3>1. PICK z : z = <<hl[i], rl[j]>>
        OBVIOUS
      <3>2. z \in HS \X RS /\ z[1] = hl[i] /\ z[2] = rl[j]
        BY <1>6, <3>1
      <3>3. g[z] = Cardinality(Grid(h, z[1], FrameCount(r, h)) \cap Grid(r, z[2], FrameCount(r, h)))
        BY <1>3, <1>4, <3>2 DEF SharedBy
      <3> QED
        BY <3>1, <3>2, <3>3
    <2> HIDE DEF w, a, b
    <2> QED
      BY <2>1, <2>2
  <1>8. DOMAIN w = 1..a /\ Cardinality(1..a) = a /\ Cardinality(1..b) = b
    <2>1. DOMAIN w = 1..a
      <3> HIDE DEF w
      <3> QED
        BY <1>7
    <2>2. \A k \in Nat : Cardinality(1..k) = k
      BY FS_Interval
    <2> HIDE DEF a, b
    <2> QED
      BY <1>5, <2>1, <2>2
  <1>9. a # 0 => 1 \in 1..a /\ DOMAIN w[1] = 1..b /\ DOMAIN w # {}
    <2> HIDE DEF w, a, b
    <2> SUFFICES ASSUME a # 0 PROVE 1 \in 1..a /\ DOMAIN w[1] = 1..b /\ DOMAIN w # {}
      OBVIOUS
    <2>1. 1 \in 1..a
      BY <1>5
    <2>2. w[1] = [j \in 1..b |-> g[<<hl[1], rl[j]>>]]
      BY <1>7, <2>1
    <2> QED
      BY <1>8, <2>1, <2>2
  <1> HIDE DEF w, a, b
  <1>10. \A i \in 1..a, j \in 1..b : w[i][j] = g[<<hl[i], rl[j]>>]
    BY <1>7
  <1>11. weights = Shorter(w) /\ K = Mapped(r, h, PairsOf(w))
    BY DEF w
  <1>12. \E who : StandsFor(who, g, HS, RS) /\ K = {who[x] : x \in KeptPairs}
    <2>1. CASE Turned(w)
      <3> DEFINE who == [x \in Rows \X Columns |-> <<hl[x[2]], rl[x[1]]>>]
      <3>1. a # 0 /\ a > b
        <4>1. a # 0
          BY <1>5, <1>8, <2>1 DEF Turned
        <4> QED
          BY <1>8, <1>9, <2>1, <4>1 DEF Turned
      <3>2. weights = [j \in 1..b |-> [i \in 1..a |-> w[i][j]]]
        BY <1>8, <1>9, <1>11, <2>1, <3>1 DEF Shorter, Transposed
      <3>3. Rows = 1..b
        BY <3>2 DEF Rows
      <3>4. Columns = IF b = 0 THEN {} ELSE 1..a
        <4>1. CASE b = 0
          BY <3>3, <4>1 DEF Columns
        <4>2. CASE b # 0
          <5>1. 1 \in 1..b
            BY <1>5, <4>2
          <5>2. weights[1] = [i \in 1..a |-> w[i][1]]
            BY <3>2, <5>1
          <5> QED
            BY <3>3, <4>2, <5>1, <5>2 DEF Columns
        <4> QED
          BY <4>1, <4>2
      <3>5. ASSUME NEW x \in Rows \X Columns
            PROVE  /\ x[1] \in 1..b /\ x[2] \in 1..a /\ x = <<x[1], x[2]>>
                   /\ who[x] = <<hl[x[2]], rl[x[1]]>> /\ who[x][1] = hl[x[2]] /\ who[x][2] = rl[x[1]]
                   /\ WeightAt[x] = g[who[x]]
        <4>1. x[1] \in 1..b /\ x[2] \in 1..a /\ x = <<x[1], x[2]>>
          BY <1>5, <3>3, <3>4
        <4>2. who[x] = <<hl[x[2]], rl[x[1]]>>
          OBVIOUS
        <4>3. WeightAt[x] = weights[x[1]][x[2]]
          BY DEF WeightAt
        <4>4. weights[x[1]][x[2]] = w[x[2]][x[1]]
          BY <3>2, <4>1
        <4> HIDE DEF who
        <4> QED
          BY <1>10, <4>1, <4>2, <4>3, <4>4
      <3>6. who \in [Rows \X Columns -> HS \X RS]
        <4>1. \A x \in Rows \X Columns : <<hl[x[2]], rl[x[1]]>> \in HS \X RS
          BY <1>6, <3>5
        <4> QED
          BY <4>1
      <3> HIDE DEF who
      <3>7. ASSUME NEW x \in Rows \X Columns, NEW y \in Rows \X Columns
            PROVE  /\ who[x] = who[y] => x = y
                   /\ x[1] # y[1] /\ x[2] # y[2] <=> who[x][1] # who[y][1] /\ who[x][2] # who[y][2]
        <4>1. x[1] = y[1] <=> who[x][2] = who[y][2]
          BY <1>6, <3>5
        <4>2. x[2] = y[2] <=> who[x][1] = who[y][1]
          BY <1>6, <3>5
        <4> QED
          BY <3>5, <4>1, <4>2
      <3>8. ASSUME NEW z \in HS \X RS PROVE \E x \in Rows \X Columns : who[x] = z
        <4>1. PICK i \in 1..a, j \in 1..b : hl[i] = z[1] /\ rl[j] = z[2]
          BY <1>6
        <4>2. PICK x : x = <<j, i>>
          OBVIOUS
        <4>3. b # 0
          BY <1>5
        <4>4. x \in Rows \X Columns /\ x[1] = j /\ x[2] = i
          BY <3>3, <3>4, <4>2, <4>3
        <4>5. who[x] = z
          BY <3>5, <4>1, <4>4
        <4> QED
          BY <4>4, <4>5
      <3>9. StandsFor(who, g, HS, RS)
        BY <3>5, <3>6, <3>7, <3>8 DEF StandsFor
      <3>10. K = {who[x] : x \in KeptPairs}
        <4>1. KeptPairs \subseteq Rows \X Columns
          BY KeptWeighMost, {} \in SUBSET (Rows \X Columns), OneToOne({}) DEF OneToOne
        <4>2. K = {<<hl[x[1]], rl[x[2]]>> : x \in {<<pair[2], pair[1]>> : pair \in KeptPairs}}
          BY <1>1, <1>2, <1>11, <2>1 DEF Mapped, PairsOf
        <4>3. \A x \in KeptPairs : who[x] = <<hl[x[2]], rl[x[1]]>>
          BY <3>5, <4>1
        <4>4. PICK Q : Q = {<<pair[2], pair[1]>> : pair \in KeptPairs}
          OBVIOUS
        <4>5. \A x \in Q : \E pair \in KeptPairs : x[1] = pair[2] /\ x[2] = pair[1]
          BY <4>4
        <4>6. \A pair \in KeptPairs : \E x \in Q : x[1] = pair[2] /\ x[2] = pair[1]
          <5> SUFFICES ASSUME NEW pair \in KeptPairs PROVE \E x \in Q : x[1] = pair[2] /\ x[2] = pair[1]
            OBVIOUS
          <5>1. PICK c, d : c = pair[2] /\ d = pair[1]
            OBVIOUS
          <5>2. <<c, d>> \in Q
            BY <4>4, <5>1
          <5>3. <<c, d>>[1] = c /\ <<c, d>>[2] = d
            BY ONLY TRUE
          <5> QED
            BY <5>1, <5>2, <5>3
        <4>7. K = {<<hl[x[1]], rl[x[2]]>> : x \in Q}
          BY <4>2, <4>4
        <4>8. \A z \in K : z \in {who[x] : x \in KeptPairs}
          BY <4>3, <4>5, <4>7
        <4>9. \A pair \in KeptPairs : who[pair] \in K
          <5> SUFFICES ASSUME NEW pair \in KeptPairs PROVE who[pair] \in K
            OBVIOUS
          <5>1. PICK x \in Q : x[1] = pair[2] /\ x[2] = pair[1]
            BY <4>6
          <5>2. <<hl[x[1]], rl[x[2]]>> \in K
            BY <4>7
          <5> QED
            BY <4>3, <5>1, <5>2
        <4> QED
          BY <4>8, <4>9
      <3> QED
        BY <3>9, <3>10
    <2>2. CASE ~Turned(w)
      <3> DEFINE who == [x \in Rows \X Columns |-> <<hl[x[1]], rl[x[2]]>>]
      <3>2. weights = w
        BY <1>11, <2>2 DEF Shorter
      <3>3. Rows = 1..a
        BY <1>8, <3>2 DEF Rows
      <3>4. Columns = IF a = 0 THEN {} ELSE 1..b
        <4>1. CASE a = 0
          BY <3>3, <4>1 DEF Columns
        <4>2. CASE a # 0
          BY <1>9, <3>2, <3>3, <4>2 DEF Columns
        <4> QED
          BY <4>1, <4>2
      <3>5. ASSUME NEW x \in Rows \X Columns
            PROVE  /\ x[1] \in 1..a /\ x[2] \in 1..b /\ x = <<x[1], x[2]>>
                   /\ who[x] = <<hl[x[1]], rl[x[2]]>> /\ who[x][1] = hl[x[1]] /\ who[x][2] = rl[x[2]]
                   /\ WeightAt[x] = g[who[x]]
        <4>1. x[1] \in 1..a /\ x[2] \in 1..b /\ x = <<x[1], x[2]>>
          BY <1>5, <3>3, <3>4
        <4>2. who[x] = <<hl[x[1]], rl[x[2]]>>
          OBVIOUS
        <4>3. WeightAt[x] = weights[x[1]][x[2]]
          BY DEF WeightAt
        <4> HIDE DEF who
        <4> QED
          BY <1>10, <3>2, <4>1, <4>2, <4>3
      <3>6. who \in [Rows \X Columns -> HS \X RS]
        <4>1. \A x \in Rows \X Columns : <<hl[x[1]], rl[x[2]]>> \in HS \X RS
          BY <1>6, <3>5
        <4> QED
          BY <4>1
      <3> HIDE DEF who
      <3>7. ASSUME NEW x \in Rows \X Columns, NEW y \in Rows \X Columns
            PROVE  /\ who[x] = who[y] => x = y
                   /\ x[1] # y[1] /\ x[2] # y[2] <=> who[x][1] # who[y][1] /\ who[x][2] # who[y][2]
        <4>1. x[1] = y[1] <=> who[x][1] = who[y][1]
          BY <1>6, <3>5
        <4>2. x[2] = y[2] <=> who[x][2] = who[y][2]
          BY <1>6, <3>5
        <4> QED
          BY <3>5, <4>1, <4>2
      <3>8. ASSUME NEW z \in HS \X RS PROVE \E x \in Rows \X Columns : who[x] = z
        <4>1. PICK i \in 1..a, j \in 1..b : hl[i] = z[1] /\ rl[j] = z[2]
          BY <1>6
        <4>2. PICK x : x = <<i, j>>
          OBVIOUS
        <4>3. a # 0
          BY <1>5
        <4>4. x \in Rows \X Columns /\ x[1] = i /\ x[2] = j
          BY <3>3, <3>4, <4>2, <4>3
        <4>5. who[x] = z
          BY <3>5, <4>1, <4>4
        <4> QED
          BY <4>4, <4>5
      <3>9. StandsFor(who, g, HS, RS)
        BY <3>5, <3>6, <3>7, <3>8 DEF StandsFor
      <3>10. K = {who[x] : x \in KeptPairs}
        <4>1. KeptPairs \subseteq Rows \X Columns
          BY KeptWeighMost, {} \in SUBSET (Rows \X Columns), OneToOne({}) DEF OneToOne
        <4>2. K = {<<hl[x[1]], rl[x[2]]>> : x \in KeptPairs}
          BY <1>1, <1>2, <1>11, <2>2 DEF Mapped, PairsOf
        <4>3. \A x \in KeptPairs : who[x] = <<hl[x[1]], rl[x[2]]>>
          BY <3>5, <4>1
        <4> QED
          BY <4>2, <4>3
      <3> QED
        BY <3>9, <3>10
    <2> QED
      BY <2>1, <2>2
  <1>13. PICK who : StandsFor(who, g, HS, RS) /\ K = {who[x] : x \in KeptPairs}
    BY <1>12
  <1>14. m \in SUBSET (HS \X RS)
    BY <1>4
  <1>15. /\ SumFunctionOnSet(g, m) <= SumFunctionOnSet(g, K)
         /\ K \in SUBSET (HS \X RS) /\ OneToOne(K) /\ IsFiniteSet(K) /\ IsFiniteSet(m)
         /\ \A z \in HS \X RS : g[z] \in Nat
    BY <1>13, <1>14, KeptStandForMost
  <1> QED
    BY <1>3, <1>4, <1>15

(* The voices of a frame, those that are the right ones, and the frames scored. *)
HeardAt(turns, n, f) == {s \in SpeakersIn(turns) : f \in Grid(turns, s, n)}
RightAt(r, h, n, K, f) == {x \in K : f \in Grid(r, x[2], n) /\ f \in Grid(h, x[1], n)}
Heard(turns, n) == [f \in 0..n |-> Cardinality(HeardAt(turns, n, f))]
Rightly(r, h, n, K) == [f \in 0..n |-> Cardinality(RightAt(r, h, n, K, f))]
KeptFrames(r, h, collar, skip) ==
    {f \in 0..FrameCount(r, h)-1 :
       ~Near(r, f, collar) /\ (skip => Heard(r, FrameCount(r, h))[f] <= 1)}

(* Who is right in a frame is heard in it, by both. *)
LEMMA RightAreHeard ==
    ASSUME NEW r, NEW h, IsTurns(r), IsTurns(h), NEW n \in Nat, NEW f \in 0..n,
           NEW K \in SUBSET (SpeakersIn(h) \X SpeakersIn(r)), OneToOne(K)
    PROVE  /\ Heard(r, n)[f] \in Nat /\ Heard(h, n)[f] \in Nat /\ Rightly(r, h, n, K)[f] \in Nat
           /\ Rightly(r, h, n, K)[f] <= Heard(r, n)[f] /\ Rightly(r, h, n, K)[f] <= Heard(h, n)[f]
  <1> DEFINE A == HeardAt(r, n, f)
             B == HeardAt(h, n, f)
             C == RightAt(r, h, n, K, f)
             inA == [x \in C |-> x[2]]
             inB == [x \in C |-> x[1]]
  <1>1. IsFiniteSet(A) /\ IsFiniteSet(B)
    <2>1. IsFiniteSet(SpeakersIn(r)) /\ IsFiniteSet(SpeakersIn(h))
      BY SpeakersAreListed
    <2>2. A \in SUBSET SpeakersIn(r) /\ B \in SUBSET SpeakersIn(h)
      BY DEF HeardAt
    <2> QED
      BY <2>1, <2>2, FS_Subset
  <1>2. \A x \in C : x[2] \in A /\ x[1] \in B
    BY DEF RightAt, HeardAt
  <1>3. \A x, y \in C : x = y \/ (x[1] # y[1] /\ x[2] # y[2])
    BY DEF RightAt, OneToOne
  <1>4. Heard(r, n)[f] = Cardinality(A) /\ Heard(h, n)[f] = Cardinality(B) /\ Rightly(r, h, n, K)[f] = Cardinality(C)
    BY DEF Heard, Rightly
  <1> HIDE DEF A, B, C
  <1>5. inA \in Injection(C, A) /\ inB \in Injection(C, B)
    BY <1>2, <1>3 DEF Injection, IsInjective
  <1> HIDE DEF inA, inB
  <1>6. IsFiniteSet(C) /\ Cardinality(C) <= Cardinality(A) /\ Cardinality(C) <= Cardinality(B)
    BY <1>1, <1>5, FS_Injection
  <1> QED
    BY <1>1, <1>4, <1>6, FS_CardinalityType

(* The score, in what is heard. *)
Misses(R, H, n) == [f \in 0..n |-> Max({0, R[f] - H[f]})]
Confuses(R, H, A, n) == [f \in 0..n |-> Min({R[f], H[f]}) - A[f]]
(* Score of der.py counts exactly these, in the frames it keeps. *)
LEMMA ScoreIs ==
    ASSUME NEW r, NEW h, IsTurns(r), IsTurns(h), NEW n, n = FrameCount(r, h),
           NEW K \in SUBSET (SpeakersIn(h) \X SpeakersIn(r)), OneToOne(K), NEW collar, NEW skip \in BOOLEAN,
           NEW R, R = Heard(r, n), NEW H, H = Heard(h, n), NEW A, A = Rightly(r, h, n, K),
           NEW keep, keep = KeptFrames(r, h, collar, skip)
    PROVE  Score(r, h, K, collar, skip) =
             [total      |-> SumFunctionOnSet(R, keep),
              missed     |-> SumFunctionOnSet(Misses(R, H, n), keep),
              falseAlarm |-> SumFunctionOnSet(Misses(H, R, n), keep),
              confusion  |-> SumFunctionOnSet(Confuses(R, H, A, n), keep)]
  <1> DEFINE rs == [s \in SpeakersIn(r) |-> Grid(r, s, n)]
             hs == [s \in SpeakersIn(h) |-> Spans(h, s, n)]
             has(s, f) == \E k \in DOMAIN hs[s] : hs[s][k][1] <= f /\ f < hs[s][k][2]
             RS == [f \in 0..n-1 |-> Cardinality({s \in DOMAIN rs : f \in rs[s]})]
             many(s, f) == Cardinality({k \in DOMAIN hs[s] : hs[s][k][1] <= f /\ f < hs[s][k][2]})
             HS == [f \in 0..n-1 |-> SumFunction([s \in DOMAIN hs |-> many(s, f)])]
             right(f) == Cardinality({x \in K : f \in rs[x[2]] /\ has(x[1], f)})
             kept == {f \in 0..n-1 : ~Near(r, f, collar) /\ (skip => RS[f] <= 1)}
  <1>1. n \in Nat /\ n > 0 /\ 0..n-1 \subseteq 0..n /\ 0..n-1 \subseteq Nat /\ \A t \in Range(h) : t.end <= n
    <2>1. n \in Nat /\ n > 0 /\ \A t \in Range(h) : t.end < n
      BY FrameCountIsEnough
    <2>2. \A t \in Range(h) : t.end \in Nat
      BY TurnsAreFinite
    <2> QED
      BY <2>1, <2>2
  <1>2. Score(r, h, K, collar, skip) =
          [total      |-> SumFunction([f \in kept |-> RS[f]]),
           missed     |-> SumFunction([f \in kept |-> Max({0, RS[f] - HS[f]})]),
           falseAlarm |-> SumFunction([f \in kept |-> Max({0, HS[f] - RS[f]})]),
           confusion  |-> SumFunction([f \in kept |-> Min({RS[f], HS[f]}) - right(f)])]
    BY DEF Score, SpeakersIn
  <1>3. ASSUME NEW f \in 0..n-1 PROVE RS[f] = R[f]
    <2>1. {s \in DOMAIN rs : f \in rs[s]} = HeardAt(r, n, f)
      BY DEF HeardAt
    <2>2. RS[f] = Cardinality({s \in DOMAIN rs : f \in rs[s]})
      OBVIOUS
    <2>3. f \in 0..n
      BY <1>1
    <2> HIDE DEF RS, rs
    <2> QED
      BY <2>1, <2>2, <2>3 DEF Heard
  <1>4. ASSUME NEW s \in SpeakersIn(h), NEW f \in 0..n-1
        PROVE  /\ many(s, f) = IF f \in Grid(h, s, n) THEN 1 ELSE 0
               /\ has(s, f) <=> f \in Grid(h, s, n)
    <2>1. PICK out : out = Spans(h, s, n)
      OBVIOUS
    <2>2. out \in SpanLists /\ Disjoint(out) /\ \A e \in Nat : CoveredBy(out, e) <=> e \in Grid(h, s, n)
      BY <1>1, <2>1, SpansAreTheGrid
    <2>3. f \in Nat /\ hs[s] = out
      BY <1>1, <2>1
    <2>4. Cardinality({k \in DOMAIN out : InSpan(out[k], f)}) = IF CoveredBy(out, f) THEN 1 ELSE 0
      BY <2>2, <2>3, OneSpan
    <2>5. many(s, f) = Cardinality({k \in DOMAIN out : InSpan(out[k], f)})
      BY <2>3 DEF InSpan
    <2>6. has(s, f) <=> CoveredBy(out, f)
      BY <2>3 DEF InSpan, CoveredBy
    <2> HIDE DEF many, has
    <2> QED
      BY <2>2, <2>3, <2>4, <2>5, <2>6
  <1>5. ASSUME NEW f \in 0..n-1 PROVE HS[f] = H[f]
    <2> DEFINE g == [s \in DOMAIN hs |-> many(s, f)]
    <2>1. DOMAIN g = SpeakersIn(h) /\ DOMAIN hs = SpeakersIn(h)
      OBVIOUS
    <2>2. HS[f] = SumFunctionOnSet(g, SpeakersIn(h))
      BY <2>1 DEF SumFunction
    <2>3. \A s \in SpeakersIn(h) : g[s] = many(s, f)
      BY <2>1
    <2>4. \A s \in SpeakersIn(h) : g[s] = IF s \in HeardAt(h, n, f) THEN 1 ELSE 0
      <3> HIDE DEF g, many
      <3> QED
        BY <1>4, <2>3 DEF HeardAt
    <2>5. IsFiniteSet(SpeakersIn(h))
      BY SpeakersAreListed
    <2> HIDE DEF g, HS
    <2>6. SumFunctionOnSet(g, SpeakersIn(h)) = Cardinality(SpeakersIn(h) \cap HeardAt(h, n, f))
      BY <2>4, <2>5, CountIsSum
    <2>7. SpeakersIn(h) \cap HeardAt(h, n, f) = HeardAt(h, n, f)
      BY DEF HeardAt
    <2>8. f \in 0..n
      BY <1>1
    <2> QED
      BY <2>2, <2>6, <2>7, <2>8 DEF Heard
  <1>6. ASSUME NEW f \in 0..n-1 PROVE right(f) = A[f]
    <2>1. \A x \in K : x[1] \in SpeakersIn(h) /\ x[2] \in SpeakersIn(r)
      OBVIOUS
    <2>2. \A x \in K : rs[x[2]] = Grid(r, x[2], n)
      BY <2>1
    <2>3. \A x \in K : has(x[1], f) <=> f \in Grid(h, x[1], n)
      <3> HIDE DEF has
      <3> QED
        BY <1>4, <2>1
    <2>4. {x \in K : f \in rs[x[2]] /\ has(x[1], f)} = RightAt(r, h, n, K, f)
      <3> HIDE DEF has, rs
      <3> QED
        BY <2>2, <2>3 DEF RightAt
    <2>5. right(f) = Cardinality({x \in K : f \in rs[x[2]] /\ has(x[1], f)})
      OBVIOUS
    <2>6. f \in 0..n
      BY <1>1
    <2> HIDE DEF right, has, rs
    <2> QED
      BY <2>4, <2>5, <2>6 DEF Rightly
  <1> HIDE DEF RS, HS, right
  <1>7. kept = keep /\ keep \in SUBSET (0..n-1) /\ IsFiniteSet(keep)
    <2>1. kept = keep
      BY <1>3 DEF KeptFrames
    <2>2. keep \in SUBSET (0..n-1)
      BY <2>1
    <2>3. IsFiniteSet(0..n-1)
      BY <1>1, FS_Interval
    <2> QED
      BY <2>1, <2>2, <2>3, FS_Subset
  <1> HIDE DEF kept
  <1>8. ASSUME NEW f \in keep
        PROVE  /\ f \in 0..n /\ RS[f] = R[f] /\ HS[f] = H[f] /\ right(f) = A[f]
               /\ R[f] \in Nat /\ H[f] \in Nat /\ A[f] \in Nat
    <2>1. f \in 0..n-1 /\ f \in 0..n
      BY <1>1, <1>7
    <2>2. R[f] \in Nat /\ H[f] \in Nat /\ A[f] \in Nat
      BY <1>1, <2>1, RightAreHeard
    <2> QED
      BY <1>3, <1>5, <1>6, <2>1, <2>2
  <1>9. SumFunction([f \in kept |-> RS[f]]) = SumFunctionOnSet(R, keep)
    <2> DEFINE g == [f \in kept |-> RS[f]]
    <2>1. \A f \in keep : g[f] = R[f] /\ g[f] \in Int /\ R[f] \in Int
      BY <1>7, <1>8
    <2>2. DOMAIN g = keep
      BY <1>7
    <2> HIDE DEF g
    <2>3. SumFunctionOnSet(g, keep) = SumFunctionOnSet(R, keep)
      BY <1>7, <2>1, SumsCompare
    <2>4. SumFunction(g) = SumFunctionOnSet(R, keep)
      BY <2>2, <2>3 DEF SumFunction
    <2> QED
      BY <2>4 DEF g
  <1>10. SumFunction([f \in kept |-> Max({0, RS[f] - HS[f]})]) = SumFunctionOnSet(Misses(R, H, n), keep)
    <2> DEFINE g == [f \in kept |-> Max({0, RS[f] - HS[f]})]
               e == Misses(R, H, n)
    <2>1. \A f \in keep : g[f] = Max({0, R[f] - H[f]}) /\ e[f] = Max({0, R[f] - H[f]})
      BY <1>7, <1>8 DEF Misses
    <2>2. \A f \in keep : Max({0, R[f] - H[f]}) \in Int
      <3> SUFFICES ASSUME NEW f \in keep PROVE Max({0, R[f] - H[f]}) \in Int
        OBVIOUS
      <3>1. PICK x \in Int, z \in Int : x = R[f] - H[f] /\ z = 0
        BY <1>8
      <3>2. Max({z, x}) \in {z, x}
        BY PairExtremes
      <3> QED
        BY <3>1, <3>2
    <2>3. DOMAIN g = keep
      BY <1>7
    <2> HIDE DEF g, e
    <2>4. SumFunctionOnSet(g, keep) = SumFunctionOnSet(e, keep)
      BY <1>7, <2>1, <2>2, SumsCompare
    <2>5. SumFunction(g) = SumFunctionOnSet(e, keep)
      BY <2>3, <2>4 DEF SumFunction
    <2> QED
      BY <2>5 DEF g, e
  <1>11. SumFunction([f \in kept |-> Max({0, HS[f] - RS[f]})]) = SumFunctionOnSet(Misses(H, R, n), keep)
    <2> DEFINE g == [f \in kept |-> Max({0, HS[f] - RS[f]})]
               e == Misses(H, R, n)
    <2>1. \A f \in keep : g[f] = Max({0, H[f] - R[f]}) /\ e[f] = Max({0, H[f] - R[f]})
      BY <1>7, <1>8 DEF Misses
    <2>2. \A f \in keep : Max({0, H[f] - R[f]}) \in Int
      <3> SUFFICES ASSUME NEW f \in keep PROVE Max({0, H[f] - R[f]}) \in Int
        OBVIOUS
      <3>1. PICK x \in Int, z \in Int : x = H[f] - R[f] /\ z = 0
        BY <1>8
      <3>2. Max({z, x}) \in {z, x}
        BY PairExtremes
      <3> QED
        BY <3>1, <3>2
    <2>3. DOMAIN g = keep
      BY <1>7
    <2> HIDE DEF g, e
    <2>4. SumFunctionOnSet(g, keep) = SumFunctionOnSet(e, keep)
      BY <1>7, <2>1, <2>2, SumsCompare
    <2>5. SumFunction(g) = SumFunctionOnSet(e, keep)
      BY <2>3, <2>4 DEF SumFunction
    <2> QED
      BY <2>5 DEF g, e
  <1>12. SumFunction([f \in kept |-> Min({RS[f], HS[f]}) - right(f)]) = SumFunctionOnSet(Confuses(R, H, A, n), keep)
    <2> DEFINE g == [f \in kept |-> Min({RS[f], HS[f]}) - right(f)]
               e == Confuses(R, H, A, n)
    <2>1. \A f \in keep : g[f] = Min({R[f], H[f]}) - A[f] /\ e[f] = Min({R[f], H[f]}) - A[f]
      BY <1>7, <1>8 DEF Confuses
    <2>2. \A f \in keep : Min({R[f], H[f]}) - A[f] \in Int
      <3> SUFFICES ASSUME NEW f \in keep PROVE Min({R[f], H[f]}) - A[f] \in Int
        OBVIOUS
      <3>1. PICK x \in Int, z \in Int : x = R[f] /\ z = H[f]
        BY <1>8
      <3>2. Min({x, z}) \in {x, z}
        BY PairExtremes
      <3>3. Min({R[f], H[f]}) \in Int /\ A[f] \in Int
        BY <1>8, <3>1, <3>2
      <3> QED
        BY <3>3
    <2>3. DOMAIN g = keep
      BY <1>7
    <2> HIDE DEF g, e
    <2>4. SumFunctionOnSet(g, keep) = SumFunctionOnSet(e, keep)
      BY <1>7, <2>1, <2>2, SumsCompare
    <2>5. SumFunction(g) = SumFunctionOnSet(e, keep)
      BY <2>3, <2>4 DEF SumFunction
    <2> QED
      BY <2>5 DEF g, e
  <1> QED
    BY <1>2, <1>9, <1>10, <1>11, <1>12

(* What is missed, raised in vain and confused in a frame. *)
PartsAre(R, H, A, n, f) ==
    /\ Misses(R, H, n)[f] \in Nat /\ Misses(H, R, n)[f] \in Nat /\ Confuses(R, H, A, n)[f] \in Nat
    /\ Max({R[f], H[f]}) \in Nat
    /\ Misses(R, H, n)[f] + Misses(H, R, n)[f] + Confuses(R, H, A, n)[f] = Max({R[f], H[f]}) - A[f]
    /\ Misses(H, R, n)[f] - Misses(R, H, n)[f] = H[f] - R[f]
    /\ (R[f] = 0 /\ H[f] = 0 => Max({R[f], H[f]}) = 0)
(* They are numbers, and add up to who is heard on the louder side and not right. *)
LEMMA FrameParts ==
    ASSUME NEW n, NEW R, NEW H, NEW A, NEW f \in 0..n, R[f] \in Nat, H[f] \in Nat, A[f] \in Nat,
           A[f] <= R[f], A[f] <= H[f]
    PROVE  PartsAre(R, H, A, n, f)
  <1>1. PICK a \in Nat, b \in Nat, c \in Nat : a = R[f] /\ b = H[f] /\ c = A[f]
    OBVIOUS
  <1>2. PICK x \in Int, y \in Int, z \in Int, i \in Int, j \in Int : x = a - b /\ y = b - a /\ z = 0 /\ i = a /\ j = b
    OBVIOUS
  <1>3. PICK d, e, g, k : d = Max({z, x}) /\ e = Max({z, y}) /\ g = Min({i, j}) /\ k = Max({i, j})
    OBVIOUS
  <1>4. d \in {z, x} /\ z <= d /\ x <= d
    BY <1>3, PairExtremes
  <1>5. e \in {z, y} /\ z <= e /\ y <= e
    BY <1>3, PairExtremes
  <1>6. g \in {i, j} /\ g <= i /\ g <= j /\ k \in {i, j} /\ i <= k /\ j <= k
    BY <1>3, PairExtremes
  <1>7. /\ d \in Nat /\ e \in Nat /\ g - c \in Nat /\ k \in Nat
        /\ d + e + (g - c) = k - c /\ e - d = b - a /\ (a = 0 /\ b = 0 => k = 0)
    BY ONLY <1>1, <1>2, <1>4, <1>5, <1>6, A[f] <= R[f], A[f] <= H[f]
  <1>8. Misses(R, H, n)[f] = d /\ Misses(H, R, n)[f] = e /\ Confuses(R, H, A, n)[f] = g - c /\ Max({R[f], H[f]}) = k
    BY <1>1, <1>2, <1>3 DEF Misses, Confuses
  <1> QED
    <2>1. d + e + (g - c) = Max({R[f], H[f]}) - A[f] /\ e - d = H[f] - R[f]
      BY <1>1, <1>7, <1>8
    <2>2. R[f] = 0 /\ H[f] = 0 => Max({R[f], H[f]}) = 0
      BY <1>1, <1>7, <1>8
    <2> QED
      BY <1>7, <1>8, <2>1, <2>2 DEF PartsAre

(* The frames in which the matched are right are those they share. *)
LEMMA RightIsShared ==
    ASSUME NEW r, NEW h, IsTurns(r), IsTurns(h), NEW n, n = FrameCount(r, h),
           NEW K \in SUBSET (SpeakersIn(h) \X SpeakersIn(r)), IsFiniteSet(K)
    PROVE  SumFunctionOnSet(Rightly(r, h, n, K), 0..n-1) = SumFunctionOnSet(SharedBy(r, h), K)
  <1> DEFINE rel == {z \in K \X (0..n-1) : z[2] \in Grid(r, z[1][2], n) /\ z[2] \in Grid(h, z[1][1], n)}
             A == Rightly(r, h, n, K)
             g == SharedBy(r, h)
  <1>1. PICK F : F = 0..n-1
    OBVIOUS
  <1>2. n \in Nat
    BY FrameCountIsEnough
  <1>3. IsFiniteSet(F) /\ \A f \in F : f \in 0..n
    BY <1>1, <1>2, FS_Interval
  <1>4. \A x \in K, f \in F : <<x, f>> \in rel <=> f \in Grid(r, x[2], n) /\ f \in Grid(h, x[1], n)
    BY <1>1
  <1> HIDE DEF rel
  <1>5. ASSUME NEW x \in K PROVE g[x] = Cardinality(SecondsOf(rel, F, x))
    <2>1. SecondsOf(rel, F, x) = Grid(h, x[1], n) \cap Grid(r, x[2], n)
      <3>1. Grid(h, x[1], n) \subseteq F
        BY <1>1 DEF Grid
      <3> QED
        BY <1>4, <3>1 DEF SecondsOf
    <2> QED
      BY <2>1 DEF SharedBy
  <1>6. ASSUME NEW f \in F PROVE A[f] = Cardinality(FirstsOf(rel, K, f))
    <2>1. FirstsOf(rel, K, f) = RightAt(r, h, n, K, f)
      BY <1>4 DEF FirstsOf, RightAt
    <2> QED
      BY <1>3, <2>1 DEF Rightly
  <1> HIDE DEF A, g
  <1>7. SumFunctionOnSet(g, K) = SumFunctionOnSet(A, F)
    BY <1>3, <1>5, <1>6, CountedTwice
  <1> QED
    BY <1>1, <1>7 DEF A, g

(* What ScoresAreRight says, of any turns and their score. *)
FramesOf(r, h) == 0..FrameCount(r, h)
Loudest(r, h) ==
    [f \in FramesOf(r, h) |-> Max({Heard(r, FrameCount(r, h))[f], Heard(h, FrameCount(r, h))[f]})]
Surplus(r, h) ==
    [f \in FramesOf(r, h) |-> Heard(h, FrameCount(r, h))[f] - Heard(r, FrameCount(r, h))[f]]
IsLeast(r, h, res) ==
    \A m \in SUBSET (SpeakersIn(h) \X SpeakersIn(r)) :
        OneToOne(m) => ErrorOf(res.collar0) <= SumFunctionOnSet(Loudest(r, h), FramesOf(r, h))
                                               - SumFunctionOnSet(SharedBy(r, h), m)
AddsUp(r, h, res) ==
    /\ res.collar0.total = SumFunctionOnSet(Heard(r, FrameCount(r, h)), FramesOf(r, h))
    /\ res.collar0.falseAlarm - res.collar0.missed = SumFunctionOnSet(Surplus(r, h), FramesOf(r, h))
NotNegative(res) == \A part \in {"collar0", "collar25", "noOverlap"} : res[part].confusion >= 0
LessOutside(res) == \A part \in DOMAIN res.noOverlap : res.noOverlap[part] <= res.collar25[part]

(* The last frame counted has no voice: a sum over the frames leaves it out. *)
LEMMA SumWithoutLast ==
    ASSUME NEW n \in Nat, NEW g, \A f \in 0..n : g[f] \in Int, g[n] = 0
    PROVE  SumFunctionOnSet(g, 0..n) = SumFunctionOnSet(g, 0..n-1)
  <1>1. PICK S : S = 0..n
    OBVIOUS
  <1>2. IsFiniteSet(S) /\ n \in S /\ S \ {n} = 0..n-1
    <2>1. (0..n) \ {n} = 0..n-1 /\ n \in 0..n
      OBVIOUS
    <2>2. IsFiniteSet(0..n)
      BY FS_Interval
    <2> QED
      BY <1>1, <2>1, <2>2
  <1>3. SumFunctionOnSet(g, S) = g[n] + SumFunctionOnSet(g, S \ {n})
    BY <1>1, <1>2, SumTakes
  <1>4. SumFunctionOnSet(g, S \ {n}) \in Int
    <2>1. IsFiniteSet(S \ {n})
      BY <1>2, FS_Subset
    <2> QED
      BY <1>1, <2>1, SumIsInt
  <1>5. SumFunctionOnSet(g, S) = SumFunctionOnSet(g, S \ {n})
    <2>1. PICK x \in Int : x = SumFunctionOnSet(g, S \ {n})
      BY <1>4
    <2>2. SumFunctionOnSet(g, S) = 0 + x
      BY <1>3, <2>1
    <2> QED
      BY <2>1, <2>2
  <1> QED
    BY <1>1, <1>2, <1>5


(* The sums of the parts. *)
Totals(F, M, L, C, X, A, D) ==
    /\ SumFunctionOnSet(M, F) + SumFunctionOnSet(L, F) + SumFunctionOnSet(C, F)
         = SumFunctionOnSet(X, F) - SumFunctionOnSet(A, F)
    /\ SumFunctionOnSet(L, F) - SumFunctionOnSet(M, F) = SumFunctionOnSet(D, F)
    /\ SumFunctionOnSet(A, F) \in Int /\ SumFunctionOnSet(X, F) \in Int
(* Parts that add up in each frame add up in all. *)
LEMMA PartsAddUp ==
    ASSUME NEW F, IsFiniteSet(F), NEW M, NEW L, NEW C, NEW X, NEW A, NEW D,
           \A f \in F : M[f] \in Int /\ L[f] \in Int /\ C[f] \in Int /\ X[f] \in Int /\ A[f] \in Int /\ D[f] \in Int,
           \A f \in F : M[f] + L[f] + C[f] = X[f] - A[f], \A f \in F : L[f] = D[f] + M[f]
    PROVE  Totals(F, M, L, C, X, A, D)
  <1>1. PICK E, T : E = [f \in F |-> M[f] + L[f]] /\ T = [f \in F |-> X[f] - A[f]]
    OBVIOUS
  <1>2. \A f \in F : E[f] = M[f] + L[f]
    BY <1>1
  <1>3. \A f \in F : T[f] = X[f] - A[f]
    BY <1>1
  <1>4. \A f \in F : E[f] \in Int /\ T[f] \in Int
    BY <1>2, <1>3
  <1>5. \A f \in F : T[f] = E[f] + C[f] /\ X[f] = T[f] + A[f]
    BY <1>2, <1>3
  <1>6. /\ SumFunctionOnSet(E, F) = SumFunctionOnSet(M, F) + SumFunctionOnSet(L, F)
        /\ SumFunctionOnSet(M, F) \in Int /\ SumFunctionOnSet(L, F) \in Int
    <2>1. \A f \in F : M[f] \in Int /\ L[f] \in Int
      OBVIOUS
    <2> QED
      BY ONLY IsFiniteSet(F), <1>2, <2>1, SumsAdd
  <1>7. /\ SumFunctionOnSet(T, F) = SumFunctionOnSet(E, F) + SumFunctionOnSet(C, F)
        /\ SumFunctionOnSet(C, F) \in Int
    <2>1. \A f \in F : E[f] \in Int /\ C[f] \in Int
      BY <1>4
    <2>2. \A f \in F : T[f] = E[f] + C[f]
      BY <1>5
    <2> QED
      BY ONLY IsFiniteSet(F), <2>1, <2>2, SumsAdd
  <1>8. /\ SumFunctionOnSet(X, F) = SumFunctionOnSet(T, F) + SumFunctionOnSet(A, F)
        /\ SumFunctionOnSet(X, F) \in Int /\ SumFunctionOnSet(T, F) \in Int /\ SumFunctionOnSet(A, F) \in Int
    <2>1. \A f \in F : T[f] \in Int /\ A[f] \in Int
      BY <1>4
    <2>2. \A f \in F : X[f] = T[f] + A[f]
      BY <1>5
    <2>3. /\ SumFunctionOnSet(X, F) = SumFunctionOnSet(T, F) + SumFunctionOnSet(A, F)
          /\ SumFunctionOnSet(T, F) \in Int /\ SumFunctionOnSet(A, F) \in Int /\ SumFunctionOnSet(X, F) \in Int
      BY ONLY IsFiniteSet(F), <2>1, <2>2, SumsAdd
    <2> QED
      BY <2>3
  <1>9. /\ SumFunctionOnSet(L, F) = SumFunctionOnSet(D, F) + SumFunctionOnSet(M, F)
        /\ SumFunctionOnSet(D, F) \in Int
    <2>1. \A f \in F : D[f] \in Int /\ M[f] \in Int
      OBVIOUS
    <2>2. \A f \in F : L[f] = D[f] + M[f]
      OBVIOUS
    <2> QED
      BY ONLY IsFiniteSet(F), <2>1, <2>2, SumsAdd
  <1> QED
    BY ONLY <1>6, <1>7, <1>8, <1>9 DEF Totals

(* The frames' parts, summed. *)
FrameSums(n, R, M, L, C, A, X, D, F) ==
    /\ SumFunctionOnSet(M, F) + SumFunctionOnSet(L, F) + SumFunctionOnSet(C, F)
         = SumFunctionOnSet(X, 0..n) - SumFunctionOnSet(A, F)
    /\ SumFunctionOnSet(L, F) - SumFunctionOnSet(M, F) = SumFunctionOnSet(D, 0..n)
    /\ SumFunctionOnSet(R, F) = SumFunctionOnSet(R, 0..n)
    /\ SumFunctionOnSet(A, F) \in Int /\ SumFunctionOnSet(X, 0..n) \in Int
    /\ \A f \in F : R[f] \in Nat /\ M[f] \in Nat /\ L[f] \in Nat /\ C[f] \in Nat
(* So do those of the frames. *)
LEMMA FramesAddUp ==
    ASSUME NEW n \in Nat, NEW R, NEW H, NEW A, NEW X, NEW D,
           \A f \in 0..n : /\ R[f] \in Nat /\ H[f] \in Nat /\ A[f] \in Nat
                           /\ A[f] <= R[f] /\ A[f] <= H[f]
                           /\ X[f] = Max({R[f], H[f]}) /\ D[f] = H[f] - R[f],
           R[n] = 0, H[n] = 0, NEW M, M = Misses(R, H, n), NEW L, L = Misses(H, R, n),
           NEW C, C = Confuses(R, H, A, n), NEW F, F = 0..n-1
    PROVE  FrameSums(n, R, M, L, C, A, X, D, F)
  <1>1. IsFiniteSet(F) /\ \A f \in F : f \in 0..n
    BY FS_Interval
  <1>2. ASSUME NEW f \in 0..n
        PROVE  /\ R[f] \in Nat /\ H[f] \in Nat /\ A[f] \in Nat
               /\ M[f] \in Nat /\ L[f] \in Nat /\ C[f] \in Nat /\ X[f] \in Nat /\ D[f] \in Int
               /\ M[f] + L[f] + C[f] = X[f] - A[f] /\ L[f] = D[f] + M[f]
               /\ (R[f] = 0 /\ H[f] = 0 => X[f] = 0 /\ D[f] = 0)
    <2>1. R[f] \in Nat /\ H[f] \in Nat /\ A[f] \in Nat /\ A[f] <= R[f] /\ A[f] <= H[f]
      OBVIOUS
    <2>2. X[f] = Max({R[f], H[f]}) /\ D[f] = H[f] - R[f]
      OBVIOUS
    <2>3. PartsAre(R, H, A, n, f)
      BY <2>1, FrameParts
    <2>4. /\ M[f] \in Nat /\ L[f] \in Nat /\ C[f] \in Nat /\ X[f] \in Nat
          /\ M[f] + L[f] + C[f] = X[f] - A[f]
          /\ L[f] - M[f] = H[f] - R[f]
          /\ (R[f] = 0 /\ H[f] = 0 => X[f] = 0)
      BY <2>2, <2>3 DEF PartsAre
    <2>5. PICK a, b, d, e, g : a = R[f] /\ b = H[f] /\ d = D[f] /\ e = L[f] /\ g = M[f]
      OBVIOUS
    <2>6. d \in Int /\ e = d + g /\ (a = 0 /\ b = 0 => d = 0)
      <3>1. a \in Nat /\ b \in Nat /\ e \in Nat /\ g \in Nat /\ d = b - a /\ e - g = b - a
        BY <2>1, <2>2, <2>4, <2>5
      <3> QED
        BY ONLY <3>1
    <2> QED
      BY <2>1, <2>4, <2>5, <2>6
  <1>3. X[n] = 0 /\ D[n] = 0
    <2>1. n \in 0..n
      OBVIOUS
    <2> QED
      BY <1>2, <2>1
  <1>4. SumFunctionOnSet(R, 0..n) = SumFunctionOnSet(R, F)
    <2>1. \A f \in 0..n : R[f] \in Int
      BY <1>2
    <2> QED
      BY <2>1, SumWithoutLast
  <1>5. SumFunctionOnSet(D, 0..n) = SumFunctionOnSet(D, F)
    <2>1. \A f \in 0..n : D[f] \in Int
      BY <1>2
    <2> QED
      BY <1>3, <2>1, SumWithoutLast
  <1>6. SumFunctionOnSet(X, 0..n) = SumFunctionOnSet(X, F)
    <2>1. \A f \in 0..n : X[f] \in Int
      BY <1>2
    <2> QED
      BY <1>3, <2>1, SumWithoutLast
  <1>7. Totals(F, M, L, C, X, A, D)
    <2>1. \A f \in F : M[f] \in Int /\ L[f] \in Int /\ C[f] \in Int /\ X[f] \in Int /\ A[f] \in Int /\ D[f] \in Int
      BY <1>1, <1>2
    <2>2. \A f \in F : M[f] + L[f] + C[f] = X[f] - A[f]
      BY <1>1, <1>2
    <2>3. \A f \in F : L[f] = D[f] + M[f]
      BY <1>1, <1>2
    <2>4. IsFiniteSet(F)
      BY <1>1
    <2> QED
      BY ONLY <2>1, <2>2, <2>3, <2>4, PartsAddUp
  <1>8. \A f \in F : R[f] \in Nat /\ M[f] \in Nat /\ L[f] \in Nat /\ C[f] \in Nat
    BY <1>1, <1>2
  <1> QED
    BY ONLY <1>4, <1>5, <1>6, <1>7, <1>8 DEF Totals, FrameSums

(* What the frames of a meeting sum to. *)
SumsAre(r, h, X, D, R, A, M, L, C, F) ==
    /\ SumFunctionOnSet(M, F) + SumFunctionOnSet(L, F) + SumFunctionOnSet(C, F)
         = SumFunctionOnSet(X, FramesOf(r, h)) - SumFunctionOnSet(A, F)
    /\ SumFunctionOnSet(L, F) - SumFunctionOnSet(M, F) = SumFunctionOnSet(D, FramesOf(r, h))
    /\ SumFunctionOnSet(R, F) = SumFunctionOnSet(R, FramesOf(r, h))
    /\ SumFunctionOnSet(A, F) \in Int /\ SumFunctionOnSet(X, FramesOf(r, h)) \in Int
    /\ \A f \in F : R[f] \in Nat /\ M[f] \in Nat /\ L[f] \in Nat /\ C[f] \in Nat
(* So it is for a meeting, its matching and its frames. *)
LEMMA FramesAreSummed ==
    ASSUME NEW r, NEW h, IsTurns(r), IsTurns(h), NEW n, n = FrameCount(r, h),
           NEW K \in SUBSET (SpeakersIn(h) \X SpeakersIn(r)), OneToOne(K),
           NEW R, R = Heard(r, n), NEW H, H = Heard(h, n), NEW A, A = Rightly(r, h, n, K),
           NEW M, M = Misses(R, H, n), NEW L, L = Misses(H, R, n), NEW C, C = Confuses(R, H, A, n),
           NEW F, F = 0..n-1
    PROVE  SumsAre(r, h, Loudest(r, h), Surplus(r, h), R, A, M, L, C, F)
  <1>1. PICK X, D : X = Loudest(r, h) /\ D = Surplus(r, h)
    OBVIOUS
  <1>2. n \in Nat /\ FramesOf(r, h) = 0..n
    BY FrameCountIsEnough DEF FramesOf
  <1>3. \A f \in 0..n : R[f] \in Nat /\ H[f] \in Nat /\ A[f] \in Nat /\ A[f] <= R[f] /\ A[f] <= H[f]
    BY <1>2, RightAreHeard
  <1>4. \A f \in 0..n : X[f] = Max({R[f], H[f]})
    BY <1>1, <1>2 DEF Loudest
  <1>5. \A f \in 0..n : D[f] = H[f] - R[f]
    BY <1>1, <1>2 DEF Surplus
  <1>6. R[n] = 0 /\ H[n] = 0
    <2>1. n \in 0..n /\ n \notin 0..n-1
      BY <1>2
    <2>2. HeardAt(r, n, n) = {} /\ HeardAt(h, n, n) = {}
      BY <2>1 DEF HeardAt, Grid
    <2>3. Cardinality(HeardAt(r, n, n)) = 0 /\ Cardinality(HeardAt(h, n, n)) = 0
      BY <2>2, FS_EmptySet
    <2> QED
      BY <2>1, <2>3 DEF Heard
  <1>7. \A f \in 0..n : /\ R[f] \in Nat /\ H[f] \in Nat /\ A[f] \in Nat
                        /\ A[f] <= R[f] /\ A[f] <= H[f]
                        /\ X[f] = Max({R[f], H[f]}) /\ D[f] = H[f] - R[f]
    BY <1>3, <1>4, <1>5
  <1>8. FrameSums(n, R, M, L, C, A, X, D, F)
    <2>1. M = Misses(R, H, n) /\ L = Misses(H, R, n) /\ C = Confuses(R, H, A, n) /\ F = 0..n-1 /\ n \in Nat
      BY <1>2
    <2> QED
      BY ONLY <1>6, <1>7, <2>1, FramesAddUp
  <1> QED
    BY <1>1, <1>2, <1>8 DEF SumsAre, FrameSums

(* A score of the frames kept, and without a collar of them all. *)
SumsOf(R, M, L, C, keep) ==
    [total      |-> SumFunctionOnSet(R, keep), missed    |-> SumFunctionOnSet(M, keep),
     falseAlarm |-> SumFunctionOnSet(L, keep), confusion |-> SumFunctionOnSet(C, keep)]
(* Without a collar, and with the overlaps, every frame is kept. *)
LEMMA AllAreKept ==
    ASSUME NEW r, NEW h, IsTurns(r), IsTurns(h)
    PROVE  KeptFrames(r, h, 0, FALSE) = 0..FrameCount(r, h)-1
  <1>1. PICK n \in Nat : n = FrameCount(r, h)
    BY FrameCountIsEnough
  <1>2. \A t \in Range(r) : t.start \in Nat /\ t.end \in Nat
    <2>1. r \in [1..Len(r) -> [speaker : Int, start : Nat, end : Nat]]
      BY SequencesAreFunctions DEF IsTurns
    <2> QED
      BY <2>1 DEF Range
  <1>3. ASSUME NEW f \in 0..n-1 PROVE ~Near(r, f, 0)
    <2>1. f \in Int
      BY <1>1
    <2>2. \A e \in Nat : ~(e - 0 <= f /\ f < e + 0)
      BY <2>1
    <2> QED
      BY <1>2, <2>2 DEF Near
  <1> QED
    BY <1>1, <1>3 DEF KeptFrames

(* The three scores of a meeting. *)
ScoredAs(r, h, K, collar, res) ==
    /\ res.collar0 = Score(r, h, K, 0, FALSE)
    /\ res.collar25 = Score(r, h, K, collar, FALSE)
    /\ res.noOverlap = Score(r, h, K, collar, TRUE)

(* A score, of a matching that is one to one, in the sums of its frames. *)
IsSums(res, R, M, L, C, F, near, alone) ==
    /\ res.collar0 = SumsOf(R, M, L, C, F)
    /\ res.collar25 = SumsOf(R, M, L, C, near)
    /\ res.noOverlap = SumsOf(R, M, L, C, alone)
    /\ near \in SUBSET F /\ alone \in SUBSET near /\ IsFiniteSet(F)
(* The three scores are of all frames, of those off the boundaries, and of those with one voice. *)
LEMMA ScoresAreSums ==
    ASSUME NEW r, NEW h, IsTurns(r), IsTurns(h), NEW n, n = FrameCount(r, h),
           NEW K \in SUBSET (SpeakersIn(h) \X SpeakersIn(r)), OneToOne(K), NEW collar, NEW res,
           ScoredAs(r, h, K, collar, res),
           NEW R, R = Heard(r, n), NEW H, H = Heard(h, n), NEW A, A = Rightly(r, h, n, K),
           NEW M, M = Misses(R, H, n), NEW L, L = Misses(H, R, n), NEW C, C = Confuses(R, H, A, n),
           NEW F, F = 0..n-1
    PROVE  IsSums(res, R, M, L, C, F, KeptFrames(r, h, collar, FALSE), KeptFrames(r, h, collar, TRUE))
  <1>1. ASSUME NEW co, NEW skip \in BOOLEAN
        PROVE  Score(r, h, K, co, skip) = SumsOf(R, M, L, C, KeptFrames(r, h, co, skip))
    <2>1. PICK keep : keep = KeptFrames(r, h, co, skip)
      OBVIOUS
    <2>2. Score(r, h, K, co, skip) =
             [total |-> SumFunctionOnSet(R, keep), missed |-> SumFunctionOnSet(Misses(R, H, n), keep),
              falseAlarm |-> SumFunctionOnSet(Misses(H, R, n), keep),
              confusion |-> SumFunctionOnSet(Confuses(R, H, A, n), keep)]
      BY <2>1, ScoreIs
    <2> QED
      BY <2>1, <2>2 DEF SumsOf
  <1>2. Score(r, h, K, 0, FALSE) = SumsOf(R, M, L, C, F)
    <2>1. KeptFrames(r, h, 0, FALSE) = F
      BY AllAreKept
    <2> QED
      BY <1>1, <2>1
  <1>3. /\ Score(r, h, K, collar, FALSE) = SumsOf(R, M, L, C, KeptFrames(r, h, collar, FALSE))
        /\ Score(r, h, K, collar, TRUE) = SumsOf(R, M, L, C, KeptFrames(r, h, collar, TRUE))
    BY <1>1
  <1>4. /\ KeptFrames(r, h, collar, FALSE) \in SUBSET F
        /\ KeptFrames(r, h, collar, TRUE) \in SUBSET KeptFrames(r, h, collar, FALSE)
    BY DEF KeptFrames
  <1>5. IsFiniteSet(F)
    <2>1. n \in Nat
      BY FrameCountIsEnough
    <2> QED
      BY <2>1, FS_Interval
  <1> QED
    BY <1>2, <1>3, <1>4, <1>5 DEF ScoredAs, IsSums

(* A score from the best matching is right. *)
LEMMA BestScoreIsRight ==
    ASSUME HInv, Assigned, NEW r, NEW h, IsTurns(r), IsTurns(h), weights = Shorter(Overlap(r, h)),
           NEW K, K = Mapped(r, h, PairsOf(Overlap(r, h))), NEW collar, NEW res, ScoredAs(r, h, K, collar, res)
    PROVE  IsLeast(r, h, res) /\ AddsUp(r, h, res) /\ NotNegative(res) /\ LessOutside(res)
  <1>1. ASSUME NEW m \in SUBSET (SpeakersIn(h) \X SpeakersIn(r)), OneToOne(m)
        PROVE  /\ SumFunctionOnSet(SharedBy(r, h), m) <= SumFunctionOnSet(SharedBy(r, h), K)
               /\ K \in SUBSET (SpeakersIn(h) \X SpeakersIn(r)) /\ OneToOne(K) /\ IsFiniteSet(K) /\ IsFiniteSet(m)
               /\ \A z \in SpeakersIn(h) \X SpeakersIn(r) : SharedBy(r, h)[z] \in Nat
    BY <1>1, MatchedShareMost
  <1>2. K \in SUBSET (SpeakersIn(h) \X SpeakersIn(r)) /\ OneToOne(K) /\ IsFiniteSet(K)
    <2>1. {} \in SUBSET (SpeakersIn(h) \X SpeakersIn(r)) /\ OneToOne({})
      BY DEF OneToOne
    <2> QED
      BY <1>1, <2>1
  <1>3. PICK n : n = FrameCount(r, h)
    OBVIOUS
  <1>4. PICK R, H, A : R = Heard(r, n) /\ H = Heard(h, n) /\ A = Rightly(r, h, n, K)
    OBVIOUS
  <1>5. PICK M, L, C : M = Misses(R, H, n) /\ L = Misses(H, R, n) /\ C = Confuses(R, H, A, n)
    OBVIOUS
  <1>6. PICK X, D : X = Loudest(r, h) /\ D = Surplus(r, h)
    OBVIOUS
  <1>7. PICK F : F = 0..n-1
    OBVIOUS
  <1>8. PICK near, alone : near = KeptFrames(r, h, collar, FALSE) /\ alone = KeptFrames(r, h, collar, TRUE)
    OBVIOUS
  <1>9. SumsAre(r, h, X, D, R, A, M, L, C, F)
    BY <1>2, <1>3, <1>4, <1>5, <1>6, <1>7, FramesAreSummed
  <1>10. IsSums(res, R, M, L, C, F, near, alone)
    BY <1>2, <1>3, <1>4, <1>5, <1>7, <1>8, ScoresAreSums
  <1>11. SumFunctionOnSet(A, F) = SumFunctionOnSet(SharedBy(r, h), K)
    BY <1>2, <1>3, <1>4, <1>7, RightIsShared
  <1>12. /\ near \in SUBSET F /\ alone \in SUBSET near /\ alone \in SUBSET F
         /\ IsFiniteSet(F) /\ IsFiniteSet(near) /\ IsFiniteSet(alone)
    <2>1. near \in SUBSET F /\ alone \in SUBSET near /\ IsFiniteSet(F)
      BY <1>10 DEF IsSums
    <2>2. IsFiniteSet(near) /\ alone \in SUBSET F
      BY <2>1, FS_Subset
    <2> QED
      BY <2>1, <2>2, FS_Subset
  <1>13. \A f \in F : R[f] \in Nat /\ M[f] \in Nat /\ L[f] \in Nat /\ C[f] \in Nat
    BY <1>9 DEF SumsAre
  <1>14. /\ res.collar0.total = SumFunctionOnSet(R, F) /\ res.collar0.missed = SumFunctionOnSet(M, F)
         /\ res.collar0.falseAlarm = SumFunctionOnSet(L, F) /\ res.collar0.confusion = SumFunctionOnSet(C, F)
    BY <1>10 DEF IsSums, SumsOf
  <1>15. NotNegative(res)
    <2>1. SumFunctionOnSet(C, F) \in Nat
      <3>1. \A f \in F : C[f] \in Nat
        BY <1>13
      <3> QED
        BY <1>12, <3>1, SumIsNat
    <2>2. SumFunctionOnSet(C, near) \in Nat
      <3>1. \A f \in near : C[f] \in Nat
        BY <1>12, <1>13
      <3> QED
        BY <1>12, <3>1, SumIsNat
    <2>3. SumFunctionOnSet(C, alone) \in Nat
      <3>1. \A f \in alone : C[f] \in Nat
        BY <1>12, <1>13
      <3> QED
        BY <1>12, <3>1, SumIsNat
    <2>4. res.collar25.confusion = SumFunctionOnSet(C, near) /\ res.noOverlap.confusion = SumFunctionOnSet(C, alone)
      BY <1>10 DEF IsSums, SumsOf
    <2>5. /\ res.collar0.confusion \in Nat /\ res.collar25.confusion \in Nat /\ res.noOverlap.confusion \in Nat
      BY <1>14, <2>1, <2>2, <2>3, <2>4
    <2>6. \A x \in Nat : x >= 0
      OBVIOUS
    <2>7. /\ res.collar0.confusion >= 0 /\ res.collar25.confusion >= 0 /\ res.noOverlap.confusion >= 0
      BY <2>5, <2>6
    <2>8. /\ res["collar0"].confusion >= 0 /\ res["collar25"].confusion >= 0 /\ res["noOverlap"].confusion >= 0
      BY <2>7
    <2> QED
      BY <2>8 DEF NotNegative
  <1>16. LessOutside(res)
    <2>1. /\ SumFunctionOnSet(R, alone) <= SumFunctionOnSet(R, near)
          /\ SumFunctionOnSet(M, alone) <= SumFunctionOnSet(M, near)
          /\ SumFunctionOnSet(L, alone) <= SumFunctionOnSet(L, near)
          /\ SumFunctionOnSet(C, alone) <= SumFunctionOnSet(C, near)
      <3>1. \A f \in near : R[f] \in Nat
        BY <1>12, <1>13
      <3>2. \A f \in near : M[f] \in Nat
        BY <1>12, <1>13
      <3>3. \A f \in near : L[f] \in Nat
        BY <1>12, <1>13
      <3>4. \A f \in near : C[f] \in Nat
        BY <1>12, <1>13
      <3>5. SumFunctionOnSet(R, alone) <= SumFunctionOnSet(R, near)
        BY <1>12, <3>1, SumOfSome
      <3>6. SumFunctionOnSet(M, alone) <= SumFunctionOnSet(M, near)
        BY <1>12, <3>2, SumOfSome
      <3>7. SumFunctionOnSet(L, alone) <= SumFunctionOnSet(L, near)
        BY <1>12, <3>3, SumOfSome
      <3>8. SumFunctionOnSet(C, alone) <= SumFunctionOnSet(C, near)
        BY <1>12, <3>4, SumOfSome
      <3> QED
        BY <3>5, <3>6, <3>7, <3>8
    <2>2. res.collar25 = SumsOf(R, M, L, C, near) /\ res.noOverlap = SumsOf(R, M, L, C, alone)
      BY <1>10 DEF IsSums
    <2>3. DOMAIN res.noOverlap = {"total", "missed", "falseAlarm", "confusion"}
      BY <2>2 DEF SumsOf
    <2>4. /\ res.noOverlap["total"] <= res.collar25["total"]
          /\ res.noOverlap["missed"] <= res.collar25["missed"]
          /\ res.noOverlap["falseAlarm"] <= res.collar25["falseAlarm"]
          /\ res.noOverlap["confusion"] <= res.collar25["confusion"]
      BY <2>1, <2>2 DEF SumsOf
    <2> QED
      BY <2>3, <2>4 DEF LessOutside
  <1>17. AddsUp(r, h, res)
    <2>1. /\ SumFunctionOnSet(L, F) - SumFunctionOnSet(M, F) = SumFunctionOnSet(D, FramesOf(r, h))
          /\ SumFunctionOnSet(R, F) = SumFunctionOnSet(R, FramesOf(r, h))
      BY <1>9 DEF SumsAre
    <2>2. R = Heard(r, FrameCount(r, h)) /\ D = Surplus(r, h)
      BY <1>3, <1>4, <1>6
    <2> QED
      BY <1>14, <2>1, <2>2 DEF AddsUp
  <1>18. IsLeast(r, h, res)
    <2> SUFFICES ASSUME NEW m \in SUBSET (SpeakersIn(h) \X SpeakersIn(r)), OneToOne(m)
                 PROVE  ErrorOf(res.collar0) <= SumFunctionOnSet(Loudest(r, h), FramesOf(r, h))
                                               - SumFunctionOnSet(SharedBy(r, h), m)
      BY DEF IsLeast
    <2>1. PICK x, y, z, e : /\ x = SumFunctionOnSet(Loudest(r, h), FramesOf(r, h))
                            /\ y = SumFunctionOnSet(A, F)
                            /\ z = SumFunctionOnSet(SharedBy(r, h), m)
                            /\ e = ErrorOf(res.collar0)
      OBVIOUS
    <2>2. x \in Int /\ y \in Int
      BY <1>6, <1>9, <2>1 DEF SumsAre
    <2>3. e = x - y
      <3>1. e = SumFunctionOnSet(M, F) + SumFunctionOnSet(L, F) + SumFunctionOnSet(C, F)
        BY <1>14, <2>1 DEF ErrorOf
      <3>2. SumFunctionOnSet(M, F) + SumFunctionOnSet(L, F) + SumFunctionOnSet(C, F) = x - y
        BY <1>6, <1>9, <2>1 DEF SumsAre
      <3> QED
        BY <3>1, <3>2
    <2>4. z <= y
      BY <1>1, <1>11, <2>1
    <2>5. z \in Nat
      <3>1. IsFiniteSet(m) /\ \A q \in m : SharedBy(r, h)[q] \in Nat
        BY <1>1
      <3> QED
        BY <2>1, <3>1, SumIsNat
    <2>6. e <= x - z
      BY ONLY <2>2, <2>3, <2>4, <2>5
    <2> QED
      BY <2>1, <2>6
  <1> QED
    BY <1>15, <1>16, <1>17, <1>18

(* A meeting's score, of the turns it is of. *)
RightScore(r, h, res) == IsLeast(r, h, res) /\ AddsUp(r, h, res) /\ NotNegative(res) /\ LessOutside(res)
ScoredRight == stage = "scored" => RightScore(ref, hyp, result)
Weighed == stage = "matching" => weights = Shorter(Overlap(ref, hyp))

(* What ScoresAreRight counts are the frames heard and shared. *)
LEMMA RightScoresAreRight ==
    ASSUME TurnsListed, ScoredRight
    PROVE  ScoresAreRight
  <1> SUFFICES ASSUME stage = "scored" PROVE ScoresAreRight
    BY DEF ScoresAreRight
  <1>1. PICK n \in Nat : n = FrameCount(ref, hyp)
    BY FrameCountIsEnough DEF TurnsListed
  <1> DEFINE R == Spoken(ref)
             H == Spoken(hyp)
  <1>2. DOMAIN R = SpeakersIn(ref) /\ \A s \in SpeakersIn(ref) : R[s] = Grid(ref, s, n)
    BY <1>1 DEF Spoken, SpeakersIn
  <1>3. DOMAIN H = SpeakersIn(hyp) /\ \A s \in SpeakersIn(hyp) : H[s] = Grid(hyp, s, n)
    BY <1>1 DEF Spoken, SpeakersIn
  <1> HIDE DEF R, H
  <1>4. \A f : Voices(R, f) = Cardinality(HeardAt(ref, n, f)) /\ Voices(H, f) = Cardinality(HeardAt(hyp, n, f))
    <2> SUFFICES ASSUME NEW f
                 PROVE  /\ Voices(R, f) = Cardinality(HeardAt(ref, n, f))
                        /\ Voices(H, f) = Cardinality(HeardAt(hyp, n, f))
      OBVIOUS
    <2>1. {s \in DOMAIN R : f \in R[s]} = HeardAt(ref, n, f) /\ {s \in DOMAIN H : f \in H[s]} = HeardAt(hyp, n, f)
      BY <1>2, <1>3 DEF HeardAt
    <2> QED
      BY <2>1 DEF Voices
  <1>5. \A f \in 0..n : Heard(ref, n)[f] = Voices(R, f) /\ Heard(hyp, n)[f] = Voices(H, f)
    BY <1>4 DEF Heard
  <1>6. SumFunction([f \in 0..n |-> Max({Voices(R, f), Voices(H, f)})]) = SumFunctionOnSet(Loudest(ref, hyp), FramesOf(ref, hyp))
    <2>1. [f \in 0..n |-> Max({Voices(R, f), Voices(H, f)})] = Loudest(ref, hyp)
      BY <1>1, <1>5 DEF Loudest, FramesOf
    <2>2. DOMAIN Loudest(ref, hyp) = FramesOf(ref, hyp)
      BY DEF Loudest
    <2> QED
      BY <2>1, <2>2 DEF SumFunction
  <1>7. SumFunction([f \in 0..n |-> Voices(R, f)]) = SumFunctionOnSet(Heard(ref, n), FramesOf(ref, hyp))
    <2>1. [f \in 0..n |-> Voices(R, f)] = Heard(ref, n)
      BY <1>4 DEF Heard
    <2>2. DOMAIN Heard(ref, n) = FramesOf(ref, hyp)
      BY <1>1 DEF Heard, FramesOf
    <2> QED
      BY <2>1, <2>2 DEF SumFunction
  <1>8. SumFunction([f \in 0..n |-> Voices(H, f) - Voices(R, f)]) = SumFunctionOnSet(Surplus(ref, hyp), FramesOf(ref, hyp))
    <2>1. [f \in 0..n |-> Voices(H, f) - Voices(R, f)] = Surplus(ref, hyp)
      BY <1>1, <1>5 DEF Surplus, FramesOf
    <2>2. DOMAIN Surplus(ref, hyp) = FramesOf(ref, hyp)
      BY DEF Surplus
    <2> QED
      BY <2>1, <2>2 DEF SumFunction
  <1>9. ASSUME NEW m \in Matchings
        PROVE  /\ m \in SUBSET (SpeakersIn(hyp) \X SpeakersIn(ref)) /\ OneToOne(m)
               /\ SumFunction([x \in m |-> Cardinality(H[x[1]] \cap R[x[2]])]) = SumFunctionOnSet(SharedBy(ref, hyp), m)
    <2>1. m \in SUBSET (SpeakersIn(hyp) \X SpeakersIn(ref)) /\ OneToOne(m)
      BY DEF Matchings, SpeakersIn, OneToOne
    <2>2. IsFiniteSet(m)
      <3>1. IsFiniteSet(SpeakersIn(hyp)) /\ IsFiniteSet(SpeakersIn(ref))
        BY SpeakersAreListed DEF TurnsListed
      <3>2. IsFiniteSet(SpeakersIn(hyp) \X SpeakersIn(ref))
        BY <3>1, FS_Product
      <3> QED
        BY <2>1, <3>2, FS_Subset
    <2> DEFINE g == [x \in m |-> Cardinality(H[x[1]] \cap R[x[2]])]
    <2>3. \A x \in m : g[x] = SharedBy(ref, hyp)[x]
      BY <1>1, <1>2, <1>3, <2>1 DEF SharedBy
    <2>4. \A x \in m : SharedBy(ref, hyp)[x] \in Int
      <3> SUFFICES ASSUME NEW x \in m PROVE SharedBy(ref, hyp)[x] \in Int
        OBVIOUS
      <3>1. SharedBy(ref, hyp)[x] = Cardinality(Grid(hyp, x[1], n) \cap Grid(ref, x[2], n))
        BY <1>1, <2>1 DEF SharedBy
      <3>2. PICK F : F = 0..n-1
        OBVIOUS
      <3>3. IsFiniteSet(F) /\ Grid(hyp, x[1], n) \cap Grid(ref, x[2], n) \in SUBSET F
        BY <3>2, FS_Interval DEF Grid
      <3>4. Cardinality(Grid(hyp, x[1], n) \cap Grid(ref, x[2], n)) \in Nat
        BY <3>3, FS_Subset, FS_CardinalityType
      <3> QED
        BY <3>1, <3>4
    <2>5. DOMAIN g = m
      OBVIOUS
    <2> HIDE DEF g
    <2>6. SumFunctionOnSet(g, m) = SumFunctionOnSet(SharedBy(ref, hyp), m)
      BY <2>2, <2>3, <2>4, SumsCompare
    <2>7. SumFunction(g) = SumFunctionOnSet(SharedBy(ref, hyp), m)
      BY <2>5, <2>6 DEF SumFunction
    <2> QED
      BY <2>1, <2>7 DEF g
  <1>10. RightScore(ref, hyp, result)
    BY DEF ScoredRight
  <1>11. \A m \in Matchings : ErrorOf(result.collar0)
            <= SumFunction([f \in 0..n |-> Max({Voices(R, f), Voices(H, f)})])
               - SumFunction([x \in m |-> Cardinality(H[x[1]] \cap R[x[2]])])
    <2> SUFFICES ASSUME NEW m \in Matchings
                 PROVE  ErrorOf(result.collar0)
                           <= SumFunction([f \in 0..n |-> Max({Voices(R, f), Voices(H, f)})])
                              - SumFunction([x \in m |-> Cardinality(H[x[1]] \cap R[x[2]])])
      OBVIOUS
    <2>1. ErrorOf(result.collar0) <= SumFunctionOnSet(Loudest(ref, hyp), FramesOf(ref, hyp))
                                     - SumFunctionOnSet(SharedBy(ref, hyp), m)
      BY <1>9, <1>10 DEF RightScore, IsLeast
    <2> QED
      BY <1>6, <1>9, <2>1
  <1>12. /\ result.collar0.total = SumFunction([f \in 0..n |-> Voices(R, f)])
         /\ result.collar0.falseAlarm - result.collar0.missed
              = SumFunction([f \in 0..n |-> Voices(H, f) - Voices(R, f)])
    BY <1>1, <1>7, <1>8, <1>10 DEF RightScore, AddsUp
  <1>13. /\ \A part \in {"collar0", "collar25", "noOverlap"} : result[part].confusion >= 0
         /\ \A part \in DOMAIN result.noOverlap : result.noOverlap[part] <= result.collar25[part]
    BY <1>10 DEF RightScore, NotNegative, LessOutside
  <1> HIDE DEF ScoresAreRight
  <1> QED
    BY <1>1, <1>11, <1>12, <1>13 DEF ScoresAreRight, R, H

(* Scoring the best matching makes the score right; *)
LEMMA ScoresKeeps ==
    ASSUME TurnsListed, HInv, Weighed, Scores
    PROVE  ScoredRight'
  <1>1. PICK K : K = Mapped(ref, hyp, PairsOf(Overlap(ref, hyp)))
    OBVIOUS
  <1>2. PICK scored, more : scored = Scored(ref, hyp, K, Collar, Short) /\ more = People
    OBVIOUS
  <1>3. stage = "matching" /\ Assigned /\ result' = Beside(scored, more) /\ ref' = ref /\ hyp' = hyp
    BY <1>1, <1>2 DEF Scores
  <1>4. /\ scored.collar0 = Score(ref, hyp, K, 0, FALSE) /\ scored.collar25 = Score(ref, hyp, K, Collar, FALSE)
        /\ scored.noOverlap = Score(ref, hyp, K, Collar, TRUE)
        /\ DOMAIN scored = {"collar0", "collar25", "noOverlap", "segments"}
    BY <1>2 DEF Scored
  <1>5. result'.collar0 = scored.collar0 /\ result'.collar25 = scored.collar25 /\ result'.noOverlap = scored.noOverlap
    BY <1>3, <1>4 DEF Beside
  <1>6. ScoredAs(ref, hyp, K, Collar, result')
    BY <1>4, <1>5 DEF ScoredAs
  <1>7. IsTurns(ref) /\ IsTurns(hyp) /\ weights = Shorter(Overlap(ref, hyp))
    BY <1>3 DEF TurnsListed, Weighed
  <1>8. RightScore(ref, hyp, result')
    BY <1>1, <1>3, <1>6, <1>7, BestScoreIsRight DEF RightScore
  <1> QED
    BY <1>3, <1>8 DEF ScoredRight

(* no other step scores, and the weights stay those of the turns. *)
LEMMA ScoredKeeps ==
    ASSUME TurnsListed, HInv, Weighed, ScoredRight, [Next]_vars
    PROVE  Weighed' /\ ScoredRight'
  <1>1. CASE Extracts \/ ClustersWhole \/ ClustersPiece \/ Joins \/ LinksPieces \/ Floors \/ Reconstructs
    <2>1. stage' \notin {"matching", "scored"}
      BY <1>1 DEF Extracts, ClustersWhole, ClustersPiece, Joins, LinksPieces, Floors, Reconstructs
    <2> QED
      BY <2>1 DEF Weighed, ScoredRight
  <1>2. CASE Matches
    BY <1>2 DEF Matches, Begin, Weighed, ScoredRight
  <1>3. CASE Assigns
    <2>1. weights' = weights /\ stage' = stage /\ ref' = ref /\ hyp' = hyp /\ stage = "matching"
      BY <1>3 DEF Assigns, AssignNext, Insert, Grow, Augment
    <2> QED
      BY <2>1 DEF Weighed, ScoredRight
  <1>4. CASE Scores
    <2>1. stage' = "scored"
      BY <1>4 DEF Scores
    <2> QED
      BY <1>4, <2>1, ScoresKeeps DEF Weighed
  <1>5. CASE UNCHANGED vars
    <2>1. weights' = weights /\ stage' = stage /\ ref' = ref /\ hyp' = hyp /\ result' = result
      BY <1>5 DEF vars, assigning
    <2> QED
      BY <2>1 DEF Weighed, ScoredRight
  <1> QED
    BY <1>1, <1>2, <1>3, <1>4, <1>5 DEF Next, Ended

(* der.py's score is right (ScoresAreRight), for every reference and hypothesis: its error is the     *)
(* least any one to one matching of the speakers leaves over the whole recording, missed and false    *)
(* alarm differ as the voices do, no frame confuses fewer than none, and what is counted outside      *)
(* overlaps is part of what is counted with a collar.                                                    *)
THEOREM ScoresStayRight == Spec => []ScoresAreRight
  <1>1. Init => Weighed /\ ScoredRight
    BY DEF Init, Weighed, ScoredRight
  <1>2. TurnsListed /\ HInv /\ Weighed /\ ScoredRight /\ [Next]_vars => Weighed' /\ ScoredRight'
    BY ScoredKeeps
  <1>3. TurnsListed => IsTurns(ref) /\ IsTurns(hyp)
    BY DEF TurnsListed
  <1>4. Spec => []HInv
    BY <1>3, TurnsAreListed, TurnsAreMatched, PTL
  <1>5. TurnsListed /\ ScoredRight => ScoresAreRight
    BY RightScoresAreRight
  <1> QED
    BY <1>1, <1>2, <1>4, <1>5, TurnsAreListed, PTL DEF Spec
=============================================================================
