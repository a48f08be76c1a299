------------------------------- MODULE Assign -------------------------------
(* der.assign: speakers of a hypothesis paired with those of the reference, one *)
(* to one, for the largest total weight (the Hungarian method on the negated    *)
(* matrix), one look of its two loops at a time.                                *)
EXTENDS Integers, FiniteSets, FiniteSetsExt, Functions

Nowhere == 0 - 1        \* no row is being inserted

VARIABLES
    weights,        \* row |-> column |-> weight: fixed
    row,            \* rows inserted so far
    j0,             \* the column the search or the way back is at
    back,           \* the way back from a free column
    u, v,           \* prices of rows and columns
    p,              \* column |-> the row that has it, 0 for none
    way,            \* column |-> the one before it on the cheapest path
    minv, used      \* the search's distances, and the columns it has settled
hungarian == <<row, j0, back, u, v, p, way, minv, used>>

Rows == DOMAIN weights
Columns == IF Rows = {} THEN {} ELSE DOMAIN weights[1]

(* The shorter side is the rows.                                                *)
Transposed(w) == [j \in DOMAIN w[1] |-> [i \in DOMAIN w |-> w[i][j]]]
Turned(w) == DOMAIN w # {} /\ Cardinality(DOMAIN w) > Cardinality(DOMAIN w[1])
Shorter(w) == IF Turned(w) THEN Transposed(w) ELSE w

Big == Max(UNION {Range(weights[k]) : k \in Rows})
Cost(i, j) == Big - weights[i][j]
INF == 100 * (Big + 1)      \* in place of float("inf")

Slots == 0..Cardinality(Columns)        \* the columns, and one for the row that is inserted
Zeros(n) == [k \in 0..n |-> 0]
AssignInit ==
    /\ weights = <<>>
    /\ row = 0 /\ j0 = Nowhere /\ back = FALSE /\ used = {}
    /\ u = Zeros(0) /\ v = Zeros(0) /\ p = Zeros(0) /\ way = Zeros(0) /\ minv = Zeros(0)

Begin(w) ==
    /\ weights' = Shorter(w)
    /\ row' = 0 /\ j0' = Nowhere /\ back' = FALSE /\ used' = {}
    /\ u' = Zeros(Cardinality(Rows'))
    /\ LET m == Cardinality(Columns')
       IN  v' = Zeros(m) /\ p' = Zeros(m) /\ way' = Zeros(m) /\ minv' = Zeros(m)

Insert ==
    /\ j0 = Nowhere /\ row < Cardinality(Rows)
    /\ row' = row + 1
    /\ j0' = 0
    /\ p' = [p EXCEPT ![0] = row + 1]
    /\ minv' = [k \in Slots |-> INF]
    /\ used' = {}
    /\ UNCHANGED <<weights, back, u, v, way>>

(* The search settles the column it is at and goes on to the cheapest other, the *)
(* lowest among equals.                                                          *)
\* Slip: the price of the column left out.
ReducedByRow(j) == Cost(p[j0], j) - u[p[j0]]

Reduced(j) == Cost(p[j0], j) - u[p[j0]] - v[j]

Grow ==
    /\ j0 # Nowhere /\ ~back
    /\ LET settled == used \cup {j0}
           open == Columns \ settled
           near == [j \in Slots |-> IF j \in open /\ Reduced(j) < minv[j] THEN Reduced(j) ELSE minv[j]]
           delta == Min({near[j] : j \in open})
           j1 == Min({j \in open : near[j] = delta})
       IN  /\ used' = settled
           /\ way' = [j \in Slots |-> IF j \in open /\ Reduced(j) < minv[j] THEN j0 ELSE way[j]]
           /\ u' = [i \in DOMAIN u |-> u[i] + IF \E j \in settled : p[j] = i THEN delta ELSE 0]
           /\ v' = [j \in Slots |-> IF j \in settled THEN v[j] - delta ELSE v[j]]
           /\ minv' = [j \in Slots |-> IF j \in settled THEN near[j] ELSE near[j] - delta]
           /\ j0' = j1
           /\ back' = (p[j1] = 0)
    /\ UNCHANGED <<weights, row, p>>

(* Back along the path, every row on it moves to the next column.                *)
Augment ==
    /\ back
    /\ p' = [p EXCEPT ![j0] = p[way[j0]]]
    /\ j0' = IF way[j0] = 0 THEN Nowhere ELSE way[j0]
    /\ back' = (way[j0] # 0)
    /\ UNCHANGED <<weights, row, u, v, way, minv, used>>

AssignNext == Insert \/ Grow \/ Augment
Assigned == j0 = Nowhere /\ row = Cardinality(Rows)

(* Pairs of zero weight are left out.                                            *)
Pairs == {<<p[j], j>> : j \in {k \in Columns : p[k] # 0}}
KeptPairs == {pair \in Pairs : weights[pair[1]][pair[2]] > 0}
PairsOf(w) == IF Turned(w) THEN {<<pair[2], pair[1]>> : pair \in KeptPairs} ELSE KeptPairs

-----------------------------------------------------------------------------
(* The rows inserted so far have the columns that are best for them, whatever    *)
(* the order of the search: one to one, and no other way to place these rows      *)
(* weighs more.                                                                   *)
WeightOf(place) == SumFunction([i \in DOMAIN place |-> weights[i][place[i]]])
Placed == {p[j] : j \in Columns} \ {0}
PlaceOf(i) == CHOOSE j \in Columns : p[j] = i
BestSoFar ==
    j0 = Nowhere =>
      /\ Placed = 1..row
      /\ \A j, k \in Columns : p[j] = p[k] /\ p[j] # 0 => j = k
      /\ \A other \in Injection(1..row, Columns) :
           WeightOf(other) <= WeightOf([i \in 1..row |-> PlaceOf(i)])
=============================================================================
