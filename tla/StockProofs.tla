----------------------------- MODULE StockProofs -----------------------------
(***************************************************************************)
(* The stock ledger, for any number of requests, orders, ingredients and   *)
(* batches.  What a transaction computed under the row lock of an          *)
(* ingredient is still true when it commits, because only the holder of    *)
(* the lock writes the batches and the movements of that ingredient        *)
(* (HoldsItsLocks).  Sums are counted unit by unit.                            *)
(***************************************************************************)
EXTENDS Stock, FiniteSetTheorems, FunctionTheorems, SequenceTheorems,
        WellFoundedInduction, TLAPS

PoRow == [status : PoStatus, got : [Ingredients -> Int]]

BatchRow == [of : Ingredients \cup {None}, got : Int, left : Int]

StockJob == [kind : Kinds, order : Orders \cup {None}, po : Purchases \cup {None},
             qty : [Ingredients -> Int], todo : Seq(Ingredients),
             read : [Ingredients -> Int], seen : SUBSET Ingredients,
             split : [Ingredients -> [Places -> Int]], had : [Batches -> Int],
             was : PoRow \cup {None}, next : PoStatus \cup {None}]

PerPlace == [Orders -> [Ingredients -> [Places -> Int]]]

TypeOK ==
    /\ stock \in [Ingredients -> Int] /\ moved \in [Ingredients -> Int]
    /\ batch \in [Batches -> BatchRow] /\ drawn \in [Batches -> Int]
    /\ sold \in PerPlace /\ back \in PerPlace
    /\ bill \in [Orders -> {"OPEN", "PAID"}]
    /\ po \in [Purchases -> PoRow]
    /\ delivered \in [Purchases -> [Ingredients -> Int]]
    /\ row \in [Ingredients -> Workers \cup {None}]
    /\ job \in [Workers -> StockJob \cup {NoJob}]
    /\ made \in Nat

Running(w) == job[w] # NoJob

-----------------------------------------------------------------------------
(* What holds of a transaction j of worker w until it ends *)

\* What a request of each kind asks for.
JobSound(j) ==
    /\ j.kind \in {"sale", "return"} => j.order \in Orders
    /\ j.kind = "sale" => \A i \in Ingredients : j.qty[i] = -Need[j.order][i]
    /\ j.kind = "waste" => \A i \in Ingredients : j.qty[i] <= 0
    /\ j.kind = "receipt" => \A i \in Ingredients : j.qty[i] >= 0
    /\ j.kind = "status" => j.po # None /\ j.next \in {"SENT", "CANCELLED"}
    /\ j.po # None => j.kind \in {"receipt", "status"} /\ j.was \in PoRow
    /\ j.kind = "receipt" /\ j.po # None => j.was.status # "RECEIVED"

\* What it read of a purchase order has been delivered.
ReadDelivered(j) ==
    j.po # None => \A i \in Ingredients : j.was.got[i] <= delivered[j.po][i]

\* It writes only what it has locked, and knows the batches it has locked.
HoldsItsLocks(w, j) ==
    \A i \in Ingredients :
      /\ \A p \in Places : j.split[i][p] # 0 => row[i] = w
      /\ i \in Inward(j) => row[i] = w \/ i \in Range(j.todo)
      /\ row[i] = w => \A b \in Batches : batch[b].of = i => j.had[b] = batch[b].left

\* It takes from a batch what is there, and gives back what is out.
TakesWhatIsThere(j) ==
    \A i \in Ingredients :
      /\ \A b \in Batches :
           /\ j.split[i][b] # 0 => batch[b].of = i
           /\ j.kind # "return" => j.split[i][b] \in 0 .. j.had[b]
      /\ j.kind # "return" => j.split[i][Rest] >= 0
      /\ j.kind = "return" => \A p \in Places : j.split[i][p] \in 0 .. Room(j.order, i)[p]

\* A sale takes what its plan says.
FollowsThePlan(j) ==
    j.kind = "sale" => \A i \in Ingredients :
      i \in Range(j.todo) \/ Total(j.split[i], Places) = Need[j.order][i]

JobFits(w, j) ==
    /\ JobSound(j) /\ ReadDelivered(j) /\ HoldsItsLocks(w, j)
    /\ TakesWhatIsThere(j) /\ FollowsThePlan(j)

JobsFit == \A w \in Workers : Running(w) => \E j \in {job[w]} : JobFits(w, j)

LocksOwned == \A i \in Ingredients : row[i] # None => Running(row[i])

-----------------------------------------------------------------------------
(* What holds of the rows *)

\* There is a number for every batch that was promised.
BatchesPromised == Cardinality(Promised) <= Cardinality(Free)

\* What the orders took from a batch and have not given back.
OutOf(b) == [o \in Orders |-> Room(o, batch[b].of)[b]]

BatchesSound ==
    /\ \A b, c \in Batches : b \in Free /\ b <= c => c \in Free
    /\ \A b \in Batches :
         /\ batch[b].left = batch[b].got - drawn[b] /\ batch[b].left >= 0
         /\ batch[b].of = None => batch[b].got = 0 /\ batch[b].left = 0
         /\ batch[b].of # None => Total(OutOf(b), Orders) <= drawn[b]
         /\ \A o \in Orders, i \in Ingredients : batch[b].of # i =>
              sold[o][i][b] = 0 /\ back[o][i][b] = 0

OrdersSound ==
    \A o \in Orders, i \in Ingredients :
      /\ bill[o] = "OPEN" => \A p \in Places : sold[o][i][p] = 0
      /\ bill[o] = "PAID" => Total(sold[o][i], Places) = Need[o][i]
      /\ \A p \in Places : back[o][i][p] \in 0 .. sold[o][i][p]

DeliveriesCount ==
    \A p \in Purchases, i \in Ingredients :
      /\ po[p].got[i] <= delivered[p][i]
      /\ po[p].status = "RECEIVED" => Ordered[p][i] <= po[p].got[i]

RowsSound == BatchesSound /\ OrdersSound /\ DeliveriesCount

StockInv == TypeOK /\ JobsFit /\ LocksOwned /\ BatchesPromised /\ RowsSound

-----------------------------------------------------------------------------
(* Sums, unit by unit *)

LEMMA UnitsAreFinite ==
    ASSUME NEW S, IsFiniteSet(S), NEW f, \A p \in S : f[p] \in Int
    PROVE  IsFiniteSet(Units(f, S)) /\ Total(f, S) \in Nat
<1> DEFINE box(p) == {p} \X (1 .. f[p])
           g == [p \in S |-> box(p)]
           boxes == {box(p) : p \in S}
<1>1. \A p \in S : IsFiniteSet(box(p))
  <2> SUFFICES ASSUME NEW p \in S PROVE IsFiniteSet(box(p))
    OBVIOUS
  <2>1. IsFiniteSet({p})
    BY FS_Singleton
  <2>2. IsFiniteSet(1 .. f[p])
    BY FS_Interval
  <2> QED
    BY <2>1, <2>2, FS_Product
<1>2. g \in Surjection(S, boxes)
  <2>1. g \in [S -> boxes] /\ \A t \in boxes : \E s \in S : g[s] = t
    BY Zenon
  <2> HIDE DEF g, boxes
  <2> QED
    BY <2>1 DEF Surjection
<1> HIDE DEF box, g, boxes
<1>3. IsFiniteSet(boxes)
  BY <1>2, FS_Surjection
<1>4. \A T \in boxes : IsFiniteSet(T)
  BY <1>1 DEF boxes
<1>5. IsFiniteSet(UNION boxes)
  BY <1>3, <1>4, FS_UNION
<1>6. UNION boxes = Units(f, S)
  BY DEF boxes, box, Units
<1> QED
  BY <1>5, <1>6, FS_CardinalityType DEF Total

LEMMA OneMorePlace ==
    ASSUME NEW S, IsFiniteSet(S), NEW r, r \notin S,
           NEW f, \A p \in S \cup {r} : f[p] \in Int
    PROVE  Total(f, S \cup {r}) = Total(f, S) + Pos(f[r])
<1> DEFINE box == {r} \X (1 .. f[r])
           old == Units(f, S)
<1>1. IsFiniteSet(old) /\ Cardinality(old) \in Nat
  BY UnitsAreFinite DEF Total
<1>2. IsFiniteSet({r}) /\ Cardinality({r}) = 1
  BY FS_Singleton
<1>3. IsFiniteSet(1 .. f[r]) /\ Cardinality(1 .. f[r]) = Pos(f[r])
  BY FS_Interval DEF Pos
<1>4. IsFiniteSet(box) /\ Cardinality(box) = Cardinality({r}) * Cardinality(1 .. f[r])
  BY <1>2, <1>3, FS_Product
<1>5. Cardinality(box) = Pos(f[r]) /\ Pos(f[r]) \in Nat
  BY <1>2, <1>3, <1>4 DEF Pos
<1>6. old \cap box = {}
  BY DEF Units
<1>7. Units(f, S \cup {r}) = old \cup box
  BY DEF Units
<1> HIDE DEF old, box
<1>8. Cardinality(old \cup box) = Cardinality(old) + Cardinality(box) - Cardinality(old \cap box)
  BY <1>1, <1>4, FS_Union
<1>9. Cardinality(old \cap box) = 0
  BY <1>6, FS_EmptySet
<1>10. Total(f, S) = Cardinality(old)
  BY DEF old, Total
<1>11. Cardinality(old \cup box) = Cardinality(old) + Pos(f[r])
  BY <1>1, <1>5, <1>8, <1>9
<1>12. Total(f, S \cup {r}) = Cardinality(old \cup box)
  BY <1>7, Zenon DEF Total
<1> QED
  BY <1>10, <1>11, <1>12, Zenon

LEMMA SameTotal ==
    ASSUME NEW S, NEW f, NEW g, \A p \in S : f[p] = g[p]
    PROVE  Total(f, S) = Total(g, S)
<1>1. Units(f, S) = Units(g, S)
  BY DEF Units
<1> QED
  BY <1>1 DEF Total

LEMMA OnePlaceChanges ==
    ASSUME NEW S, IsFiniteSet(S), NEW r \in S, NEW f, NEW g,
           \A p \in S : f[p] \in Nat /\ g[p] \in Nat,
           \A p \in S \ {r} : f[p] = g[p]
    PROVE  Total(g, S) = Total(f, S) + (g[r] - f[r])
<1> DEFINE R == S \ {r}
<1>1. /\ IsFiniteSet(R) /\ r \notin R
      /\ \A p \in R \cup {r} : f[p] \in Int /\ g[p] \in Int
  BY FS_RemoveElement
<1>2. Total(f, R) = Total(g, R)
  BY SameTotal
<1>3. R \cup {r} = S
  OBVIOUS
<1> HIDE DEF R
<1>4. Total(f, R \cup {r}) = Total(f, R) + Pos(f[r])
  BY <1>1, OneMorePlace
<1>5. Total(g, R \cup {r}) = Total(g, R) + Pos(g[r])
  BY <1>1, OneMorePlace
<1>6. Total(f, R) \in Nat
  BY <1>1, UnitsAreFinite
<1>7. Pos(f[r]) = f[r] /\ Pos(g[r]) = g[r] /\ f[r] \in Nat /\ g[r] \in Nat
  BY DEF Pos
<1>8. Total(f, S) = Total(f, R) + f[r] /\ Total(g, S) = Total(f, R) + g[r]
  BY <1>4, <1>5, <1>2, <1>3, <1>7, Zenon
<1> QED
  BY <1>6, <1>7, <1>8

LEMMA NothingToCount ==
    ASSUME NEW S, NEW f, \A p \in S : f[p] \in Int /\ f[p] <= 0
    PROVE  Total(f, S) = 0
<1>1. Units(f, S) = {}
  BY DEF Units
<1> QED
  BY <1>1, FS_EmptySet DEF Total

LEMMA MorePlacesMoreUnits ==
    ASSUME NEW S, IsFiniteSet(S), NEW f, \A p \in S : f[p] \in Int, NEW R \in SUBSET S
    PROVE  Total(f, R) <= Total(f, S)
<1>1. Units(f, R) \in SUBSET Units(f, S)
  BY DEF Units
<1>2. IsFiniteSet(Units(f, S))
  BY UnitsAreFinite
<1> HIDE DEF Units
<1>3. Cardinality(Units(f, R)) <= Cardinality(Units(f, S))
  BY <1>1, <1>2, FS_Subset
<1> QED
  BY <1>3 DEF Total

\* The place of i among the members of S.
Rank(S, i) == Cardinality({k \in S : k <= i})

LEMMA RanksCount ==
    ASSUME NEW S \in SUBSET Nat, IsFiniteSet(S)
    PROVE  /\ Cardinality(S) \in Nat
           /\ \A i \in S : Rank(S, i) \in 1 .. Cardinality(S)
           /\ \A i, k \in S : Rank(S, i) = Rank(S, k) => i = k
           /\ \A n \in 1 .. Cardinality(S) : \E i \in S : Rank(S, i) = n
<1> DEFINE upTo(i) == {k \in S : k <= i}
           c == Cardinality(S)
<1>1. c \in Nat
  BY FS_CardinalityType
<1>2. \A i \in S : /\ IsFiniteSet(upTo(i)) /\ Cardinality(upTo(i)) <= c
                   /\ Cardinality(upTo(i)) \in Nat /\ Cardinality(upTo(i)) # 0
  <2> SUFFICES ASSUME NEW i \in S
               PROVE  /\ IsFiniteSet(upTo(i)) /\ Cardinality(upTo(i)) <= c
                      /\ Cardinality(upTo(i)) \in Nat /\ Cardinality(upTo(i)) # 0
    OBVIOUS
  <2>1. upTo(i) \in SUBSET S /\ i \in upTo(i)
    OBVIOUS
  <2> HIDE DEF upTo
  <2>2. IsFiniteSet(upTo(i)) /\ Cardinality(upTo(i)) <= Cardinality(S)
    BY <2>1, FS_Subset
  <2>3. Cardinality(upTo(i)) \in Nat
    BY <2>2, FS_CardinalityType
  <2>4. Cardinality(upTo(i)) # 0
    BY <2>1, <2>2, FS_EmptySet
  <2> QED
    BY <2>2, <2>3, <2>4
<1>3. \A i \in S : Rank(S, i) \in 1 .. c
  BY <1>1, <1>2 DEF Rank
<1>4. \A i, k \in S : i < k => Rank(S, i) # Rank(S, k)
  <2> SUFFICES ASSUME NEW i \in S, NEW k \in S, i < k, Rank(S, i) = Rank(S, k) PROVE FALSE
    OBVIOUS
  <2>1. S \subseteq Nat /\ i \in Nat /\ k \in Nat
    OBVIOUS
  <2>2. upTo(i) \in SUBSET upTo(k) /\ k \in upTo(k) /\ k \notin upTo(i)
    <3>1. \A m \in S : m \in Nat
      BY <2>1
    <3>2. \A m \in S : m <= i => m <= k
      BY <2>1, <3>1
    <3>3. k <= k /\ ~(k <= i)
      BY <2>1
    <3> QED
      BY <3>2, <3>3, Zenon
  <2>3. Cardinality(upTo(k)) = Cardinality(upTo(i))
    BY DEF Rank
  <2>4. IsFiniteSet(upTo(k))
    BY <1>2
  <2> HIDE DEF upTo
  <2>5. upTo(k) = upTo(i)
    BY <2>2, <2>3, <2>4, FS_Subset
  <2> QED
    BY <2>2, <2>5
<1>5. \A i, k \in S : Rank(S, i) = Rank(S, k) => i = k
  BY <1>4
<1> DEFINE rank == [i \in S |-> Rank(S, i)]
<1>6. rank \in [S -> 1 .. c] /\ \A i, k \in S : rank[i] = rank[k] => i = k
  BY <1>3, <1>5
<1>7. IsFiniteSet(1 .. c) /\ Cardinality(1 .. c) = c
  BY <1>1, FS_Interval
<1> HIDE DEF rank
<1>8. rank \in Injection(S, 1 .. c)
  BY <1>6, Fun_IsInj
<1>9. Cardinality(S) = Cardinality(1 .. c) <=> rank \in Surjection(S, 1 .. c)
  BY <1>7, <1>8, FS_Injection
<1>10. \A n \in 1 .. c : \E i \in S : rank[i] = n
  BY <1>7, <1>9, Fun_SurjectionProperties
<1>11. \A n \in 1 .. c : \E i \in S : Rank(S, i) = n
  BY <1>10 DEF rank
<1> QED
  BY <1>1, <1>3, <1>5, <1>11

-----------------------------------------------------------------------------
(* What consumeStock and restoreStock take *)

LEMMA LeastMember ==
    ASSUME NEW S \in SUBSET Nat, S # {}
    PROVE  \E m \in S : \A n \in S : m <= n
<1>1. PICK m \in S : \A n \in S : ~ (<<n, m>> \in OpToRel(<, Nat))
  BY NatLessThanWellFounded, WFMin
<1>2. \A n \in S : ~ (n < m)
  BY <1>1 DEF OpToRel
<1>3. \A n \in S : m <= n
  BY <1>2
<1> QED
  BY <1>3

\* Batches L taken oldest first, what they lack from the last place.
LEMMA OldestFirst ==
    ASSUME NEW L \in [Batches -> Nat], NEW q \in Nat, NEW f \in [Places -> Nat],
           \A b \in Batches : f[b] = Least(L[b], Pos(q - Total(L, 1 .. b - 1))),
           f[Rest] = Pos(q - Total(L, 1 .. MaxBatches))
    PROVE  Total(f, Places) = q
<1> DEFINE T == [b \in 0 .. MaxBatches |-> Total(L, 1 .. b)]
           U == Units(f, Places)
<1>1. MaxBatches \in Nat /\ Rest = MaxBatches + 1
  BY StockAssumption DEF Rest
<1>2. /\ \A b \in 1 .. Rest : b - 1 \in 0 .. MaxBatches
      /\ \A b \in Batches : b \in 0 .. MaxBatches /\ b \in Places
      /\ \A p \in Places : p = Rest \/ p \in Batches
  BY <1>1 DEF Batches, Places
<1>3. T[0] = 0
  <2>1. Total(L, {}) = 0
    BY NothingToCount
  <2>2. 1 .. 0 = {}
    OBVIOUS
  <2> QED
    BY <1>1, <2>1, <2>2
<1>4. \A b \in 0 .. MaxBatches : /\ T[b] \in Nat /\ IsFiniteSet(1 .. b)
                                 /\ \A p \in 1 .. b : L[p] \in Int
  <2> SUFFICES ASSUME NEW b \in 0 .. MaxBatches
               PROVE  T[b] \in Nat /\ IsFiniteSet(1 .. b) /\ \A p \in 1 .. b : L[p] \in Int
    OBVIOUS
  <2>1. \A p \in 1 .. b : L[p] \in Int
    BY <1>1 DEF Batches
  <2>2. IsFiniteSet(1 .. b)
    BY <1>1, FS_Interval
  <2>3. Total(L, 1 .. b) \in Nat
    BY <2>1, <2>2, UnitsAreFinite
  <2> QED
    BY <2>1, <2>2, <2>3
<1>5. \A b \in Batches : T[b] = T[b - 1] + L[b]
  <2> SUFFICES ASSUME NEW b \in Batches PROVE T[b] = T[b - 1] + L[b]
    OBVIOUS
  <2>1. b \in Nat /\ b - 1 \in 0 .. MaxBatches /\ b \in 0 .. MaxBatches
    BY <1>1 DEF Batches
  <2>2. IsFiniteSet(1 .. b - 1) /\ b \notin 1 .. b - 1
    BY <1>4, <2>1
  <2>3. 1 .. b = (1 .. b - 1) \cup {b}
    BY <2>1 DEF Batches
  <2>4. \A p \in (1 .. b - 1) \cup {b} : L[p] \in Int
    BY <1>4, <2>1, <2>3
  <2>5. Total(L, (1 .. b - 1) \cup {b}) = Total(L, 1 .. b - 1) + Pos(L[b])
    BY <2>2, <2>4, OneMorePlace
  <2>6. Pos(L[b]) = L[b]
    BY DEF Pos
  <2>7. T[b] = Total(L, 1 .. b) /\ T[b - 1] = Total(L, 1 .. b - 1)
    BY <2>1
  <2> QED
    BY <2>3, <2>5, <2>6, <2>7, Zenon
<1>6. \A b, c \in 0 .. MaxBatches : b <= c => T[b] <= T[c]
  <2> SUFFICES ASSUME NEW b \in 0 .. MaxBatches, NEW c \in 0 .. MaxBatches, b <= c
               PROVE  T[b] <= T[c]
    OBVIOUS
  <2>1. 1 .. b \in SUBSET (1 .. c)
    OBVIOUS
  <2>2. IsFiniteSet(1 .. c) /\ \A p \in 1 .. c : L[p] \in Int
    BY <1>4
  <2>3. Total(L, 1 .. b) <= Total(L, 1 .. c)
    BY <2>1, <2>2, MorePlacesMoreUnits
  <2> QED
    BY <2>3
<1>7. /\ \A b \in Batches : f[b] = Least(L[b], Pos(q - T[b - 1]))
      /\ f[Rest] = Pos(q - T[MaxBatches])
  BY <1>1, <1>2 DEF Batches
<1> HIDE DEF T
<1>8. \A p \in Places : /\ p \in Nat /\ p >= 1 /\ T[p - 1] \in Nat /\ f[p] \in Nat
                        /\ f[p] <= Pos(q - T[p - 1])
                        /\ p \in Batches => f[p] <= L[p] /\ L[p] \in Nat
  <2> SUFFICES ASSUME NEW p \in Places
               PROVE  /\ p \in Nat /\ p >= 1 /\ T[p - 1] \in Nat /\ f[p] \in Nat
                      /\ f[p] <= Pos(q - T[p - 1])
                      /\ p \in Batches => f[p] <= L[p] /\ L[p] \in Nat
    OBVIOUS
  <2>1. p \in Nat /\ p >= 1 /\ T[p - 1] \in Nat /\ f[p] \in Nat
    BY <1>1, <1>2, <1>4 DEF Places
  <2>2. CASE p = Rest
    <3>1. p - 1 = MaxBatches /\ p \notin Batches
      BY <1>1, <2>2 DEF Batches
    <3>2. f[p] = Pos(q - T[p - 1])
      BY <1>7, <2>2, <3>1, Zenon
    <3> QED
      BY <2>1, <3>1, <3>2
  <2>3. CASE p \in Batches
    <3>1. f[p] = Least(L[p], Pos(q - T[p - 1])) /\ L[p] \in Nat
      BY <1>7, <2>3
    <3>2. Pos(q - T[p - 1]) \in Nat
      BY <2>1 DEF Pos
    <3>3. f[p] <= L[p] /\ f[p] <= Pos(q - T[p - 1])
      BY <3>1, <3>2 DEF Least
    <3> QED
      BY <2>1, <3>1, <3>3
  <2> QED
    BY <1>2, <2>2, <2>3
<1>9. \A u \in U : /\ u = <<u[1], u[2]>> /\ u[1] \in Places /\ u[2] \in 1 .. f[u[1]]
  BY DEF Units
<1>10. \A p \in Places : \A n \in 1 .. f[p] : <<p, n>> \in U
  BY DEF Units
<1> HIDE DEF U
<1> DEFINE g == [u \in U |-> T[u[1] - 1] + u[2]]
<1>11. g \in [U -> 1 .. q]
  <2> SUFFICES ASSUME NEW u \in U PROVE T[u[1] - 1] + u[2] \in 1 .. q
    OBVIOUS
  <2> DEFINE p == u[1]
             n == u[2]
  <2>1. p \in Places /\ n \in 1 .. f[p]
    BY <1>9
  <2> HIDE DEF p, n
  <2>2. T[p - 1] \in Nat /\ n \in Nat /\ n >= 1 /\ n <= Pos(q - T[p - 1])
    <3>1. f[p] \in Nat /\ T[p - 1] \in Nat /\ f[p] <= Pos(q - T[p - 1])
      BY <1>8, <2>1
    <3>2. Pos(q - T[p - 1]) \in Nat
      BY <3>1 DEF Pos
    <3> QED
      BY <2>1, <3>1, <3>2
  <2>3. T[p - 1] + n \in 1 .. q
    BY <2>2 DEF Pos
  <2> QED
    BY <2>3 DEF p, n
<1>12. \A u, v \in U : g[u] = g[v] => u = v
  <2>1. \A a, b \in Places : a < b =>
           a \in Batches /\ a <= b - 1 /\ b - 1 \in 0 .. MaxBatches /\ a \in 0 .. MaxBatches
    BY <1>1 DEF Places, Batches
  <2>2. \A u, v \in U : u[1] < v[1] => g[u] < g[v]
    <3> SUFFICES ASSUME NEW u \in U, NEW v \in U, u[1] < v[1] PROVE g[u] < g[v]
      OBVIOUS
    <3>1. u[1] \in Places /\ v[1] \in Places /\ u[2] \in 1 .. f[u[1]] /\ v[2] \in 1 .. f[v[1]]
      BY <1>9
    <3>2. u[1] \in Batches /\ u[1] <= v[1] - 1 /\ v[1] - 1 \in 0 .. MaxBatches
          /\ u[1] \in 0 .. MaxBatches
      BY <2>1, <3>1
    <3>3. T[u[1]] <= T[v[1] - 1] /\ T[u[1]] \in Nat /\ T[v[1] - 1] \in Nat
      BY <1>4, <1>6, <3>2
    <3>4. T[u[1]] = T[u[1] - 1] + L[u[1]]
      BY <1>5, <3>2
    <3>5. u[2] <= L[u[1]] /\ L[u[1]] \in Nat /\ u[2] \in Nat /\ T[u[1] - 1] \in Nat
      BY <1>8, <3>1, <3>2
    <3>6. v[2] \in Nat /\ v[2] >= 1
      BY <1>8, <3>1
    <3>7. g[u] = T[u[1] - 1] + u[2] /\ g[v] = T[v[1] - 1] + v[2]
      OBVIOUS
    <3> HIDE DEF g
    <3> QED
      BY <3>3, <3>4, <3>5, <3>6, <3>7
  <2>3. \A u, v \in U : g[u] \in Int /\ g[v] \in Int /\ u[1] \in Int /\ v[1] \in Int
    BY <1>8, <1>9, <1>11
  <2> SUFFICES ASSUME NEW u \in U, NEW v \in U, g[u] = g[v] PROVE u = v
    OBVIOUS
  <2>4. u[1] = v[1]
    <3>1. ~ (u[1] < v[1]) /\ ~ (v[1] < u[1])
      <4> HIDE DEF g
      <4> QED
        BY <2>2, <2>3
    <3> QED
      BY <2>3, <3>1
  <2>5. g[u] = T[u[1] - 1] + u[2] /\ g[v] = T[v[1] - 1] + v[2]
    OBVIOUS
  <2>6. T[u[1] - 1] \in Nat /\ u[2] \in Nat /\ v[2] \in Nat
    BY <1>8, <1>9
  <2>7. u[2] = v[2]
    <3>1. T[u[1] - 1] = T[v[1] - 1]
      BY <2>4, Zenon
    <3>2. \A a, m, n \in Nat : a + m = a + n => m = n
      OBVIOUS
    <3> HIDE DEF g
    <3>3. T[u[1] - 1] + u[2] = T[u[1] - 1] + v[2]
      BY <2>5, <3>1, Zenon
    <3> QED
      BY <2>6, <3>2, <3>3, Zenon
  <2> QED
    BY <1>9, <2>4, <2>7
<1>13. \A k \in 1 .. q : \E u \in U : g[u] = k
  <2> SUFFICES ASSUME NEW k \in 1 .. q PROVE \E u \in U : g[u] = k
    OBVIOUS
  <2> DEFINE C == {b \in Places : b = Rest \/ T[b] >= k}
  <2>1. Rest \in C /\ C \in SUBSET Nat
    BY <1>1 DEF Places
  <2>2. PICK b \in C : \A c \in C : b <= c
    <3> HIDE DEF C
    <3> QED
      BY <2>1, LeastMember
  <2>3. b \in Places /\ b \in Nat /\ b >= 1 /\ T[b - 1] \in Nat
    BY <1>8
  <2>4. T[b - 1] < k
    <3>1. CASE b = 1
      BY <1>3, <3>1
    <3>2. CASE b > 1
      <4>1. b - 1 \in Places /\ b - 1 # Rest /\ b - 1 \notin C
        BY <1>1, <2>2, <2>3, <3>2 DEF Places
      <4>2. ~ (T[b - 1] >= k)
        BY <4>1
      <4> QED
        BY <2>3, <4>2
    <3> QED
      BY <2>3, <3>1, <3>2
  <2> DEFINE n == k - T[b - 1]
  <2>5. n \in Nat /\ n >= 1 /\ n <= Pos(q - T[b - 1]) /\ T[b - 1] + n = k
    BY <2>3, <2>4 DEF Pos
  <2>6. n <= f[b]
    <3>1. CASE b = Rest
      <4>1. b - 1 = MaxBatches
        BY <1>1, <3>1
      <4>2. f[b] = Pos(q - T[b - 1])
        BY <1>7, <3>1, <4>1, Zenon
      <4> QED
        BY <2>5, <4>2
    <3>2. CASE b # Rest
      <4>1. b \in Batches /\ T[b] >= k
        BY <1>2, <2>3, <3>2
      <4>2. T[b] = T[b - 1] + L[b] /\ L[b] \in Nat
        BY <1>5, <4>1
      <4>3. n <= L[b]
        BY <2>3, <4>1, <4>2
      <4>4. f[b] = Least(L[b], Pos(q - T[b - 1]))
        BY <1>7, <4>1
      <4> HIDE DEF n
      <4> QED
        BY <2>5, <4>3, <4>4 DEF Least
    <3> QED
      BY <3>1, <3>2
  <2>7. f[b] \in Nat
    BY <2>3
  <2> HIDE DEF n, C
  <2>8. <<b, n>> \in U
    BY <1>10, <2>3, <2>5, <2>6, <2>7
  <2>9. g[<<b, n>>] = T[b - 1] + n
    BY <2>8
  <2> QED
    BY <2>5, <2>8, <2>9
<1> HIDE DEF g
<1>14. ExistsBijection(U, 1 .. q)
  BY <1>11, <1>12, <1>13, Fun_IsBij DEF ExistsBijection
<1>15. IsFiniteSet(U)
  <2>1. IsFiniteSet(Places)
    BY <1>1, FS_Interval DEF Places
  <2> QED
    BY <2>1, UnitsAreFinite DEF U
<1>16. Cardinality(1 .. q) = Cardinality(U)
  BY <1>14, <1>15, FS_Bijection
<1>17. Cardinality(1 .. q) = q
  BY FS_Interval
<1> QED
  BY <1>16, <1>17 DEF Total, U

\* The figures of batches and orders are whole numbers, and no room is negative.
LEMMA FiguresAreNumbers ==
    ASSUME TypeOK, BatchesSound, OrdersSound
    PROVE  /\ \A i \in Ingredients : Left(i) \in [Batches -> Nat]
           /\ \A o \in Orders, i \in Ingredients : Room(o, i) \in [Places -> Nat]
           /\ \A o \in Orders, i \in Ingredients, p \in Places :
                sold[o][i][p] \in Nat /\ back[o][i][p] \in Nat
<1>1. \A i \in Ingredients : Left(i) \in [Batches -> Nat]
  <2>1. \A b \in Batches : batch[b].left \in Nat
    BY DEF TypeOK, BatchesSound, BatchRow
  <2> QED
    BY <2>1 DEF Left
<1>2. \A o \in Orders, i \in Ingredients, p \in Places :
        /\ sold[o][i][p] \in Int /\ back[o][i][p] \in Int
        /\ back[o][i][p] \in 0 .. sold[o][i][p]
  BY DEF TypeOK, PerPlace, OrdersSound
<1>3. \A o \in Orders, i \in Ingredients, p \in Places :
        sold[o][i][p] - back[o][i][p] \in Nat /\ sold[o][i][p] \in Nat /\ back[o][i][p] \in Nat
  BY <1>2
<1> QED
  BY <1>1, <1>3 DEF Room

LEMMA FinitePlaces ==
    /\ MaxBatches \in Nat /\ Rest \in Places
    /\ IsFiniteSet(Batches) /\ IsFiniteSet(Places)
    /\ \A p \in Places : p \in Batches \/ p = Rest
    /\ \A b \in Batches : b \in Places /\ b # Rest /\ b \in Nat
<1>1. MaxBatches \in Nat
  BY StockAssumption
<1>2. IsFiniteSet(1 .. MaxBatches) /\ IsFiniteSet(1 .. MaxBatches + 1)
  BY <1>1, FS_Interval
<1> QED
  BY <1>1, <1>2 DEF Batches, Places, Rest

\* What consumeStock takes of an ingredient: all it was asked for, from each
\* batch no more than is left.
LEMMA FifoFits ==
    ASSUME TypeOK, BatchesSound, OrdersSound, NEW i \in Ingredients, NEW q \in Nat
    PROVE  /\ Fifo(i, q) \in [Places -> Nat]
           /\ \A b \in Batches : Fifo(i, q)[b] <= Left(i)[b]
           /\ Total(Fifo(i, q), Places) = q
<1> DEFINE L == Left(i)
           f == Fifo(i, q)
<1>1. L \in [Batches -> Nat]
  BY FiguresAreNumbers
<1>2. \A c \in 0 .. MaxBatches : Total(L, 1 .. c) \in Nat
  <2> SUFFICES ASSUME NEW c \in 0 .. MaxBatches PROVE Total(L, 1 .. c) \in Nat
    OBVIOUS
  <2>1. IsFiniteSet(1 .. c)
    BY FinitePlaces, FS_Interval
  <2>2. \A p \in 1 .. c : L[p] \in Int
    BY <1>1, FinitePlaces DEF Batches
  <2> HIDE DEF L
  <2> QED
    BY <2>1, <2>2, UnitsAreFinite
<1>3. \A b \in Batches : f[b] = Least(L[b], Pos(q - Total(L, 1 .. b - 1)))
  BY FinitePlaces DEF Fifo
<1>4. f[Rest] = Pos(q - Total(L, 1 .. MaxBatches))
  <2>1. f[Rest] = Pos(q - Total(L, 1 .. Rest - 1))
    BY FinitePlaces DEF Fifo
  <2>2. Rest - 1 = MaxBatches
    BY FinitePlaces DEF Rest
  <2> QED
    BY <2>1, <2>2
<1>5. DOMAIN f = Places /\ f = [p \in Places |-> f[p]]
  BY DEF Fifo
<1> HIDE DEF f, L
<1>6. \A b \in Batches : f[b] \in Nat /\ f[b] <= L[b]
  <2> SUFFICES ASSUME NEW b \in Batches PROVE f[b] \in Nat /\ f[b] <= L[b]
    OBVIOUS
  <2>1. b - 1 \in 0 .. MaxBatches
    BY FinitePlaces DEF Batches
  <2>2. Total(L, 1 .. b - 1) \in Nat /\ L[b] \in Nat
    BY <1>1, <1>2, <2>1
  <2> QED
    BY <1>3, <2>2 DEF Least, Pos
<1>7. f[Rest] \in Nat
  <2>1. Total(L, 1 .. MaxBatches) \in Nat
    BY <1>2, FinitePlaces
  <2> QED
    BY <1>4, <2>1 DEF Pos
<1>8. f \in [Places -> Nat]
  <2>1. \A p \in Places : f[p] \in Nat
    BY <1>6, <1>7, FinitePlaces
  <2> QED
    BY <1>5, <2>1
<1>9. Total(f, Places) = q
  BY <1>1, <1>3, <1>4, <1>8, OldestFirst
<1> QED
  BY <1>6, <1>8, <1>9 DEF f, L

\* What restoreStock gives back: to no place more than is out of it.
LEMMA GiveBackFits ==
    ASSUME TypeOK, BatchesSound, OrdersSound,
           NEW o \in Orders, NEW i \in Ingredients, NEW q \in Int
    PROVE  /\ GiveBack(o, i, q) \in [Places -> Int]
           /\ \A p \in Places : GiveBack(o, i, q)[p] \in 0 .. Room(o, i)[p]
<1> DEFINE room == Room(o, i)
<1>1. room \in [Places -> Nat]
  BY FiguresAreNumbers
<1>2. \A p \in Places : Total(room, p + 1 .. Rest) \in Nat
  <2> SUFFICES ASSUME NEW p \in Places PROVE Total(room, p + 1 .. Rest) \in Nat
    OBVIOUS
  <2>1. p + 1 \in Int /\ Rest \in Int /\ \A n \in p + 1 .. Rest : n \in Places
    BY FinitePlaces DEF Places, Rest
  <2>2. IsFiniteSet(p + 1 .. Rest)
    BY <2>1, FS_Interval
  <2>3. \A n \in p + 1 .. Rest : room[n] \in Int
    BY <1>1, <2>1
  <2> HIDE DEF room
  <2> QED
    BY <2>2, <2>3, UnitsAreFinite
<1>3. GiveBack(o, i, q) = [p \in Places |-> Least(room[p], Pos(q - Total(room, p + 1 .. Rest)))]
  BY DEF GiveBack
<1> HIDE DEF room
<1>4. \A p \in Places : Least(room[p], Pos(q - Total(room, p + 1 .. Rest))) \in 0 .. room[p]
  BY <1>1, <1>2 DEF Least, Pos
<1> QED
  BY <1>1, <1>3, <1>4 DEF room

-----------------------------------------------------------------------------
(* The transactions of the other workers *)

\* A step leaves what v has locked as it is.
SparesWhatIsHeld(v) ==
    /\ \A i \in Ingredients : row'[i] = v <=> row[i] = v
    /\ \A b \in Batches : batch[b].of # None => batch'[b].of = batch[b].of
    /\ \A i \in Ingredients, b \in Batches : row[i] = v /\ batch'[b].of = i =>
         batch[b].of = i /\ batch'[b].left = batch[b].left
    /\ \A i \in Ingredients : row[i] = v => \A o \in Orders : Room(o, i)' = Room(o, i)
    /\ \A p \in Purchases, i \in Ingredients : delivered[p][i] <= delivered'[p][i]

LEMMA OthersKeep ==
    ASSUME NEW v \in Workers, NEW j \in StockJob, TypeOK, TypeOK', OrdersSound',
           JobFits(v, j), SparesWhatIsHeld(v)
    PROVE  JobFits(v, j)'
<1>1. JobSound(j)'
  BY DEF JobFits, JobSound
<1>2. ReadDelivered(j)'
  <2> SUFFICES ASSUME j.po # None, NEW i \in Ingredients
               PROVE  j.was.got[i] <= delivered'[j.po][i]
    BY DEF ReadDelivered
  <2>1. j.po \in Purchases /\ j.was \in PoRow
    BY DEF StockJob, JobFits, JobSound
  <2>2. j.was.got[i] <= delivered[j.po][i] /\ delivered[j.po][i] <= delivered'[j.po][i]
    BY <2>1 DEF JobFits, ReadDelivered, SparesWhatIsHeld
  <2>3. j.was.got[i] \in Int /\ delivered[j.po][i] \in Int /\ delivered'[j.po][i] \in Int
    BY <2>1 DEF TypeOK, PoRow
  <2> QED
    BY <2>2, <2>3
<1>3. HoldsItsLocks(v, j)'
  <2> SUFFICES ASSUME NEW i \in Ingredients
               PROVE  /\ \A p \in Places : j.split[i][p] # 0 => row'[i] = v
                      /\ i \in Inward(j) => row'[i] = v \/ i \in Range(j.todo)
                      /\ row'[i] = v => \A b \in Batches : batch'[b].of = i => j.had[b] = batch'[b].left
    BY DEF HoldsItsLocks, Inward
  <2>1. row'[i] = v <=> row[i] = v
    BY DEF SparesWhatIsHeld
  <2>2. \A p \in Places : j.split[i][p] # 0 => row'[i] = v
    BY <2>1 DEF JobFits, HoldsItsLocks
  <2>3. i \in Inward(j) => row'[i] = v \/ i \in Range(j.todo)
    BY <2>1 DEF JobFits, HoldsItsLocks
  <2>4. row'[i] = v => \A b \in Batches : batch'[b].of = i => j.had[b] = batch'[b].left
    BY <2>1 DEF JobFits, HoldsItsLocks, SparesWhatIsHeld
  <2> QED
    BY <2>2, <2>3, <2>4
<1>4. TakesWhatIsThere(j)'
  <2>1. \A o \in Orders, i \in Ingredients : Room(o, i)' \in [Places -> Nat]
    <3>1. \A o \in Orders, i \in Ingredients, p \in Places :
            /\ sold'[o][i][p] \in Int /\ back'[o][i][p] \in Int
            /\ back'[o][i][p] \in 0 .. sold'[o][i][p]
      BY DEF TypeOK, PerPlace, OrdersSound
    <3>2. \A o \in Orders, i \in Ingredients, p \in Places :
            sold'[o][i][p] - back'[o][i][p] \in Nat
      BY <3>1
    <3> QED
      BY <3>2 DEF Room
  <2> SUFFICES ASSUME NEW i \in Ingredients
               PROVE  /\ \A b \in Batches :
                           /\ j.split[i][b] # 0 => batch'[b].of = i
                           /\ j.kind # "return" => j.split[i][b] \in 0 .. j.had[b]
                      /\ j.kind # "return" => j.split[i][Rest] >= 0
                      /\ j.kind = "return" => \A p \in Places :
                           j.split[i][p] \in 0 .. Room(j.order, i)'[p]
    BY DEF TakesWhatIsThere
  <2>2. \A b \in Batches : j.split[i][b] # 0 => batch'[b].of = i
    <3>1. i # None
      BY StockAssumption
    <3> QED
      BY <3>1 DEF JobFits, TakesWhatIsThere, SparesWhatIsHeld
  <2>3. /\ \A b \in Batches : j.kind # "return" => j.split[i][b] \in 0 .. j.had[b]
        /\ j.kind # "return" => j.split[i][Rest] >= 0
    BY DEF JobFits, TakesWhatIsThere
  <2>4. ASSUME j.kind = "return", NEW p \in Places
        PROVE  j.split[i][p] \in 0 .. Room(j.order, i)'[p]
    <3>1. j.order \in Orders
      BY <2>4 DEF JobFits, JobSound
    <3>2. CASE row[i] = v
      <4>1. Room(j.order, i)' = Room(j.order, i)
        BY <3>1, <3>2 DEF SparesWhatIsHeld
      <4>2. j.split[i][p] \in 0 .. Room(j.order, i)[p]
        BY <2>4 DEF JobFits, TakesWhatIsThere
      <4> QED
        BY <4>1, <4>2
    <3>3. CASE row[i] # v
      <4>1. j.split[i][p] = 0
        BY <3>3 DEF JobFits, HoldsItsLocks
      <4>2. Room(j.order, i)'[p] \in Nat
        BY <2>1, <3>1
      <4> QED
        BY <4>1, <4>2
    <3> QED
      BY <3>2, <3>3
  <2> QED
    BY <2>2, <2>3, <2>4
<1>5. FollowsThePlan(j)'
  BY DEF JobFits, FollowsThePlan, Total, Units
<1> QED
  BY <1>1, <1>2, <1>3, <1>4, <1>5 DEF JobFits

-----------------------------------------------------------------------------
(* Steps which write no row but the locks *)

rowVars == <<stock, moved, batch, drawn, sold, back, bill, po, delivered>>

LEMMA RowsStay ==
    ASSUME RowsSound, UNCHANGED rowVars
    PROVE  RowsSound'
<1>1. BatchesSound'
  <2>1. \A b \in Batches : OutOf(b)' = OutOf(b)
    BY DEF OutOf, Room, rowVars
  <2>2. \A b \in Batches : Total(OutOf(b)', Orders) = Total(OutOf(b), Orders)
    BY <2>1, Zenon
  <2> QED
    BY <2>2 DEF RowsSound, rowVars, BatchesSound, Free
<1>2. OrdersSound'
  BY DEF RowsSound, rowVars, OrdersSound, Total, Units
<1>3. DeliveriesCount'
  BY DEF RowsSound, rowVars, DeliveriesCount
<1> QED
  BY <1>1, <1>2, <1>3 DEF RowsSound

LEMMA FinitePromises ==
    ASSUME TypeOK
    PROVE  /\ IsFiniteSet(Free) /\ Cardinality(Free) \in Nat
           /\ IsFiniteSet(Promised) /\ Cardinality(Promised) \in Nat
<1>1. IsFiniteSet(Free)
  <2>1. Free \in SUBSET Batches
    BY DEF Free
  <2> QED
    BY <2>1, FinitePlaces, FS_Subset
<1>2. IsFiniteSet(Promised)
  <2>1. Promised \in SUBSET (Workers \X Ingredients)
    BY DEF Promised
  <2>2. IsFiniteSet(Workers) /\ IsFiniteSet(Ingredients)
    BY StockAssumption
  <2>3. IsFiniteSet(Workers \X Ingredients)
    BY <2>2, FS_Product
  <2> QED
    BY <2>1, <2>3, FS_Subset
<1> QED
  BY <1>1, <1>2, FS_CardinalityType

LEMMA NoNewPromise ==
    ASSUME TypeOK, BatchesPromised, NEW w \in Workers, NEW x,
           job' = [job EXCEPT ![w] = x], batch' = batch,
           x # NoJob => Running(w) /\ Inward(x) \subseteq Inward(job[w])
    PROVE  BatchesPromised'
<1>1. Free' = Free
  BY DEF Free
<1>2. job'[w] = x /\ \A v \in Workers : v # w => job'[v] = job[v]
  BY DEF TypeOK
<1>3. Promised' \in SUBSET Promised
  <2> SUFFICES ASSUME NEW v \in Workers, NEW i \in Ingredients,
                      job'[v] # NoJob, i \in Inward(job'[v])
               PROVE  job[v] # NoJob /\ i \in Inward(job[v])
    BY DEF Promised, Inward
  <2> QED
    BY <1>2 DEF Running
<1>4. IsFiniteSet(Promised) /\ Cardinality(Promised) \in Nat /\ Cardinality(Free) \in Nat
  BY FinitePromises
<1>5. IsFiniteSet(Promised') /\ Cardinality(Promised') <= Cardinality(Promised)
  BY <1>3, <1>4, FS_Subset
<1>6. Cardinality(Promised') \in Nat
  BY <1>5, FS_CardinalityType
<1>7. Cardinality(Promised') <= Cardinality(Free)
  BY <1>4, <1>5, <1>6 DEF BatchesPromised
<1> QED
  BY <1>1, <1>7 DEF BatchesPromised

\* Only the transaction of w and its locks change.
LEMMA OneTransactionMoves ==
    ASSUME StockInv, NEW w \in Workers, NEW x \in StockJob \cup {NoJob},
           job' = [job EXCEPT ![w] = x], UNCHANGED rowVars, made' \in Nat,
           row' \in [Ingredients -> Workers \cup {None}],
           \A v \in Workers \ {w}, i \in Ingredients : row'[i] = v <=> row[i] = v,
           \A i \in Ingredients : row'[i] = w => x # NoJob,
           x # NoJob => JobFits(w, x)',
           BatchesPromised'
    PROVE  StockInv'
<1>1. job'[w] = x /\ \A v \in Workers : v # w => job'[v] = job[v]
  BY DEF StockInv, TypeOK
<1>2. TypeOK'
  <2>1. job' \in [Workers -> StockJob \cup {NoJob}]
    BY DEF StockInv, TypeOK
  <2> QED
    BY <2>1 DEF StockInv, TypeOK, rowVars
<1>3. RowsSound'
  BY RowsStay DEF StockInv
<1>4. JobsFit'
  <2> SUFFICES ASSUME NEW v \in Workers, job'[v] # NoJob
               PROVE  \E j \in {job'[v]} : JobFits(v, j)'
    BY DEF JobsFit, Running
  <2>1. CASE v = w
    <3>1. JobFits(v, x)' /\ job'[v] = x
      BY <1>1, <2>1
    <3> QED
      BY <3>1
  <2>2. CASE v # w
    <3>1. PICK j : j = job[v]
      OBVIOUS
    <3>2. job'[v] = j
      BY <1>1, <2>2, <3>1
    <3>3. j \in StockJob /\ JobFits(v, j)
      <4>1. j # NoJob
        BY <3>2
      <4> QED
        BY <3>1, <4>1 DEF StockInv, TypeOK, JobsFit, Running
    <3>4. SparesWhatIsHeld(v)
      <4>1. \A p \in Purchases, i \in Ingredients : delivered[p][i] \in Int
        BY DEF StockInv, TypeOK
      <4>2. \A o \in Orders, i \in Ingredients : Room(o, i)' = Room(o, i)
        BY DEF Room, rowVars
      <4> QED
        BY <2>2, <4>1, <4>2 DEF SparesWhatIsHeld, rowVars
    <3>5. JobFits(v, j)'
      BY <1>2, <1>3, <3>3, <3>4, OthersKeep DEF StockInv, RowsSound
    <3> QED
      BY <3>2, <3>5
  <2> QED
    BY <2>1, <2>2
<1>5. LocksOwned'
  <2> SUFFICES ASSUME NEW i \in Ingredients, row'[i] # None PROVE job'[row'[i]] # NoJob
    BY DEF LocksOwned, Running
  <2>1. PICK v \in Workers : v = row'[i]
    OBVIOUS
  <2>2. CASE v = w
    BY <1>1, <2>1, <2>2
  <2>3. CASE v # w
    <3>1. row[i] = v /\ v # None
      BY <2>1, <2>3, StockAssumption
    <3>2. job[v] # NoJob
      BY <3>1 DEF StockInv, LocksOwned, Running
    <3> QED
      BY <1>1, <2>1, <2>3, <3>2
  <2> QED
    BY <2>2, <2>3
<1> QED
  BY <1>2, <1>3, <1>4, <1>5 DEF StockInv

LEMMA RollbackKeeps ==
    ASSUME StockInv, NEW w \in Workers, Rollback(w)
    PROVE  StockInv'
<1> DEFINE x == NoJob
<1>1. job' = [job EXCEPT ![w] = x] /\ UNCHANGED rowVars /\ made' = made
      /\ row' = Unlocked(w)
  BY DEF Rollback, rowVars
<1>2. row \in [Ingredients -> Workers \cup {None}] /\ made' \in Nat
  BY <1>1 DEF StockInv, TypeOK
<1>3. row' \in [Ingredients -> Workers \cup {None}]
  BY <1>1, <1>2 DEF Unlocked
<1>4. \A i \in Ingredients : row'[i] = IF row[i] = w THEN None ELSE row[i]
  BY <1>1 DEF Unlocked
<1>5. None \notin Workers
  BY StockAssumption
<1>6. \A v \in Workers \ {w}, i \in Ingredients : row'[i] = v <=> row[i] = v
  BY <1>4, <1>5
<1>7. \A i \in Ingredients : row'[i] = w => x # NoJob
  BY <1>4, <1>5
<1>8. BatchesPromised'
  BY <1>1, NoNewPromise DEF StockInv, rowVars
<1> QED
  BY <1>1, <1>2, <1>3, <1>6, <1>7, <1>8, OneTransactionMoves

\* A transaction which has read its list and nothing else.
Fresh(j) ==
    /\ j \in StockJob /\ JobSound(j)
    /\ j.split = Nowhere
    /\ j.had = [b \in Batches |-> 0]
    /\ j.po # None => j.was = po[j.po]
    /\ Inward(j) \subseteq Range(j.todo)
    /\ j.kind = "sale" => \A i \in Ingredients : i \in Range(j.todo) \/ Need[j.order][i] = 0

LEMMA BeginKeeps ==
    ASSUME StockInv, NEW w \in Workers, NEW j, Fresh(j), BeginJob(w, j)
    PROVE  StockInv'
<1>1. /\ job[w] = NoJob /\ job' = [job EXCEPT ![w] = j] /\ made' = made + 1
      /\ UNCHANGED rowVars /\ row' = row
      /\ Cardinality(Inward(j)) + Cardinality(Promised) <= Cardinality(Free)
  BY DEF BeginJob, rowVars
<1>2. j \in StockJob \cup {NoJob} /\ made' \in Nat
      /\ row' \in [Ingredients -> Workers \cup {None}]
  BY <1>1 DEF Fresh, StockInv, TypeOK
<1>3. j # NoJob
  BY DEF Fresh, StockJob, NoJob, Kinds
<1>4. \A i \in Ingredients : row[i] # w
  <2>1. w # None
    BY StockAssumption
  <2> QED
    BY <1>1, <2>1 DEF StockInv, LocksOwned, Running
<1>5. \A i \in Ingredients, p \in Places : j.split[i][p] = 0
  BY DEF Fresh, Nowhere
<1>6. \A i \in Ingredients, b \in Batches : j.split[i][b] = 0
  BY <1>5, FinitePlaces
<1>7. JobFits(w, j)'
  <2>1. JobSound(j)'
    BY DEF Fresh, JobSound
  <2>2. ReadDelivered(j)'
    <3> SUFFICES ASSUME j.po # None, NEW i \in Ingredients
                 PROVE  j.was.got[i] <= delivered'[j.po][i]
      BY DEF ReadDelivered
    <3>1. j.po \in Purchases /\ j.was = po[j.po]
      BY DEF Fresh, StockJob
    <3>2. po[j.po].got[i] <= delivered[j.po][i]
      BY <3>1 DEF StockInv, RowsSound, DeliveriesCount
    <3> QED
      BY <1>1, <3>1, <3>2 DEF rowVars
  <2>3. HoldsItsLocks(w, j)'
    <3>1. \A i \in Ingredients : i \in Inward(j) => i \in Range(j.todo)
      BY DEF Fresh
    <3>2. \A i \in Ingredients : row'[i] # w
      BY <1>1, <1>4
    <3> QED
      BY <1>5, <3>1, <3>2 DEF HoldsItsLocks, Inward
  <2>4. TakesWhatIsThere(j)'
    <3>1. \A o \in Orders, i \in Ingredients : Room(o, i)' = Room(o, i)
      BY <1>1 DEF Room, rowVars
    <3>2. \A o \in Orders, i \in Ingredients : Room(o, i) \in [Places -> Nat]
      BY FiguresAreNumbers DEF StockInv, RowsSound
    <3>3. \A b \in Batches : j.had[b] = 0
      BY DEF Fresh
    <3>4. \A i \in Ingredients, p \in Places : j.kind = "return" =>
            j.split[i][p] \in 0 .. Room(j.order, i)'[p]
      <4> SUFFICES ASSUME NEW i \in Ingredients, NEW p \in Places, j.kind = "return"
                   PROVE  j.split[i][p] \in 0 .. Room(j.order, i)'[p]
        OBVIOUS
      <4>1. j.order \in Orders
        BY DEF Fresh, JobSound
      <4>2. Room(j.order, i)'[p] \in Nat
        BY <3>1, <3>2, <4>1
      <4> QED
        BY <1>5, <4>2
    <3>5. \A i \in Ingredients, b \in Batches : j.split[i][b] \in 0 .. j.had[b]
      BY <1>6, <3>3
    <3>6. \A i \in Ingredients : j.split[i][Rest] >= 0
      BY <1>5, FinitePlaces
    <3> QED
      BY <1>6, <3>4, <3>5, <3>6 DEF TakesWhatIsThere
  <2>5. FollowsThePlan(j)'
    <3> SUFFICES ASSUME j.kind = "sale", NEW i \in Ingredients, i \notin Range(j.todo)
                 PROVE  Total(j.split[i], Places) = Need[j.order][i]
      BY DEF FollowsThePlan
    <3>1. Need[j.order][i] = 0
      BY DEF Fresh
    <3>2. Total(j.split[i], Places) = 0
      <4>1. \A p \in Places : j.split[i][p] \in Int /\ j.split[i][p] <= 0
        BY <1>5
      <4> QED
        BY <4>1, NothingToCount
    <3> QED
      BY <3>1, <3>2
  <2> QED
    BY <2>1, <2>2, <2>3, <2>4, <2>5 DEF JobFits
<1>8. BatchesPromised'
  <2> DEFINE new == {w} \X Inward(j)
  <2>1. IsFiniteSet(Inward(j)) /\ Cardinality(Inward(j)) \in Nat
    <3>1. Inward(j) \in SUBSET Ingredients
      BY DEF Inward
    <3>2. IsFiniteSet(Inward(j))
      BY <3>1, FS_Subset, StockAssumption
    <3> QED
      BY <3>2, FS_CardinalityType
  <2>2. IsFiniteSet({w}) /\ Cardinality({w}) = 1
    BY FS_Singleton
  <2>3. IsFiniteSet(new) /\ Cardinality(new) = Cardinality({w}) * Cardinality(Inward(j))
    BY <2>1, <2>2, FS_Product
  <2>4. Promised' = Promised \cup new /\ Promised \cap new = {}
    <3>1. job'[w] = j /\ \A v \in Workers : v # w => job'[v] = job[v]
      BY <1>1 DEF StockInv, TypeOK
    <3>2. Inward(j) \subseteq Ingredients
      BY DEF Inward
    <3>3. Promised' \subseteq Promised \cup new
      <4> SUFFICES ASSUME NEW v \in Workers, NEW i \in Ingredients,
                          job'[v] # NoJob, i \in Inward(job'[v])
                   PROVE  <<v, i>> \in Promised \cup new
        BY DEF Promised, Inward
      <4> QED
        BY <3>1 DEF Promised
    <3>4. Promised \cup new \subseteq Promised'
      <4>1. ASSUME NEW v \in Workers, NEW i \in Ingredients,
                   job[v] # NoJob, i \in Inward(job[v])
            PROVE  job'[v] # NoJob /\ i \in Inward(job'[v])
        BY <1>1, <3>1, <4>1
      <4>2. \A i \in Inward(j) : job'[w] # NoJob /\ i \in Inward(job'[w])
        BY <1>3, <3>1
      <4> QED
        BY <3>2, <4>1, <4>2 DEF Promised, Inward
    <3>5. Promised \cap new = {}
      BY <1>1 DEF Promised
    <3> QED
      BY <3>3, <3>4, <3>5
  <2>5. IsFiniteSet(Promised) /\ Cardinality(Promised) \in Nat /\ Cardinality(Free) \in Nat
    BY FinitePromises DEF StockInv
  <2> HIDE DEF new
  <2>6. Cardinality(Promised \cup new) =
          Cardinality(Promised) + Cardinality(new) - Cardinality(Promised \cap new)
    BY <2>3, <2>5, FS_Union
  <2>7. Cardinality(Promised \cap new) = 0
    BY <2>4, FS_EmptySet
  <2>8. Cardinality(Promised') = Cardinality(Promised) + Cardinality(Inward(j))
    BY <2>1, <2>2, <2>3, <2>4, <2>5, <2>6, <2>7
  <2>9. Free' = Free
    BY <1>1 DEF Free, rowVars
  <2>10. Cardinality(Promised') <= Cardinality(Free)
    BY <1>1, <2>1, <2>5, <2>8
  <2> QED
    BY <2>9, <2>10 DEF BatchesPromised
<1>9. \A v \in Workers \ {w}, i \in Ingredients : row'[i] = v <=> row[i] = v
  BY <1>1
<1>10. \A i \in Ingredients : row'[i] = w => j # NoJob
  BY <1>3
<1> QED
  BY <1>1, <1>2, <1>7, <1>8, <1>9, <1>10, OneTransactionMoves

LEMMA SeqOfSet ==
    ASSUME NEW S \in SUBSET Ingredients, NEW todo \in SetToSeqs(S)
    PROVE  todo \in Seq(Ingredients) /\ Range(todo) = S
<1> DEFINE D == 1 .. Cardinality(S)
<1>1. IsFiniteSet(S) /\ Cardinality(S) \in Nat
  <2>1. IsFiniteSet(S)
    BY FS_Subset, StockAssumption
  <2> QED
    BY <2>1, FS_CardinalityType
<1>2. todo \in [D -> S] /\ \A a, b \in D : todo[a] = todo[b] => a = b
  BY DEF SetToSeqs
<1>3. IsFiniteSet(D) /\ Cardinality(D) = Cardinality(S)
  BY <1>1, FS_Interval
<1>4. todo \in Seq(Ingredients)
  <2>1. todo \in [1 .. Cardinality(S) -> Ingredients]
    BY <1>2
  <2> QED
    BY <1>1, <2>1, IsASeq
<1> HIDE DEF D
<1>5. todo \in Injection(D, S)
  BY <1>2, Fun_IsInj
<1>6. todo \in Surjection(D, S)
  BY <1>1, <1>3, <1>5, FS_Injection
<1>7. Range(todo) = S
  BY <1>6, Fun_SurjectionProperties
<1> QED
  BY <1>4, <1>7

LEMMA JobIsTyped ==
    ASSUME TypeOK, NEW kind \in Kinds, NEW o \in Orders \cup {None},
           NEW p \in Purchases \cup {None}, NEW qty \in [Ingredients -> Int],
           NEW todo \in Seq(Ingredients), NEW j, j = Job(kind, o, p, qty, todo)
    PROVE  j \in StockJob
<1>1. (IF p = None THEN None ELSE po[p]) \in PoRow \cup {None}
  BY DEF TypeOK
<1>2. Zero \in [Ingredients -> Int] /\ Nowhere \in [Ingredients -> [Places -> Int]]
      /\ [b \in Batches |-> 0] \in [Batches -> Int] /\ {} \in SUBSET Ingredients
  BY DEF Zero, Nowhere
<1> DEFINE was == IF p = None THEN None ELSE po[p]
           had == [b \in Batches |-> 0]
<1>3. p # None => was = po[p]
  OBVIOUS
<1> HIDE DEF was, had
<1>4. j =
        [kind |-> kind, order |-> o, po |-> p, qty |-> qty, todo |-> todo, read |-> Zero,
         seen |-> {}, split |-> Nowhere, had |-> had, was |-> was, next |-> None]
  BY DEF Job, was, had
<1>5. was \in PoRow \cup {None} /\ had \in [Batches -> Int]
  BY <1>1, <1>2 DEF was, had
<1> QED
  BY <1>2, <1>3, <1>4, <1>5 DEF StockJob, had

LEMMA StartKeeps ==
    ASSUME StockInv, NEW w \in Workers, Start(w)
    PROVE  StockInv'
<1>1. /\ None \notin Ingredients /\ None \notin Orders /\ None \notin Purchases
      /\ Need \in [Orders -> [Ingredients -> Nat]]
      /\ Loose \subseteq Nat \ {0} /\ Counts \subseteq Int /\ Lot \subseteq Nat \ {0}
  BY StockAssumption
<1>2. /\ "sale" \in Kinds /\ "return" \in Kinds /\ "waste" \in Kinds /\ "transfer" \in Kinds
      /\ "adjust" \in Kinds /\ "receipt" \in Kinds /\ "status" \in Kinds
      /\ Zero \in [Ingredients -> Int] /\ TypeOK
      /\ \A i \in Ingredients : <<i>> \in Seq(Ingredients)
      /\ \A i, k \in Ingredients : <<i, k>> \in Seq(Ingredients) /\ Range(<<i, k>>) = {i, k}
      /\ <<>> \in Seq(Ingredients)
      /\ None \in Orders \cup {None} /\ \A o \in Orders : o \in Orders \cup {None}
      /\ None \in Purchases \cup {None} /\ \A p \in Purchases : p \in Purchases \cup {None}
  BY DEF Kinds, Zero, StockInv, Range
<1> SUFFICES \E j : Fresh(j) /\ BeginJob(w, j)
  BY BeginKeeps
<1>3. ASSUME NEW o \in Orders, StartSale(w, o)
      PROVE  \E j : Fresh(j) /\ BeginJob(w, j)
  <2> DEFINE plan == {i \in Ingredients : Need[o][i] > 0}
             qty == [i \in Ingredients |-> -Need[o][i]]
  <2>1. PICK todo \in SetToSeqs(plan) : BeginJob(w, Job("sale", o, None, qty, todo))
    BY <1>3 DEF StartSale
  <2>2. plan \in SUBSET Ingredients /\ \A i \in Ingredients : i \notin plan => Need[o][i] = 0
    BY <1>1
  <2>3. qty \in [Ingredients -> Int] /\ \A i \in Ingredients : qty[i] = -Need[o][i]
    BY <1>1
  <2> HIDE DEF plan, qty
  <2>4. todo \in Seq(Ingredients) /\ Range(todo) = plan
    BY <2>2, SeqOfSet
  <2>5. PICK j : j = Job("sale", o, None, qty, todo)
    OBVIOUS
  <2>6. /\ j \in StockJob
        /\ j.kind = "sale" /\ j.order = o /\ j.po = None
        /\ j.qty = qty /\ j.todo = todo /\ j.split = Nowhere /\ j.had = [b \in Batches |-> 0]
    <3>1. j \in StockJob
      BY <1>2, <2>3, <2>4, <2>5, JobIsTyped
    <3> QED
      BY <2>5, <3>1 DEF Job
  <2>7. Fresh(j)
    <3>1. JobSound(j)
      BY <2>3, <2>6 DEF JobSound
    <3>2. Inward(j) = {}
      BY <2>6 DEF Inward
    <3> QED
      BY <2>2, <2>4, <2>6, <3>1, <3>2 DEF Fresh
  <2> QED
    BY <2>1, <2>5, <2>7
<1>4. ASSUME NEW o \in Orders, StartReturn(w, o)
      PROVE  \E j : Fresh(j) /\ BeginJob(w, j)
  <2>1. PICK i \in Ingredients, q \in Loose :
          BeginJob(w, Job("return", o, None, [Zero EXCEPT ![i] = q], <<i>>))
    BY <1>4 DEF StartReturn
  <2> DEFINE qty == [Zero EXCEPT ![i] = q]
  <2>2. qty \in [Ingredients -> Int]
    BY <1>1, <1>2
  <2> HIDE DEF qty
  <2>3. PICK j : j = Job("return", o, None, qty, <<i>>)
    OBVIOUS
  <2>4. /\ j \in StockJob
        /\ j.kind = "return" /\ j.order = o /\ j.po = None
        /\ j.split = Nowhere /\ j.had = [b \in Batches |-> 0]
    <3>1. j \in StockJob
      BY <1>2, <2>2, <2>3, JobIsTyped
    <3> QED
      BY <2>3, <3>1 DEF Job
  <2>5. JobSound(j) /\ Inward(j) = {}
    BY <2>4 DEF JobSound, Inward
  <2>6. Fresh(j)
    BY <2>4, <2>5 DEF Fresh
  <2> QED
    BY <2>1, <2>3, <2>6 DEF qty
<1>5. ASSUME StartWaste(w)
      PROVE  \E j : Fresh(j) /\ BeginJob(w, j)
  <2>1. PICK i \in Ingredients, q \in Loose :
          BeginJob(w, Job("waste", None, None, [Zero EXCEPT ![i] = -q], <<i>>))
    BY <1>5 DEF StartWaste
  <2> DEFINE qty == [Zero EXCEPT ![i] = -q]
  <2>2. qty \in [Ingredients -> Int] /\ \A k \in Ingredients : qty[k] <= 0
    BY <1>1, <1>2 DEF Zero
  <2> HIDE DEF qty
  <2>3. PICK j : j = Job("waste", None, None, qty, <<i>>)
    OBVIOUS
  <2>4. /\ j \in StockJob
        /\ j.kind = "waste" /\ j.po = None /\ j.qty = qty
        /\ j.split = Nowhere /\ j.had = [b \in Batches |-> 0]
    <3>1. j \in StockJob
      BY <1>2, <2>2, <2>3, JobIsTyped
    <3> QED
      BY <2>3, <3>1 DEF Job
  <2>5. JobSound(j) /\ Inward(j) = {}
    BY <2>2, <2>4 DEF JobSound, Inward
  <2>6. Fresh(j)
    BY <2>4, <2>5 DEF Fresh
  <2> QED
    BY <2>1, <2>3, <2>6 DEF qty
<1>6. ASSUME StartTransfer(w)
      PROVE  \E j : Fresh(j) /\ BeginJob(w, j)
  <2>1. PICK i \in Ingredients, k \in Ingredients, q \in Loose : i # k /\
          BeginJob(w, Job("transfer", None, None, [Zero EXCEPT ![i] = -q, ![k] = q], <<i, k>>))
    BY <1>6 DEF StartTransfer
  <2> DEFINE qty == [Zero EXCEPT ![i] = -q, ![k] = q]
  <2>2. qty \in [Ingredients -> Int] /\ \A n \in Ingredients : qty[n] > 0 => n = k
    BY <1>1, <1>2, <2>1 DEF Zero
  <2> HIDE DEF qty
  <2>3. PICK j : j = Job("transfer", None, None, qty, <<i, k>>)
    OBVIOUS
  <2>4. /\ j \in StockJob
        /\ j.kind = "transfer" /\ j.po = None /\ j.qty = qty
        /\ j.todo = <<i, k>> /\ j.split = Nowhere /\ j.had = [b \in Batches |-> 0]
    <3>1. j \in StockJob
      BY <1>2, <2>2, <2>3, JobIsTyped
    <3> QED
      BY <2>3, <3>1 DEF Job
  <2>5. JobSound(j) /\ Inward(j) \subseteq Range(j.todo)
    BY <1>2, <2>2, <2>4 DEF JobSound, Inward
  <2>6. Fresh(j)
    BY <2>4, <2>5 DEF Fresh
  <2> QED
    BY <2>1, <2>3, <2>6 DEF qty
<1>7. ASSUME StartAdjust(w)
      PROVE  \E j : Fresh(j) /\ BeginJob(w, j)
  <2>1. PICK i \in Ingredients, q \in Counts :
          BeginJob(w, Job("adjust", None, None, [Zero EXCEPT ![i] = q], <<i>>))
    BY <1>7 DEF StartAdjust
  <2> DEFINE qty == [Zero EXCEPT ![i] = q]
  <2>2. qty \in [Ingredients -> Int]
    BY <1>1, <1>2
  <2> HIDE DEF qty
  <2>3. PICK j : j = Job("adjust", None, None, qty, <<i>>)
    OBVIOUS
  <2>4. /\ j \in StockJob
        /\ j.kind = "adjust" /\ j.po = None
        /\ j.split = Nowhere /\ j.had = [b \in Batches |-> 0]
    <3>1. j \in StockJob
      BY <1>2, <2>2, <2>3, JobIsTyped
    <3> QED
      BY <2>3, <3>1 DEF Job
  <2>5. JobSound(j) /\ Inward(j) = {}
    BY <2>4 DEF JobSound, Inward
  <2>6. Fresh(j)
    BY <2>4, <2>5 DEF Fresh
  <2> QED
    BY <2>1, <2>3, <2>6 DEF qty
<1>8. ASSUME NEW p \in Purchases \cup {None}, StartReceipt(w, p)
      PROVE  \E j : Fresh(j) /\ BeginJob(w, j)
  <2>1. PICK lines \in SUBSET Ingredients \ {{}}, q \in Lot : \E todo \in SetToSeqs(lines) :
          BeginJob(w, [Job("receipt", None, p, [i \in Ingredients |-> IF i \in lines THEN q ELSE 0], todo)
                         EXCEPT !.read = stock, !.seen = Ingredients])
    BY <1>8 DEF StartReceipt
  <2> DEFINE qty == [i \in Ingredients |-> IF i \in lines THEN q ELSE 0]
  <2>2. PICK todo \in SetToSeqs(lines) :
          BeginJob(w, [Job("receipt", None, p, qty, todo) EXCEPT !.read = stock, !.seen = Ingredients])
    BY <2>1
  <2>3. /\ qty \in [Ingredients -> Int] /\ \A i \in Ingredients : qty[i] > 0 => i \in lines
        /\ \A i \in Ingredients : qty[i] >= 0
    BY <1>1
  <2> HIDE DEF qty
  <2>4. todo \in Seq(Ingredients) /\ Range(todo) = lines
    BY SeqOfSet
  <2>5. PICK f : f = Job("receipt", None, p, qty, todo)
    OBVIOUS
  <2>6. /\ f \in StockJob
        /\ f.kind = "receipt" /\ f.po = p /\ f.qty = qty /\ f.todo = todo
        /\ f.split = Nowhere /\ f.had = [b \in Batches |-> 0]
        /\ f.po # None => f.was = po[f.po]
    <3>1. f \in StockJob
      BY <1>2, <2>3, <2>4, <2>5, JobIsTyped
    <3> QED
      BY <2>5, <3>1 DEF Job
  <2>7. PICK j : j = [f EXCEPT !.read = stock, !.seen = Ingredients]
    OBVIOUS
  <2>8. /\ j \in StockJob
        /\ j.kind = "receipt" /\ j.po = p /\ j.qty = qty /\ j.todo = todo
        /\ j.split = Nowhere /\ j.had = [b \in Batches |-> 0]
        /\ j.po # None => j.was = po[j.po]
    <3>1. stock \in [Ingredients -> Int]
      BY <1>2 DEF TypeOK
    <3> QED
      BY <2>6, <2>7, <3>1 DEF StockJob
  <2>9. JobSound(j)
    <3>1. p # None => po[p] \in PoRow /\ po[p].status # "RECEIVED"
      BY <1>2, <1>8 DEF TypeOK, StartReceipt
    <3> QED
      BY <2>3, <2>8, <3>1 DEF JobSound
  <2>10. Inward(j) \subseteq Range(j.todo)
    BY <2>3, <2>4, <2>8 DEF Inward
  <2>11. Fresh(j)
    BY <2>8, <2>9, <2>10 DEF Fresh
  <2> QED
    BY <2>2, <2>5, <2>7, <2>11
<1>9. ASSUME NEW p \in Purchases, StartStatus(w, p)
      PROVE  \E j : Fresh(j) /\ BeginJob(w, j)
  <2>1. PICK s \in NextStatus(po[p].status) :
          BeginJob(w, [Job("status", None, p, Zero, <<>>) EXCEPT !.next = s])
    BY <1>9 DEF StartStatus
  <2>2. s \in {"SENT", "CANCELLED"} /\ s \in PoStatus
    BY DEF NextStatus, PoStatus
  <2>3. PICK f : f = Job("status", None, p, Zero, <<>>)
    OBVIOUS
  <2>4. /\ f \in StockJob /\ f.kind = "status" /\ f.po = p /\ f.qty = Zero
        /\ f.split = Nowhere /\ f.had = [b \in Batches |-> 0]
        /\ f.po # None => f.was = po[f.po]
    <3>1. f \in StockJob
      BY <1>2, <2>3, JobIsTyped
    <3> QED
      BY <2>3, <3>1 DEF Job
  <2>5. PICK j : j = [f EXCEPT !.next = s]
    OBVIOUS
  <2>6. /\ j \in StockJob /\ j.kind = "status" /\ j.po = p /\ j.next = s
        /\ j.split = Nowhere /\ j.had = [b \in Batches |-> 0]
        /\ j.po # None => j.was = po[j.po]
    BY <2>2, <2>4, <2>5 DEF StockJob
  <2>7. JobSound(j) /\ Inward(j) = {}
    <3>1. po[p] \in PoRow /\ p # None
      BY <1>1, <1>2 DEF TypeOK
    <3> QED
      BY <2>2, <2>6, <3>1 DEF JobSound, Inward
  <2>8. Fresh(j)
    BY <2>6, <2>7 DEF Fresh
  <2> QED
    BY <2>1, <2>3, <2>5, <2>8
<1> QED
  BY <1>3, <1>4, <1>5, <1>6, <1>7, <1>8, <1>9 DEF Start

-----------------------------------------------------------------------------
(* A transaction goes on *)

\* Reading the ingredient without a lock.
LEMMA ReadKeeps ==
    ASSUME StockInv, NEW w \in Workers, ReadStock(w)
    PROVE  StockInv'
<1>1. PICK i : i = Head1(w)
  OBVIOUS
<1>2. PICK j : j = job[w]
  OBVIOUS
<1>3. /\ j # NoJob /\ j.todo # <<>>
      /\ job' = [job EXCEPT ![w].read[i] = stock[i], ![w].seen = @ \cup {i}]
      /\ UNCHANGED rowVars /\ row' = row /\ made' = made
  BY <1>1, <1>2 DEF ReadStock, Busy, rowVars
<1>4. /\ j \in StockJob /\ JobFits(w, j) /\ stock \in [Ingredients -> Int] /\ made' \in Nat
      /\ row' \in [Ingredients -> Workers \cup {None}] /\ job \in [Workers -> StockJob \cup {NoJob}]
  BY <1>2, <1>3 DEF StockInv, TypeOK, JobsFit, Running
<1>5. i \in Ingredients
  <2>1. j.todo \in Seq(Ingredients) /\ i = j.todo[1]
    BY <1>1, <1>2, <1>4 DEF StockJob, Head1
  <2> QED
    BY <1>3, <2>1
<1> DEFINE read == [j.read EXCEPT ![i] = stock[i]]
           seen == j.seen \cup {i}
<1>6. PICK x : x = [j EXCEPT !.read = read, !.seen = seen]
  OBVIOUS
<1>7. job' = [job EXCEPT ![w] = x]
  BY <1>2, <1>3, <1>4, <1>6 DEF StockJob
<1>8. read \in [Ingredients -> Int] /\ seen \in SUBSET Ingredients
  BY <1>4, <1>5 DEF StockJob
<1> HIDE DEF read, seen
<1>9. /\ x \in StockJob /\ x.kind = j.kind /\ x.order = j.order /\ x.po = j.po /\ x.qty = j.qty
      /\ x.todo = j.todo /\ x.split = j.split /\ x.had = j.had /\ x.was = j.was /\ x.next = j.next
  BY <1>4, <1>6, <1>8 DEF StockJob
<1>10. x # NoJob
  BY <1>9 DEF StockJob, NoJob, Kinds
<1>11. JobFits(w, x)
  <2>1. Inward(x) = Inward(j)
    BY <1>9 DEF Inward
  <2>2. JobSound(x) /\ ReadDelivered(x)
    BY <1>4, <1>9 DEF JobFits, JobSound, ReadDelivered
  <2>3. HoldsItsLocks(w, x)
    BY <1>4, <1>9, <2>1 DEF JobFits, HoldsItsLocks
  <2>4. TakesWhatIsThere(x)
    BY <1>4, <1>9 DEF JobFits, TakesWhatIsThere
  <2>5. FollowsThePlan(x)
    BY <1>4, <1>9 DEF JobFits, FollowsThePlan
  <2> QED
    BY <2>2, <2>3, <2>4, <2>5 DEF JobFits
<1>12. JobFits(w, x)'
  <2>1. \A o \in Orders, k \in Ingredients : Room(o, k)' = Room(o, k)
    BY <1>3 DEF Room, rowVars
  <2>2. \A p \in Purchases, k \in Ingredients : delivered[p][k] \in Int
    BY DEF StockInv, TypeOK
  <2>3. SparesWhatIsHeld(w)
    BY <1>3, <2>1, <2>2 DEF SparesWhatIsHeld, rowVars
  <2>4. RowsSound'
    BY <1>3, RowsStay DEF StockInv
  <2>5. TypeOK'
    <3>1. job' \in [Workers -> StockJob \cup {NoJob}]
      BY <1>4, <1>7, <1>9
    <3> QED
      BY <1>3, <1>4, <3>1 DEF StockInv, TypeOK, rowVars
  <2> QED
    BY <1>9, <1>11, <2>3, <2>4, <2>5, OthersKeep DEF StockInv, RowsSound
<1>13. BatchesPromised'
  <2>1. Inward(x) = Inward(job[w]) /\ Running(w)
    BY <1>2, <1>3, <1>9 DEF Inward, Running
  <2> QED
    BY <1>3, <1>7, <2>1, NoNewPromise DEF StockInv, rowVars
<1>14. \A v \in Workers \ {w}, k \in Ingredients : row'[k] = v <=> row[k] = v
  BY <1>3
<1>15. \A k \in Ingredients : row'[k] = w => x # NoJob
  BY <1>10
<1>16. x \in StockJob \cup {NoJob} /\ UNCHANGED rowVars
  BY <1>3, <1>9
<1> QED
  BY <1>4, <1>7, <1>12, <1>13, <1>14, <1>15, <1>16, OneTransactionMoves

\* What a transaction plans for ingredient i, whose row it locks.
Plans(w, i, j) ==
    /\ j \in StockJob
    /\ j.kind = job[w].kind /\ j.order = job[w].order /\ j.po = job[w].po
    /\ j.was = job[w].was /\ j.next = job[w].next
    /\ j.todo = job[w].todo /\ j.had = job[w].had
    /\ j.kind # "return" => j.qty = job[w].qty
    /\ \A k \in Ingredients \ {i} : j.split[k] = job[w].split[k]
    /\ \A b \in Batches : j.kind # "return" => j.split[i][b] \in 0 .. Left(i)[b]
    /\ j.kind # "return" => j.split[i][Rest] >= 0
    /\ \A p \in Places : j.kind = "return" => j.split[i][p] \in 0 .. Room(j.order, i)[p]
    /\ j.kind = "sale" => Total(j.split[i], Places) = Need[j.order][i]

\* What is locked in the end, but with the new plan and the batches as read.
LEMMA DoneFits ==
    ASSUME StockInv, NEW w \in Workers, Busy(w), NEW i \in Ingredients, i = Head1(w),
           row[i] \in {None, w}, NEW j, Plans(w, i, j), NEW x \in StockJob,
           NEW had, had = [b \in Batches |-> IF batch[b].of = i THEN batch[b].left ELSE j.had[b]],
           x = [j EXCEPT !.todo = Tail(@), !.had = had],
           row' = [row EXCEPT ![i] = w], UNCHANGED rowVars
    PROVE  JobFits(w, x)'
<1>1. PICK f : f = job[w]
  OBVIOUS
<1>2. /\ f \in StockJob /\ f # NoJob /\ f.todo # <<>> /\ i = f.todo[1] /\ JobFits(w, f)
      /\ row \in [Ingredients -> Workers \cup {None}] /\ batch \in [Batches -> BatchRow]
  BY <1>1 DEF StockInv, TypeOK, Busy, Head1, JobsFit, Running
<1>3. /\ j \in StockJob
      /\ j.kind = f.kind /\ j.order = f.order /\ j.po = f.po /\ j.was = f.was
      /\ j.next = f.next /\ j.todo = f.todo /\ j.had = f.had
      /\ j.kind # "return" => j.qty = f.qty
      /\ \A k \in Ingredients \ {i} : j.split[k] = f.split[k]
  BY <1>1 DEF Plans
<1>4. /\ x.kind = f.kind /\ x.order = f.order /\ x.po = f.po /\ x.was = f.was
      /\ x.next = f.next /\ x.todo = Tail(f.todo) /\ x.qty = j.qty /\ x.split = j.split
      /\ x.had = had
  BY <1>3 DEF StockJob
<1>5. \A k \in Ingredients : k \in Range(f.todo) => k = i \/ k \in Range(x.todo)
  <2>1. f.todo \in Seq(Ingredients)
    BY <1>2 DEF StockJob
  <2> SUFFICES ASSUME NEW k \in Range(f.todo), k # i PROVE k \in Range(Tail(f.todo))
    BY <1>4
  <2>2. PICK n \in 1 .. Len(f.todo) : f.todo[n] = k
    BY <2>1 DEF Range
  <2>3. n # 1 /\ n - 1 \in 1 .. Len(f.todo) - 1
    BY <1>2, <2>1, <2>2
  <2>4. Len(Tail(f.todo)) = Len(f.todo) - 1 /\ Tail(f.todo)[n - 1] = f.todo[n]
        /\ Tail(f.todo) \in Seq(Ingredients)
    BY <1>2, <2>1, <2>3
  <2> QED
    BY <2>2, <2>3, <2>4 DEF Range
<1>6. \A b \in Batches : had[b] = IF batch[b].of = i THEN batch[b].left ELSE f.had[b]
  BY <1>3
<1>7. \A k \in Ingredients : row'[k] = IF k = i THEN w ELSE row[k]
  BY <1>2
<1>8. \A b \in Batches : batch[b].left \in Nat /\ f.had[b] \in Int
  <2>1. \A b \in Batches : batch[b].left \in Int
    BY <1>2 DEF BatchRow
  <2>2. \A b \in Batches : batch[b].left >= 0
    BY DEF StockInv, RowsSound, BatchesSound
  <2>3. f.had \in [Batches -> Int]
    BY <1>2 DEF StockJob
  <2> QED
    BY <2>1, <2>2, <2>3
<1>9. Inward(x) = Inward(f)
  BY <1>3, <1>4 DEF Inward
<1>10. JobSound(x)
  BY <1>2, <1>3, <1>4 DEF JobFits, JobSound
<1>11. ReadDelivered(x)
  BY <1>2, <1>4 DEF JobFits, ReadDelivered
<1>12. HoldsItsLocks(w, x)'
  <2> SUFFICES ASSUME NEW k \in Ingredients
               PROVE  /\ \A p \in Places : x.split[k][p] # 0 => row'[k] = w
                      /\ k \in Inward(x) => row'[k] = w \/ k \in Range(x.todo)
                      /\ row'[k] = w => \A b \in Batches : batch'[b].of = k => x.had[b] = batch'[b].left
    BY DEF HoldsItsLocks, Inward
  <2>1. \A p \in Places : x.split[k][p] # 0 => row'[k] = w
    BY <1>2, <1>3, <1>4, <1>7 DEF JobFits, HoldsItsLocks
  <2>2. k \in Inward(x) => row'[k] = w \/ k \in Range(x.todo)
    BY <1>2, <1>5, <1>7, <1>9 DEF JobFits, HoldsItsLocks
  <2>3. row'[k] = w => \A b \in Batches : batch[b].of = k => x.had[b] = batch[b].left
    BY <1>2, <1>4, <1>6, <1>7 DEF JobFits, HoldsItsLocks
  <2> QED
    BY <2>1, <2>2, <2>3 DEF rowVars
<1>13. TakesWhatIsThere(x)
  <2> SUFFICES ASSUME NEW k \in Ingredients
               PROVE  /\ \A b \in Batches :
                           /\ x.split[k][b] # 0 => batch[b].of = k
                           /\ x.kind # "return" => x.split[k][b] \in 0 .. x.had[b]
                      /\ x.kind # "return" => x.split[k][Rest] >= 0
                      /\ x.kind = "return" => \A p \in Places :
                           x.split[k][p] \in 0 .. Room(x.order, k)[p]
    BY DEF TakesWhatIsThere
  <2>1. CASE k # i
    <3>1. x.split[k] = f.split[k]
      BY <1>3, <1>4, <2>1
    <3>2. \A b \in Batches :
            /\ f.split[k][b] # 0 => batch[b].of = k
            /\ f.kind # "return" => f.split[k][b] \in 0 .. f.had[b]
      BY <1>2 DEF JobFits, TakesWhatIsThere
    <3>3. /\ f.kind # "return" => f.split[k][Rest] >= 0
          /\ f.kind = "return" => \A p \in Places :
               f.split[k][p] \in 0 .. Room(f.order, k)[p]
      BY <1>2 DEF JobFits, TakesWhatIsThere
    <3>4. \A b \in Batches : f.kind # "return" => f.split[k][b] \in 0 .. had[b]
      BY <1>6, <1>8, <2>1, <3>2
    <3> QED
      BY <1>4, <3>1, <3>2, <3>3, <3>4
  <2>2. CASE k = i
    <3>1. \A b \in Batches : x.kind # "return" =>
            (x.split[i][b] # 0 => batch[b].of = i) /\ x.split[i][b] \in 0 .. x.had[b]
      <4> SUFFICES ASSUME NEW b \in Batches, x.kind # "return"
                   PROVE  (x.split[i][b] # 0 => batch[b].of = i) /\ x.split[i][b] \in 0 .. x.had[b]
        OBVIOUS
      <4>1. x.split[i][b] \in 0 .. Left(i)[b]
        BY <1>3, <1>4 DEF Plans
      <4>2. Left(i)[b] = IF batch[b].of = i THEN batch[b].left ELSE 0
        BY DEF Left
      <4>3. had[b] \in Nat
        <5>1. f.split[i][b] \in 0 .. f.had[b]
          BY <1>2, <1>4 DEF JobFits, TakesWhatIsThere
        <5> QED
          BY <1>6, <1>8, <5>1
      <4> QED
        BY <1>4, <1>6, <1>8, <4>1, <4>2, <4>3
    <3>2. \A p \in Places : x.kind = "return" => x.split[i][p] \in 0 .. Room(x.order, i)[p]
      BY <1>3, <1>4 DEF Plans
    <3>3. \A b \in Batches : x.kind = "return" /\ x.split[i][b] # 0 => batch[b].of = i
      <4> SUFFICES ASSUME NEW b \in Batches, x.kind = "return", batch[b].of # i
                   PROVE  x.split[i][b] = 0
        OBVIOUS
      <4>1. x.order \in Orders /\ b \in Places
        BY <1>10, FinitePlaces DEF JobSound
      <4>2. sold[x.order][i][b] = 0 /\ back[x.order][i][b] = 0
        BY <4>1 DEF StockInv, RowsSound, BatchesSound
      <4>3. Room(x.order, i)[b] = 0
        BY <4>1, <4>2 DEF Room
      <4>4. x.split[i][b] \in 0 .. Room(x.order, i)[b]
        BY <3>2, <4>1
      <4> QED
        BY <4>3, <4>4
    <3>4. x.kind # "return" => x.split[i][Rest] >= 0
      BY <1>3, <1>4 DEF Plans
    <3> QED
      BY <2>2, <3>1, <3>2, <3>3, <3>4
  <2> QED
    BY <2>1, <2>2
<1>14. FollowsThePlan(x)
  <2> SUFFICES ASSUME x.kind = "sale", NEW k \in Ingredients, k \notin Range(x.todo)
               PROVE  Total(x.split[k], Places) = Need[x.order][k]
    BY DEF FollowsThePlan
  <2>1. CASE k = i
    BY <1>3, <1>4, <2>1 DEF Plans
  <2>2. CASE k # i
    <3>1. k \notin Range(f.todo)
      BY <1>5, <2>2
    <3>2. Total(f.split[k], Places) = Need[f.order][k]
      BY <1>2, <1>4, <3>1 DEF JobFits, FollowsThePlan
    <3> QED
      BY <1>3, <1>4, <2>2, <3>2
  <2> QED
    BY <2>1, <2>2
<1>15. JobSound(x)' /\ ReadDelivered(x)' /\ FollowsThePlan(x)'
  <2>1. ReadDelivered(x)'
    BY <1>11 DEF ReadDelivered, rowVars
  <2>2. JobSound(x)' /\ FollowsThePlan(x)'
    BY <1>10, <1>14 DEF JobSound, FollowsThePlan
  <2> QED
    BY <2>1, <2>2
<1>16. TakesWhatIsThere(x)'
  <2>1. \A o \in Orders, k \in Ingredients : Room(o, k)' = Room(o, k)
    BY DEF Room, rowVars
  <2>2. x.kind = "return" => x.order \in Orders
    BY <1>10 DEF JobSound
  <2>3. batch' = batch
    BY DEF rowVars
  <2> QED
    BY <1>13, <2>1, <2>2, <2>3 DEF TakesWhatIsThere
<1> QED
  BY <1>12, <1>15, <1>16 DEF JobFits

LEMMA DoneKeeps ==
    ASSUME StockInv, NEW w \in Workers, Busy(w), NEW i \in Ingredients, i = Head1(w),
           NEW j, Plans(w, i, j), Done(w, i, j)
    PROVE  StockInv'
<1>1. PICK had : had = [b \in Batches |-> IF batch[b].of = i THEN batch[b].left ELSE j.had[b]]
  OBVIOUS
<1>2. PICK x : x = [j EXCEPT !.todo = Tail(@), !.had = had]
  OBVIOUS
<1>3. /\ row[i] \in {None, w} /\ row' = [row EXCEPT ![i] = w] /\ UNCHANGED rowVars
      /\ job' = [job EXCEPT ![w] = x] /\ made' = made
  BY <1>1, <1>2 DEF Done, Lockable, rowVars
<1>4. /\ job \in [Workers -> StockJob \cup {NoJob}] /\ job[w] \in StockJob
      /\ row \in [Ingredients -> Workers \cup {None}] /\ made' \in Nat
      /\ batch \in [Batches -> BatchRow] /\ j \in StockJob /\ job[w] # NoJob
      /\ j.todo = job[w].todo /\ j.todo # <<>>
  BY <1>3 DEF StockInv, TypeOK, Busy, Plans
<1>5. had \in [Batches -> Int] /\ Tail(j.todo) \in Seq(Ingredients)
  <2>1. j.todo \in Seq(Ingredients) /\ j.had \in [Batches -> Int]
    BY <1>4 DEF StockJob
  <2>2. \A b \in Batches : batch[b].left \in Int
    BY <1>4 DEF BatchRow
  <2> QED
    BY <1>1, <1>4, <2>1, <2>2
<1>6. /\ x \in StockJob /\ x.kind = j.kind /\ x.qty = j.qty
  BY <1>2, <1>4, <1>5 DEF StockJob
<1>7. x # NoJob
  BY <1>6 DEF StockJob, NoJob, Kinds
<1>8. JobFits(w, x)'
  BY <1>1, <1>2, <1>3, <1>6, DoneFits
<1>9. BatchesPromised'
  <2>1. Inward(x) = Inward(job[w])
    BY <1>6 DEF Inward, Plans
  <2> QED
    BY <1>3, <1>4, <2>1, NoNewPromise DEF StockInv, rowVars, Running
<1>10. row' \in [Ingredients -> Workers \cup {None}]
  BY <1>3, <1>4
<1>11. \A v \in Workers \ {w}, k \in Ingredients : row'[k] = v <=> row[k] = v
  <2>1. None \notin Workers
    BY StockAssumption
  <2> QED
    BY <1>3, <1>4, <2>1
<1>12. \A k \in Ingredients : row'[k] = w => x # NoJob
  BY <1>7
<1>13. x \in StockJob \cup {NoJob}
  BY <1>6
<1> QED
  BY <1>3, <1>4, <1>8, <1>9, <1>10, <1>11, <1>12, <1>13, OneTransactionMoves

\* consumeStock: oldest batches first.
LEMMA ConsumeKeeps ==
    ASSUME StockInv, NEW w \in Workers, Consume(w)
    PROVE  StockInv'
<1>1. PICK i : i = Head1(w)
  OBVIOUS
<1>2. PICK f : f = job[w]
  OBVIOUS
<1>3. /\ Busy(w) /\ Out(w) /\ f # NoJob /\ f.todo # <<>> /\ i = f.todo[1]
      /\ Done(w, i, [f EXCEPT !.split[i] = Fifo(i, -f.qty[i])])
  BY <1>1, <1>2 DEF Consume, Busy, Head1
<1>4. f \in StockJob /\ JobFits(w, f) /\ i \in Ingredients
  <2>1. f \in StockJob /\ JobFits(w, f)
    BY <1>2, <1>3 DEF StockInv, TypeOK, JobsFit, Running
  <2>2. f.todo \in Seq(Ingredients)
    BY <2>1 DEF StockJob
  <2> QED
    BY <1>3, <2>1, <2>2
<1>5. /\ f.qty[i] \in Int
      /\ f.kind # "return"
      /\ -f.qty[i] \in Nat
      /\ f.kind = "sale" => -f.qty[i] = Need[f.order][i]
  <2>1. f.qty[i] \in Int
    BY <1>4 DEF StockJob
  <2>2. CASE f.kind = "sale"
    <3>1. f.qty[i] = -Need[f.order][i] /\ f.order \in Orders
      BY <1>4, <2>2 DEF JobFits, JobSound
    <3>2. Need[f.order][i] \in Nat
      BY <1>4, <3>1, StockAssumption
    <3> QED
      BY <2>1, <2>2, <3>1, <3>2
  <2>3. CASE f.kind = "waste"
    <3>1. f.qty[i] <= 0
      BY <1>4, <2>3 DEF JobFits, JobSound
    <3> QED
      BY <2>1, <2>3, <3>1
  <2>4. CASE f.kind = "transfer" /\ f.qty[i] < 0
    BY <2>1, <2>4
  <2> QED
    BY <1>1, <1>2, <1>3, <2>2, <2>3, <2>4 DEF Out
<1>6. PICK q \in Nat : q = -f.qty[i]
  BY <1>5
<1>7. PICK take \in [Places -> Nat] : take = Fifo(i, q) /\ Total(take, Places) = q
                                      /\ \A b \in Batches : take[b] <= Left(i)[b]
  BY <1>4, FifoFits DEF StockInv, RowsSound
<1>8. PICK x : x = [f EXCEPT !.split[i] = take]
  OBVIOUS
<1>9. Done(w, i, x)
  BY <1>3, <1>6, <1>7, <1>8
<1>10. Plans(w, i, x)
  <2> DEFINE split == [f.split EXCEPT ![i] = take]
  <2>1. x = [f EXCEPT !.split = split]
    BY <1>8
  <2>2. /\ split \in [Ingredients -> [Places -> Int]] /\ split[i] = take
        /\ \A k \in Ingredients \ {i} : split[k] = f.split[k]
    <3>1. f.split \in [Ingredients -> [Places -> Int]] /\ take \in [Places -> Int]
      BY <1>4 DEF StockJob
    <3> QED
      BY <1>4, <3>1
  <2> HIDE DEF split
  <2>3. /\ x \in StockJob /\ x.split = split
        /\ x.kind = f.kind /\ x.order = f.order /\ x.po = f.po /\ x.was = f.was
        /\ x.next = f.next /\ x.todo = f.todo /\ x.had = f.had /\ x.qty = f.qty
    BY <1>4, <2>1, <2>2 DEF StockJob
  <2>4. Left(i) \in [Batches -> Nat]
    BY <1>4, FiguresAreNumbers DEF StockInv, RowsSound
  <2>5. \A b \in Batches : x.split[i][b] \in 0 .. Left(i)[b]
    BY <1>7, <2>2, <2>3, <2>4, FinitePlaces
  <2>6. x.split[i][Rest] >= 0
    BY <1>7, <2>2, <2>3, FinitePlaces
  <2>7. x.kind = "sale" => Total(x.split[i], Places) = Need[x.order][i]
    BY <1>5, <1>6, <1>7, <2>2, <2>3
  <2> QED
    BY <1>2, <1>5, <2>2, <2>3, <2>5, <2>6, <2>7 DEF Plans
<1> QED
  BY <1>1, <1>3, <1>4, <1>9, <1>10, DoneKeeps

\* restoreStock: to the places the order took from.
LEMMA RestoreKeeps ==
    ASSUME StockInv, NEW w \in Workers, Restore(w)
    PROVE  StockInv'
<1>1. PICK i : i = Head1(w)
  OBVIOUS
<1>2. PICK f : f = job[w]
  OBVIOUS
<1>3. Busy(w) /\ f.kind = "return" /\ f # NoJob /\ f.todo # <<>> /\ i = f.todo[1]
  BY <1>1, <1>2 DEF Restore, Busy, Head1
<1>4. f \in StockJob /\ JobFits(w, f) /\ i \in Ingredients /\ f.order \in Orders
  <2>1. f \in StockJob /\ JobFits(w, f)
    BY <1>2, <1>3 DEF StockInv, TypeOK, JobsFit, Running
  <2>2. f.todo \in Seq(Ingredients)
    BY <2>1 DEF StockJob
  <2> QED
    BY <1>3, <2>1, <2>2 DEF JobFits, JobSound
<1>5. PICK o \in Orders : o = f.order
  BY <1>4
<1>6. PICK q : q = Least(f.qty[i], Total(Room(o, i), Places))
  OBVIOUS
<1>7. q \in Int
  <2>1. Room(o, i) \in [Places -> Nat]
    BY <1>4, FiguresAreNumbers DEF StockInv, RowsSound
  <2>2. Total(Room(o, i), Places) \in Nat
    <3>1. \A p \in Places : Room(o, i)[p] \in Int
      BY <2>1
    <3> QED
      BY <3>1, FinitePlaces, UnitsAreFinite
  <2>3. f.qty[i] \in Int
    BY <1>4 DEF StockJob
  <2> QED
    BY <1>6, <2>2, <2>3 DEF Least
<1>8. PICK give \in [Places -> Int] : give = GiveBack(o, i, q)
                                      /\ \A p \in Places : give[p] \in 0 .. Room(o, i)[p]
  BY <1>4, <1>7, GiveBackFits DEF StockInv, RowsSound
<1>9. PICK stk \in Int : stk = stock[i]
  BY <1>4 DEF StockInv, TypeOK
<1>10. PICK x : x = [f EXCEPT !.qty[i] = q, !.read[i] = stk, !.split[i] = give]
  OBVIOUS
<1>11. Done(w, i, x)
  BY <1>1, <1>2, <1>5, <1>6, <1>8, <1>9, <1>10 DEF Restore
<1>12. Plans(w, i, x)
  <2> DEFINE split == [f.split EXCEPT ![i] = give]
             qty == [f.qty EXCEPT ![i] = q]
             read == [f.read EXCEPT ![i] = stk]
  <2>1. x = [f EXCEPT !.qty = qty, !.read = read, !.split = split]
    BY <1>10
  <2>2. /\ split \in [Ingredients -> [Places -> Int]] /\ split[i] = give
        /\ \A k \in Ingredients \ {i} : split[k] = f.split[k]
    <3>1. f.split \in [Ingredients -> [Places -> Int]]
      BY <1>4 DEF StockJob
    <3> QED
      BY <1>4, <3>1
  <2>3. qty \in [Ingredients -> Int] /\ read \in [Ingredients -> Int]
    <3>1. f.qty \in [Ingredients -> Int] /\ f.read \in [Ingredients -> Int]
      BY <1>4 DEF StockJob
    <3> QED
      BY <1>4, <1>7, <1>9, <3>1
  <2> HIDE DEF split, qty, read
  <2>4. /\ x \in StockJob /\ x.split = split
        /\ x.kind = f.kind /\ x.order = f.order /\ x.po = f.po /\ x.was = f.was
        /\ x.next = f.next /\ x.todo = f.todo /\ x.had = f.had
    BY <1>4, <2>1, <2>2, <2>3 DEF StockJob
  <2>5. \A p \in Places : x.split[i][p] \in 0 .. Room(x.order, i)[p]
    BY <1>5, <1>8, <2>2, <2>4
  <2> QED
    BY <1>2, <1>3, <2>2, <2>4, <2>5 DEF Plans
<1> QED
  BY <1>1, <1>3, <1>4, <1>11, <1>12, DoneKeeps

\* A step which plans nothing but reads the stock, or not even that.
LEMMA NothingPlanned ==
    ASSUME StockInv, NEW w \in Workers, Busy(w), job[w].kind \in {"transfer", "adjust", "receipt"},
           NEW i \in Ingredients, i = Head1(w), row[i] \in {None, w},
           NEW j \in StockJob, NEW read, j = [job[w] EXCEPT !.read = read]
    PROVE  Plans(w, i, j)
<1>1. PICK f : f = job[w]
  OBVIOUS
<1>2. f \in StockJob /\ JobFits(w, f) /\ f.kind \in {"transfer", "adjust", "receipt"}
  BY <1>1 DEF StockInv, TypeOK, JobsFit, Running, Busy
<1>3. /\ j.split = f.split
      /\ j.kind = f.kind /\ j.order = f.order /\ j.po = f.po /\ j.was = f.was
      /\ j.next = f.next /\ j.todo = f.todo /\ j.had = f.had /\ j.qty = f.qty
  BY <1>1, <1>2 DEF StockJob
<1>4. Left(i) \in [Batches -> Nat]
  BY FiguresAreNumbers DEF StockInv, RowsSound
<1>5. \A b \in Batches : f.split[i][b] \in 0 .. Left(i)[b]
  <2> SUFFICES ASSUME NEW b \in Batches PROVE f.split[i][b] \in 0 .. Left(i)[b]
    OBVIOUS
  <2>1. Left(i)[b] \in Nat /\ Left(i)[b] = IF batch[b].of = i THEN batch[b].left ELSE 0
    BY <1>4 DEF Left
  <2>2. CASE f.split[i][b] = 0
    BY <2>1, <2>2
  <2>3. CASE f.split[i][b] # 0
    <3>1. row[i] = w /\ batch[b].of = i /\ f.split[i][b] \in 0 .. f.had[b]
      BY <1>2, <2>3, FinitePlaces DEF JobFits, HoldsItsLocks, TakesWhatIsThere
    <3>2. f.had[b] = batch[b].left
      BY <1>2, <3>1 DEF JobFits, HoldsItsLocks
    <3> QED
      BY <2>1, <3>1, <3>2
  <2> QED
    BY <2>2, <2>3
<1>6. f.split[i][Rest] >= 0
  BY <1>2 DEF JobFits, TakesWhatIsThere
<1> QED
  BY <1>1, <1>2, <1>3, <1>5, <1>6 DEF Plans

\* The receiving side of a transfer.
LEMMA ArriveKeeps ==
    ASSUME StockInv, NEW w \in Workers, Arrive(w)
    PROVE  StockInv'
<1>1. PICK i : i = Head1(w)
  OBVIOUS
<1>2. PICK f : f = job[w]
  OBVIOUS
<1>3. /\ Busy(w) /\ f.kind = "transfer" /\ f # NoJob /\ f.todo # <<>> /\ i = f.todo[1]
      /\ Done(w, i, [f EXCEPT !.read[i] = stock[i]]) /\ row[i] \in {None, w}
  BY <1>1, <1>2 DEF Arrive, Busy, Head1, Done, Lockable
<1>4. f \in StockJob /\ i \in Ingredients
  <2>1. f \in StockJob
    BY <1>2, <1>3 DEF StockInv, TypeOK
  <2>2. f.todo \in Seq(Ingredients)
    BY <2>1 DEF StockJob
  <2> QED
    BY <1>3, <2>1, <2>2
<1>5. PICK read : read = [f.read EXCEPT ![i] = stock[i]]
  OBVIOUS
<1>6. PICK x : x = [f EXCEPT !.read = read]
  OBVIOUS
<1>7. Done(w, i, x)
  BY <1>3, <1>5, <1>6
<1>8. x \in StockJob
  <2>1. f.read \in [Ingredients -> Int] /\ stock[i] \in Int
    BY <1>4 DEF StockJob, StockInv, TypeOK
  <2>2. read \in [Ingredients -> Int]
    BY <1>4, <1>5, <2>1
  <2> QED
    BY <1>4, <1>6, <2>2 DEF StockJob
<1>9. Plans(w, i, x)
  BY <1>1, <1>2, <1>3, <1>4, <1>6, <1>8, NothingPlanned
<1> QED
  BY <1>1, <1>3, <1>4, <1>7, <1>9, DoneKeeps

\* A correction or a line of a receipt.
LEMMA BookKeeps ==
    ASSUME StockInv, NEW w \in Workers, Book(w)
    PROVE  StockInv'
<1>1. PICK i : i = Head1(w)
  OBVIOUS
<1>2. PICK f : f = job[w]
  OBVIOUS
<1>3. /\ Busy(w) /\ f.kind \in {"adjust", "receipt"} /\ f # NoJob /\ f.todo # <<>>
      /\ i = f.todo[1] /\ Done(w, i, f) /\ row[i] \in {None, w}
  BY <1>1, <1>2 DEF Book, Busy, Head1, Done, Lockable
<1>4. f \in StockJob /\ i \in Ingredients
  <2>1. f \in StockJob
    BY <1>2, <1>3 DEF StockInv, TypeOK
  <2>2. f.todo \in Seq(Ingredients)
    BY <2>1 DEF StockJob
  <2> QED
    BY <1>3, <2>1, <2>2
<1>5. f = [f EXCEPT !.read = f.read]
  BY <1>4 DEF StockJob
<1>6. Plans(w, i, f)
  BY <1>1, <1>2, <1>3, <1>4, <1>5, NothingPlanned
<1> QED
  BY <1>1, <1>3, <1>4, <1>6, DoneKeeps

-----------------------------------------------------------------------------
(* The end of a transaction *)

\* What a commit writes, for the transaction j it ends.
Ends(w, j) ==
    /\ j \in StockJob /\ JobFits(w, j) /\ j = job[w] /\ j.todo = <<>> /\ MayCommit(j)
    /\ stock' = [i \in Ingredients |-> Written(j, i)]
    /\ batch' = [b \in Batches |-> BatchAfter(j, b)]
    /\ moved' = [i \in Ingredients |-> moved[i] + j.qty[i]]
    /\ drawn' = [b \in Batches |-> drawn[b] + Taken(j, b)]
    /\ sold' = IF j.kind = "sale" THEN [sold EXCEPT ![j.order] = Plus(@, j.split)] ELSE sold
    /\ back' = IF j.kind = "return" THEN [back EXCEPT ![j.order] = Plus(@, j.split)] ELSE back
    /\ bill' = IF j.kind = "sale" THEN [bill EXCEPT ![j.order] = "PAID"] ELSE bill
    /\ po' = PoAfter(j)
    /\ delivered' = IF j.kind = "receipt" /\ j.po # None
                    THEN [delivered EXCEPT ![j.po] = [i \in Ingredients |-> @[i] + j.qty[i]]]
                    ELSE delivered
    /\ row' = Unlocked(w)
    /\ job' = [job EXCEPT ![w] = NoJob]
    /\ made' = made

LEMMA CommitEnds ==
    ASSUME StockInv, NEW w \in Workers, Commit(w)
    PROVE  \E j : Ends(w, j)
<1>1. PICK j : j = job[w]
  OBVIOUS
<1>2. j # NoJob
  BY <1>1 DEF Commit
<1>3. j \in StockJob /\ JobFits(w, j)
  BY <1>1, <1>2 DEF StockInv, TypeOK, JobsFit, Running
<1>4. Ends(w, j)
  BY <1>1, <1>3, Zenon DEF Commit, Ends
<1> QED
  BY <1>4

\* A transaction which has been through its list holds what it writes.
LEMMA HoldsWhatItWrites ==
    ASSUME StockInv, NEW w \in Workers, NEW j, Ends(w, j)
    PROVE  /\ \A i \in Inward(j) : row[i] = w /\ i \in Ingredients /\ j.qty[i] \in Int /\ j.qty[i] > 0
           /\ \A i \in Ingredients, p \in Places :
                /\ j.split[i][p] \in Int /\ j.split[i][p] >= 0
                /\ j.split[i][p] # 0 => row[i] = w
                /\ j.kind = "return" => j.split[i][p] <= Room(j.order, i)[p]
           /\ \A i \in Ingredients, b \in Batches :
                /\ j.split[i][b] # 0 => batch[b].of = i /\ j.had[b] = batch[b].left
                /\ j.kind # "return" /\ batch[b].of = i => j.split[i][b] <= batch[b].left
<1>1. Range(j.todo) = {}
  BY DEF Ends, Range
<1>2. \A i \in Inward(j) : row[i] = w /\ i \in Ingredients /\ j.qty[i] \in Int /\ j.qty[i] > 0
  BY <1>1 DEF Ends, JobFits, HoldsItsLocks, Inward, StockJob
<1>3. ASSUME NEW i \in Ingredients, NEW p \in Places
      PROVE  /\ j.split[i][p] \in Int /\ j.split[i][p] >= 0
             /\ j.split[i][p] # 0 => row[i] = w
             /\ j.kind = "return" => j.split[i][p] <= Room(j.order, i)[p]
  <2>1. j.split[i][p] \in Int
    BY DEF Ends, StockJob
  <2>2. j.split[i][p] # 0 => row[i] = w
    BY DEF Ends, JobFits, HoldsItsLocks
  <2>3. CASE j.kind = "return"
    <3>1. j.split[i][p] \in 0 .. Room(j.order, i)[p]
      BY <2>3 DEF Ends, JobFits, TakesWhatIsThere
    <3> QED
      BY <2>1, <2>2, <3>1
  <2>4. CASE j.kind # "return"
    <3>1. p = Rest => j.split[i][p] >= 0
      BY <2>4 DEF Ends, JobFits, TakesWhatIsThere
    <3>2. p \in Batches => j.split[i][p] \in 0 .. j.had[p]
      BY <2>4 DEF Ends, JobFits, TakesWhatIsThere
    <3> QED
      BY <2>1, <2>2, <2>4, <3>1, <3>2, FinitePlaces
  <2> QED
    BY <2>3, <2>4
<1>4. ASSUME NEW i \in Ingredients, NEW b \in Batches
      PROVE  /\ j.split[i][b] # 0 => batch[b].of = i /\ j.had[b] = batch[b].left
             /\ j.kind # "return" /\ batch[b].of = i => j.split[i][b] <= batch[b].left
  <2>1. j.split[i][b] # 0 => batch[b].of = i /\ row[i] = w
    BY FinitePlaces DEF Ends, JobFits, TakesWhatIsThere, HoldsItsLocks
  <2>2. j.split[i][b] # 0 => j.had[b] = batch[b].left
    BY <2>1 DEF Ends, JobFits, HoldsItsLocks
  <2>3. j.kind # "return" => j.split[i][b] \in 0 .. j.had[b]
    BY DEF Ends, JobFits, TakesWhatIsThere
  <2>4. batch[b].left >= 0 /\ batch[b].left \in Int
    BY DEF StockInv, RowsSound, BatchesSound, TypeOK, BatchRow
  <2>5. j.split[i][b] \in Int
    BY <1>3, FinitePlaces
  <2>6. CASE j.split[i][b] = 0
    BY <2>4, <2>6
  <2>7. CASE j.split[i][b] # 0
    BY <2>1, <2>2, <2>3, <2>7
  <2> QED
    BY <2>6, <2>7
<1> QED
  BY <1>2, <1>3, <1>4

\* The batches without a row are the last ones.
LEMMA FreeAreTheLast ==
    ASSUME TypeOK, BatchesSound
    PROVE  \E n \in 0 .. MaxBatches : /\ Free = n + 1 .. MaxBatches
                                      /\ Cardinality(Free) = MaxBatches - n
<1>1. MaxBatches \in Nat
  BY FinitePlaces
<1>2. CASE Free = {}
  <2>1. MaxBatches + 1 .. MaxBatches = {}
    BY <1>1
  <2>2. Cardinality(Free) = 0
    BY <1>2, FS_EmptySet
  <2> QED
    BY <1>1, <1>2, <2>1, <2>2
<1>3. CASE Free # {}
  <2>1. Free \in SUBSET Batches /\ Free \in SUBSET Nat
    BY <1>1 DEF Free, Batches
  <2>2. PICK m \in Free : \A b \in Free : m <= b
    BY <1>3, <2>1, LeastMember
  <2>3. m \in 1 .. MaxBatches /\ m - 1 \in 0 .. MaxBatches
    BY <1>1, <2>1, <2>2 DEF Batches
  <2>4. \A b \in m .. MaxBatches : b \in Free
    BY <2>2, <2>3 DEF BatchesSound, Batches
  <2>5. Free = m .. MaxBatches
    <3>1. \A b \in Free : b \in 1 .. MaxBatches /\ m <= b
      BY <2>1, <2>2 DEF Batches
    <3>2. \A b \in Free : b \in m .. MaxBatches
      BY <2>3, <3>1
    <3> QED
      BY <2>4, <3>2
  <2>6. Cardinality(m .. MaxBatches) = MaxBatches - m + 1
    BY <1>1, <2>3, FS_Interval
  <2>7. m - 1 + 1 = m /\ MaxBatches - (m - 1) = MaxBatches - m + 1
    BY <1>1, <2>3
  <2> QED
    BY <2>3, <2>5, <2>6, <2>7, Zenon
<1> QED
  BY <1>2, <1>3

\* The new batches take the next numbers, one each.
LEMMA NumbersOfNewBatches ==
    ASSUME StockInv, NEW w \in Workers, NEW j \in StockJob, j = job[w]
    PROVE  \E n, c \in Nat :
             /\ c = Cardinality(Inward(j)) /\ n + c <= MaxBatches
             /\ Free = n + 1 .. MaxBatches /\ Cardinality(Free) = MaxBatches - n
             /\ \A i \in Inward(j) : BatchFor(j, i) \in n + 1 .. n + c
             /\ \A i, k \in Inward(j) : BatchFor(j, i) = BatchFor(j, k) => i = k
             /\ \A b \in n + 1 .. n + c : \E i \in Inward(j) : BatchFor(j, i) = b
<1>1. PICK n \in 0 .. MaxBatches : /\ Free = n + 1 .. MaxBatches
                                   /\ Cardinality(Free) = MaxBatches - n
  BY FreeAreTheLast DEF StockInv, RowsSound
<1>2. MaxBatches \in Nat
  BY FinitePlaces
<1>3. PICK S : S = Inward(j)
  OBVIOUS
<1>4. S \in SUBSET Nat /\ IsFiniteSet(S)
  <2>1. S \in SUBSET Ingredients
    BY <1>3 DEF Inward
  <2>2. Ingredients \subseteq Nat /\ IsFiniteSet(Ingredients)
    BY StockAssumption
  <2> QED
    BY <2>1, <2>2, FS_Subset
<1>5. PICK c : c = Cardinality(S)
  OBVIOUS
<1>6. /\ c \in Nat
      /\ \A i \in S : Rank(S, i) \in 1 .. c
      /\ \A i, k \in S : Rank(S, i) = Rank(S, k) => i = k
      /\ \A m \in 1 .. c : \E i \in S : Rank(S, i) = m
  BY <1>4, <1>5, RanksCount
<1>7. c <= Cardinality(Free)
  <2>1. {w} \X S \in SUBSET Promised
    <3>1. j # NoJob
      BY DEF StockJob, NoJob, Kinds
    <3> QED
      BY <1>3, <3>1 DEF Promised, Inward
  <2>2. IsFiniteSet({w}) /\ Cardinality({w}) = 1
    BY FS_Singleton
  <2>3. Cardinality({w} \X S) = 1 * c
    BY <1>4, <1>5, <2>2, FS_Product
  <2>4. /\ Cardinality(Promised) \in Nat /\ Cardinality(Free) \in Nat
        /\ IsFiniteSet(Promised) /\ Cardinality(Promised) <= Cardinality(Free)
    BY FinitePromises DEF StockInv, BatchesPromised
  <2>5. Cardinality({w} \X S) <= Cardinality(Promised)
    BY <2>1, <2>4, FS_Subset
  <2> QED
    BY <1>6, <2>3, <2>4, <2>5
<1>8. \A i \in S : BatchFor(j, i) = n + Rank(S, i)
  <2> SUFFICES ASSUME NEW i \in S PROVE BatchFor(j, i) = n + Rank(S, i)
    OBVIOUS
  <2>1. BatchFor(j, i) = MaxBatches - Cardinality(Free) + Rank(S, i)
    BY <1>3 DEF BatchFor, Rank
  <2>2. Rank(S, i) \in Nat /\ MaxBatches - (MaxBatches - n) = n
    BY <1>1, <1>2, <1>6
  <2> QED
    BY <1>1, <2>1, <2>2
<1>9. \A i \in S : BatchFor(j, i) \in n + 1 .. n + c
  BY <1>1, <1>6, <1>8
<1>10. \A i, k \in S : BatchFor(j, i) = BatchFor(j, k) => i = k
  <2>1. \A i, k \in S : n + Rank(S, i) = n + Rank(S, k) => Rank(S, i) = Rank(S, k)
    BY <1>1, <1>6
  <2> QED
    BY <1>6, <1>8, <2>1
<1>11. \A b \in n + 1 .. n + c : \E i \in S : BatchFor(j, i) = b
  <2> SUFFICES ASSUME NEW b \in n + 1 .. n + c PROVE \E i \in S : BatchFor(j, i) = b
    OBVIOUS
  <2>1. b - n \in 1 .. c /\ n + (b - n) = b
    BY <1>1, <1>6
  <2>2. PICK i \in S : Rank(S, i) = b - n
    BY <1>6, <2>1
  <2>3. BatchFor(j, i) = b
    BY <1>8, <2>1, <2>2
  <2> QED
    BY <2>3
<1>12. n \in Nat /\ n + c <= MaxBatches
  BY <1>1, <1>2, <1>6, <1>7
<1>13. n \in Nat /\ c \in Nat /\ c = Cardinality(Inward(j)) /\ n + c <= MaxBatches
       /\ Free = n + 1 .. MaxBatches /\ Cardinality(Free) = MaxBatches - n
  BY <1>1, <1>3, <1>5, <1>6, <1>12, Zenon
<1>14. \A i \in Inward(j) : BatchFor(j, i) \in n + 1 .. n + c
  BY <1>3, <1>9, Zenon
<1>15. \A i, k \in Inward(j) : BatchFor(j, i) = BatchFor(j, k) => i = k
  BY <1>3, <1>10, Zenon
<1>16. \A b \in n + 1 .. n + c : \E i \in Inward(j) : BatchFor(j, i) = b
  BY <1>3, <1>11, Zenon
<1> QED
  BY <1>13, <1>14, <1>15, <1>16

\* Batches which exist lose what was taken, and the lines that bring stock
\* make new ones, with the next numbers.
LEMMA BatchesAtTheEnd ==
    ASSUME StockInv, NEW w \in Workers, NEW j, Ends(w, j)
    PROVE  /\ \A b \in Batches :
                /\ batch[b].of # None =>
                     batch'[b] = [batch[b] EXCEPT !.left = batch[b].left - Taken(j, b)]
                /\ batch[b].of = None =>
                     \/ batch'[b] = batch[b]
                     \/ \E i \in Inward(j) : batch'[b] = [of |-> i, got |-> j.qty[i], left |-> j.qty[i]]
           /\ \A b, c \in Batches : b \in Free' /\ b <= c => c \in Free'
           /\ IsFiniteSet(Inward(j)) /\ Cardinality(Inward(j)) \in Nat
           /\ Cardinality(Free') = Cardinality(Free) - Cardinality(Inward(j))
<1>1. j \in StockJob /\ j = job[w] /\ batch' = [b \in Batches |-> BatchAfter(j, b)]
  BY DEF Ends
<1>2. PICK n, c \in Nat :
             /\ c = Cardinality(Inward(j)) /\ n + c <= MaxBatches
             /\ Free = n + 1 .. MaxBatches /\ Cardinality(Free) = MaxBatches - n
             /\ \A i \in Inward(j) : BatchFor(j, i) \in n + 1 .. n + c
             /\ \A i, k \in Inward(j) : BatchFor(j, i) = BatchFor(j, k) => i = k
             /\ \A b \in n + 1 .. n + c : \E i \in Inward(j) : BatchFor(j, i) = b
  BY <1>1, NumbersOfNewBatches
<1>3. /\ MaxBatches \in Nat /\ \A b \in Batches : b \in Nat /\ b >= 1 /\ b <= MaxBatches
      /\ \A b \in Batches : batch[b].of = None <=> b \in n + 1 .. MaxBatches
  <2>1. \A b \in Batches : batch[b].of = None <=> b \in Free
    BY DEF Free
  <2>2. MaxBatches \in Nat
    BY FinitePlaces
  <2> QED
    BY <1>2, <2>1, <2>2 DEF Batches
<1>4. ASSUME NEW b \in Batches, b \notin n + 1 .. n + c
      PROVE  batch'[b] = [batch[b] EXCEPT !.left = IF Taken(j, b) = 0 THEN @ ELSE j.had[b] - Taken(j, b)]
  <2>1. ~ \E i \in Inward(j) : BatchFor(j, i) = b
    BY <1>2, <1>4
  <2> QED
    BY <1>1, <2>1 DEF BatchAfter
<1>5. ASSUME NEW b \in n + 1 .. n + c
      PROVE  /\ b \in Batches /\ batch[b].of = None
             /\ \E i \in Inward(j) : batch'[b] = [of |-> i, got |-> j.qty[i], left |-> j.qty[i]]
  <2>1. b \in Batches /\ batch[b].of = None
    <3>1. b \in n + 1 .. MaxBatches /\ b \in 1 .. MaxBatches
      BY <1>2, <1>3
    <3> QED
      BY <1>3, <3>1 DEF Batches
  <2>2. \E i \in Inward(j) : BatchFor(j, i) = b
    BY <1>2
  <2>3. PICK i : i = CHOOSE k \in Inward(j) : BatchFor(j, k) = b
    OBVIOUS
  <2>4. i \in Inward(j)
    BY <2>2, <2>3
  <2>5. BatchAfter(j, b) = [of |-> i, got |-> j.qty[i], left |-> j.qty[i]]
    BY <2>2, <2>3, Zenon DEF BatchAfter
  <2> QED
    BY <1>1, <2>1, <2>4, <2>5
<1>6. ASSUME NEW b \in Batches
      PROVE  batch[b] \in BatchRow /\ batch[b].left \in Int
  BY DEF StockInv, TypeOK, BatchRow
<1>7. ASSUME NEW b \in Batches, batch[b].of # None
      PROVE  batch'[b] = [batch[b] EXCEPT !.left = batch[b].left - Taken(j, b)]
  <2>1. b \notin n + 1 .. n + c
    BY <1>5, <1>7
  <2>2. batch[b].of \in Ingredients
    BY <1>6, <1>7 DEF BatchRow
  <2>3. Taken(j, b) = Sign(j) * j.split[batch[b].of][b]
    BY <1>7 DEF Taken
  <2>4. j.split[batch[b].of][b] \in Int
    BY <2>2, HoldsWhatItWrites, FinitePlaces
  <2>5. CASE j.split[batch[b].of][b] = 0
    <3>1. Taken(j, b) = 0
      BY <2>3, <2>5 DEF Sign
    <3>2. batch[b].left - Taken(j, b) = batch[b].left
      BY <1>6, <3>1
    <3> QED
      BY <1>4, <2>1, <3>1, <3>2
  <2>6. CASE j.split[batch[b].of][b] # 0
    <3>1. Taken(j, b) # 0
      BY <2>3, <2>4, <2>6 DEF Sign
    <3>2. j.had[b] = batch[b].left
      BY <2>2, <2>6, HoldsWhatItWrites
    <3> QED
      BY <1>4, <2>1, <3>1, <3>2
  <2> QED
    BY <2>5, <2>6
<1>8. ASSUME NEW b \in Batches, batch[b].of = None
      PROVE  \/ b \notin n + 1 .. n + c /\ batch'[b] = batch[b]
             \/ /\ b \in n + 1 .. n + c
                /\ \E i \in Inward(j) : batch'[b] = [of |-> i, got |-> j.qty[i], left |-> j.qty[i]]
  <2>1. CASE b \in n + 1 .. n + c
    BY <1>5, <2>1
  <2>2. CASE b \notin n + 1 .. n + c
    <3>1. Taken(j, b) = 0
      BY <1>8 DEF Taken
    <3>2. batch'[b] = [batch[b] EXCEPT !.left = batch[b].left]
      BY <1>4, <2>2, <3>1
    <3>3. batch'[b] = batch[b]
      BY <1>6, <3>2 DEF BatchRow
    <3> QED
      BY <2>2, <3>3
  <2> QED
    BY <2>1, <2>2
<1>9. \A i \in Inward(j) : i # None
  BY StockAssumption DEF Inward
<1>10. ASSUME NEW b \in Batches
       PROVE  batch'[b].of = None <=> b \in n + c + 1 .. MaxBatches
  <2>1. CASE batch[b].of # None
    <3>1. batch'[b].of = batch[b].of
      BY <1>6, <1>7, <2>1 DEF BatchRow
    <3>2. b \notin n + 1 .. MaxBatches
      BY <1>3, <2>1
    <3> QED
      BY <1>2, <2>1, <3>1, <3>2
  <2>2. CASE batch[b].of = None
    <3>1. b \in n + 1 .. MaxBatches
      BY <1>3, <2>2
    <3>2. CASE b \in n + 1 .. n + c
      <4>1. PICK i \in Inward(j) : batch'[b] = [of |-> i, got |-> j.qty[i], left |-> j.qty[i]]
        BY <1>5, <3>2
      <4>2. batch'[b].of = i
        BY <4>1
      <4>3. batch'[b].of # None
        BY <1>9, <4>2
      <4>4. b \notin n + c + 1 .. MaxBatches
        BY <3>2
      <4> QED
        BY <4>3, <4>4
    <3>3. CASE b \notin n + 1 .. n + c
      <4>1. batch'[b].of = None
        BY <1>8, <2>2, <3>3
      <4> QED
        BY <1>2, <1>3, <3>1, <3>3, <4>1
    <3> QED
      BY <3>2, <3>3
  <2> QED
    BY <2>1, <2>2
<1>11. Free' = n + c + 1 .. MaxBatches
  <2>1. \A b \in n + c + 1 .. MaxBatches : b \in Batches
    BY <1>2, <1>3 DEF Batches
  <2>2. \A b : b \in Free' <=> b \in Batches /\ batch'[b].of = None
    BY DEF Free, Batches
  <2> QED
    BY <1>10, <2>1, <2>2
<1>12. \A b, d \in Batches : b \in Free' /\ b <= d => d \in Free'
  BY <1>2, <1>3, <1>11
<1>13. Cardinality(Free') = Cardinality(Free) - c
  <2>1. Cardinality(n + c + 1 .. MaxBatches) = IF n + c + 1 > MaxBatches THEN 0 ELSE MaxBatches - (n + c + 1) + 1
    <3>1. n + c + 1 \in Int /\ MaxBatches \in Int
      BY <1>2, <1>3
    <3> QED
      BY <3>1, FS_Interval
  <2>2. Cardinality(n + c + 1 .. MaxBatches) = MaxBatches - n - c
    BY <1>2, <1>3, <2>1
  <2> QED
    BY <1>2, <1>3, <1>11, <2>2
<1>14. IsFiniteSet(Inward(j))
  <2>1. Inward(j) \in SUBSET Ingredients
    BY DEF Inward
  <2> QED
    BY <2>1, StockAssumption, FS_Subset
<1> QED
  BY <1>2, <1>7, <1>8, <1>12, <1>13, <1>14

LEMMA PromisesAtTheEnd ==
    ASSUME StockInv, NEW w \in Workers, NEW j, Ends(w, j)
    PROVE  BatchesPromised'
<1>1. /\ j \in StockJob /\ j = job[w] /\ job' = [job EXCEPT ![w] = NoJob]
      /\ job \in [Workers -> StockJob \cup {NoJob}]
  BY DEF Ends, StockInv, TypeOK
<1>2. j # NoJob
  BY <1>1 DEF StockJob, NoJob, Kinds
<1> DEFINE kept == {w} \X Inward(j)
<1>3. kept \in SUBSET Promised
  BY <1>1, <1>2 DEF Promised, Inward
<1>4. Promised' = Promised \ kept
  <2>1. Promised' = {p \in Workers \X Ingredients : job'[p[1]] # NoJob /\ p[2] \in Inward(job'[p[1]])}
    BY DEF Promised, Inward
  <2>2. ASSUME NEW p \in Workers \X Ingredients
        PROVE  job'[p[1]] # NoJob /\ p[2] \in Inward(job'[p[1]]) <=> p \in Promised /\ p \notin kept
    <3>1. p = <<p[1], p[2]>> /\ p[1] \in Workers /\ p[2] \in Ingredients
      OBVIOUS
    <3>2. CASE p[1] = w
      <4>1. job'[p[1]] = NoJob
        BY <1>1, <3>2
      <4>2. p \in Promised => p[2] \in Inward(j)
        BY <1>1, <3>2 DEF Promised
      <4> QED
        BY <3>1, <3>2, <4>1, <4>2
    <3>3. CASE p[1] # w
      <4>1. job'[p[1]] = job[p[1]] /\ p \notin kept
        BY <1>1, <3>1, <3>3
      <4> QED
        BY <4>1 DEF Promised
    <3> QED
      BY <3>2, <3>3
  <2> HIDE DEF kept
  <2> QED
    BY <2>1, <2>2 DEF Promised
<1>5. IsFiniteSet(kept) /\ Cardinality(kept) = Cardinality(Inward(j))
  <2>1. IsFiniteSet({w}) /\ Cardinality({w}) = 1
    BY FS_Singleton
  <2>2. IsFiniteSet(Inward(j)) /\ Cardinality(Inward(j)) \in Nat
    BY BatchesAtTheEnd
  <2>3. IsFiniteSet(kept) /\ Cardinality(kept) = 1 * Cardinality(Inward(j))
    BY <2>1, <2>2, FS_Product
  <2> HIDE DEF kept
  <2> QED
    BY <2>2, <2>3
<1> HIDE DEF kept
<1>6. /\ IsFiniteSet(Promised) /\ Cardinality(Promised) \in Nat /\ Cardinality(Free) \in Nat
      /\ Cardinality(Promised) <= Cardinality(Free)
  BY FinitePromises DEF StockInv, BatchesPromised
<1>7. Promised \cap kept = kept
  BY <1>3
<1>8. Cardinality(Promised \ kept) = Cardinality(Promised) - Cardinality(Promised \cap kept)
  BY <1>6, FS_Difference
<1>9. /\ Cardinality(Inward(j)) \in Nat
      /\ Cardinality(Free') = Cardinality(Free) - Cardinality(Inward(j))
  BY BatchesAtTheEnd
<1>10. Cardinality(Promised') = Cardinality(Promised) - Cardinality(Inward(j))
  BY <1>4, <1>5, <1>7, <1>8, Zenon
<1> QED
  BY <1>6, <1>9, <1>10 DEF BatchesPromised

\* A sale adds what it took to the order, a return what came back.
LEMMA MovementsAtTheEnd ==
    ASSUME StockInv, NEW w \in Workers, NEW j, Ends(w, j)
    PROVE  /\ sold' \in PerPlace /\ back' \in PerPlace /\ bill' \in [Orders -> {"OPEN", "PAID"}]
           /\ j.kind \in {"sale", "return"} => j.order \in Orders
           /\ j.kind = "sale" =>
                /\ bill[j.order] = "OPEN"
                /\ \A i \in Ingredients : Total(j.split[i], Places) = Need[j.order][i]
           /\ \A o \in Orders :
                bill'[o] = IF j.kind = "sale" /\ o = j.order THEN "PAID" ELSE bill[o]
           /\ \A o \in Orders, i \in Ingredients, p \in Places :
                /\ sold'[o][i][p] = IF j.kind = "sale" /\ o = j.order
                                    THEN sold[o][i][p] + j.split[i][p] ELSE sold[o][i][p]
                /\ back'[o][i][p] = IF j.kind = "return" /\ o = j.order
                                    THEN back[o][i][p] + j.split[i][p] ELSE back[o][i][p]
<1>1. j.kind \in {"sale", "return"} => j.order \in Orders
  BY DEF Ends, JobFits, JobSound
<1>2. ASSUME j.kind = "sale"
      PROVE  /\ bill[j.order] = "OPEN"
             /\ \A i \in Ingredients : Total(j.split[i], Places) = Need[j.order][i]
  <2>1. bill[j.order] = "OPEN"
    BY <1>2 DEF Ends, MayCommit
  <2>2. Range(j.todo) = {}
    BY DEF Ends, Range
  <2>3. \A i \in Ingredients : Total(j.split[i], Places) = Need[j.order][i]
    BY <1>2, <2>2 DEF Ends, JobFits, FollowsThePlan
  <2> QED
    BY <2>1, <2>3
<1>3. /\ sold \in PerPlace /\ back \in PerPlace /\ bill \in [Orders -> {"OPEN", "PAID"}]
      /\ j.split \in [Ingredients -> [Places -> Int]]
  BY DEF StockInv, TypeOK, Ends, StockJob
<1>4. /\ sold' = IF j.kind = "sale" THEN [sold EXCEPT ![j.order] = Plus(@, j.split)] ELSE sold
      /\ back' = IF j.kind = "return" THEN [back EXCEPT ![j.order] = Plus(@, j.split)] ELSE back
      /\ bill' = IF j.kind = "sale" THEN [bill EXCEPT ![j.order] = "PAID"] ELSE bill
  BY DEF Ends
<1>5. ASSUME NEW f \in PerPlace, NEW o \in Orders
      PROVE  /\ Plus(f[o], j.split) \in [Ingredients -> [Places -> Int]]
             /\ \A i \in Ingredients, p \in Places :
                  Plus(f[o], j.split)[i][p] = f[o][i][p] + j.split[i][p]
  <2>1. \A i \in Ingredients, p \in Places : f[o][i][p] + j.split[i][p] \in Int
    BY <1>3 DEF PerPlace
  <2> QED
    BY <2>1 DEF Plus
<1>6. CASE j.kind = "sale"
  <2>1. PICK o \in Orders : o = j.order
    BY <1>1, <1>6
  <2>2. sold' = [sold EXCEPT ![o] = Plus(@, j.split)] /\ back' = back
        /\ bill' = [bill EXCEPT ![o] = "PAID"]
    BY <1>4, <1>6, <2>1
  <2>3. /\ sold' \in PerPlace
        /\ \A r \in Orders \ {o} : sold'[r] = sold[r]
        /\ \A i \in Ingredients, p \in Places : sold'[o][i][p] = sold[o][i][p] + j.split[i][p]
    <3>1. PICK sum : sum = Plus(sold[o], j.split)
      OBVIOUS
    <3>2. /\ sum \in [Ingredients -> [Places -> Int]]
          /\ \A i \in Ingredients, p \in Places : sum[i][p] = sold[o][i][p] + j.split[i][p]
      BY <1>3, <1>5, <3>1
    <3>3. sold' = [sold EXCEPT ![o] = sum]
      BY <2>2, <3>1
    <3> QED
      BY <1>3, <3>2, <3>3 DEF PerPlace
  <2>4. bill' \in [Orders -> {"OPEN", "PAID"}] /\ \A r \in Orders :
          bill'[r] = IF r = o THEN "PAID" ELSE bill[r]
    BY <1>3, <2>2
  <2> QED
    BY <1>1, <1>2, <1>3, <1>6, <2>1, <2>2, <2>3, <2>4
<1>7. CASE j.kind = "return"
  <2>1. PICK o \in Orders : o = j.order
    BY <1>1, <1>7
  <2>2. back' = [back EXCEPT ![o] = Plus(@, j.split)] /\ sold' = sold /\ bill' = bill
    BY <1>4, <1>7, <2>1
  <2>3. /\ back' \in PerPlace
        /\ \A r \in Orders \ {o} : back'[r] = back[r]
        /\ \A i \in Ingredients, p \in Places : back'[o][i][p] = back[o][i][p] + j.split[i][p]
    <3>1. PICK sum : sum = Plus(back[o], j.split)
      OBVIOUS
    <3>2. /\ sum \in [Ingredients -> [Places -> Int]]
          /\ \A i \in Ingredients, p \in Places : sum[i][p] = back[o][i][p] + j.split[i][p]
      BY <1>3, <1>5, <3>1
    <3>3. back' = [back EXCEPT ![o] = sum]
      BY <2>2, <3>1
    <3> QED
      BY <1>3, <3>2, <3>3 DEF PerPlace
  <2> QED
    BY <1>1, <1>3, <1>7, <2>1, <2>2, <2>3
<1>8. CASE j.kind \notin {"sale", "return"}
  BY <1>3, <1>4, <1>8
<1> QED
  BY <1>6, <1>7, <1>8

LEMMA OrdersAtTheEnd ==
    ASSUME StockInv, NEW w \in Workers, NEW j, Ends(w, j)
    PROVE  OrdersSound'
<1> SUFFICES ASSUME NEW o \in Orders, NEW i \in Ingredients
             PROVE  /\ bill'[o] = "OPEN" => \A p \in Places : sold'[o][i][p] = 0
                    /\ bill'[o] = "PAID" => Total(sold'[o][i], Places) = Need[o][i]
                    /\ \A p \in Places : back'[o][i][p] \in 0 .. sold'[o][i][p]
  BY DEF OrdersSound, Total, Units
<1>1. \A p \in Places : /\ sold[o][i][p] \in Nat /\ back[o][i][p] \in Nat
                        /\ back[o][i][p] <= sold[o][i][p]
                        /\ j.split[i][p] \in Int /\ j.split[i][p] >= 0
  <2>1. \A p \in Places : sold[o][i][p] \in Nat /\ back[o][i][p] \in Nat
    BY FiguresAreNumbers DEF StockInv, RowsSound
  <2>2. \A p \in Places : back[o][i][p] \in 0 .. sold[o][i][p]
    BY DEF StockInv, RowsSound, OrdersSound
  <2>3. \A p \in Places : j.split[i][p] \in Int /\ j.split[i][p] >= 0
    BY HoldsWhatItWrites
  <2> QED
    BY <2>1, <2>2, <2>3
<1>2. /\ bill[o] = "OPEN" => \A p \in Places : sold[o][i][p] = 0
      /\ bill[o] = "PAID" => Total(sold[o][i], Places) = Need[o][i]
  BY DEF StockInv, RowsSound, OrdersSound
<1>3. CASE j.kind = "sale" /\ o = j.order
  <2>1. bill[o] = "OPEN" /\ bill'[o] = "PAID" /\ Total(j.split[i], Places) = Need[o][i]
    BY <1>3, MovementsAtTheEnd
  <2>2. \A p \in Places : sold'[o][i][p] = sold[o][i][p] + j.split[i][p] /\ back'[o][i][p] = back[o][i][p]
    BY <1>3, MovementsAtTheEnd
  <2>3. \A p \in Places : sold[o][i][p] = 0
    BY <1>2, <2>1
  <2>4. \A p \in Places : sold'[o][i][p] = j.split[i][p] /\ back'[o][i][p] = 0
    BY <1>1, <2>2, <2>3
  <2>5. Total(sold'[o][i], Places) = Total(j.split[i], Places)
    BY <2>4, SameTotal
  <2> QED
    BY <1>1, <2>1, <2>4, <2>5
<1>4. CASE j.kind = "return" /\ o = j.order
  <2>1. bill'[o] = bill[o] /\ \A p \in Places : sold'[o][i][p] = sold[o][i][p]
    BY <1>4, MovementsAtTheEnd
  <2>2. \A p \in Places : back'[o][i][p] = back[o][i][p] + j.split[i][p]
    BY <1>4, MovementsAtTheEnd
  <2>3. \A p \in Places : j.split[i][p] <= sold[o][i][p] - back[o][i][p]
    BY <1>4, HoldsWhatItWrites DEF Room
  <2>4. \A p \in Places : back'[o][i][p] \in 0 .. sold'[o][i][p]
    BY <1>1, <2>1, <2>2, <2>3
  <2>5. Total(sold'[o][i], Places) = Total(sold[o][i], Places)
    BY <2>1, SameTotal
  <2> QED
    BY <1>2, <2>1, <2>4, <2>5
<1>5. CASE ~ (j.kind \in {"sale", "return"} /\ o = j.order)
  <2>1. bill'[o] = bill[o]
    BY <1>5, MovementsAtTheEnd
  <2>2. \A p \in Places : sold'[o][i][p] = sold[o][i][p] /\ back'[o][i][p] = back[o][i][p]
    BY <1>5, MovementsAtTheEnd
  <2>3. Total(sold'[o][i], Places) = Total(sold[o][i], Places)
    BY <2>2, SameTotal
  <2>4. \A p \in Places : back'[o][i][p] \in 0 .. sold'[o][i][p]
    BY <1>1, <2>2
  <2> QED
    BY <1>2, <2>1, <2>2, <2>3, <2>4
<1> QED
  BY <1>3, <1>4, <1>5

\* No order has taken from a batch of another ingredient.
LEMMA OnlyFromItsBatches ==
    ASSUME StockInv, NEW w \in Workers, NEW j, Ends(w, j),
           NEW b \in Batches, NEW o \in Orders, NEW i \in Ingredients, batch[b].of # i
    PROVE  sold'[o][i][b] = 0 /\ back'[o][i][b] = 0
<1>1. b \in Places
  BY FinitePlaces
<1>2. j.split[i][b] = 0
  BY HoldsWhatItWrites
<1>3. sold[o][i][b] = 0 /\ back[o][i][b] = 0
  BY DEF StockInv, RowsSound, BatchesSound
<1>4. /\ sold'[o][i][b] \in {sold[o][i][b], sold[o][i][b] + j.split[i][b]}
      /\ back'[o][i][b] \in {back[o][i][b], back[o][i][b] + j.split[i][b]}
  BY <1>1, MovementsAtTheEnd
<1> QED
  BY <1>2, <1>3, <1>4

LEMMA BatchesSoundAtTheEnd ==
    ASSUME StockInv, NEW w \in Workers, NEW j, Ends(w, j)
    PROVE  BatchesSound'
<1>1. \A b, c \in Batches : b \in Free' /\ b <= c => c \in Free'
  BY BatchesAtTheEnd
<1>2. \A b \in Batches :
        /\ batch[b].of # None =>
             batch'[b] = [batch[b] EXCEPT !.left = batch[b].left - Taken(j, b)]
        /\ batch[b].of = None =>
             \/ batch'[b] = batch[b]
             \/ \E i \in Inward(j) : batch'[b] = [of |-> i, got |-> j.qty[i], left |-> j.qty[i]]
  BY BatchesAtTheEnd
<1>3. \A b \in Batches : drawn'[b] = drawn[b] + Taken(j, b)
  BY DEF Ends
<1>4. ASSUME NEW b \in Batches, batch[b].of = None
      PROVE  /\ batch'[b].left = batch'[b].got - drawn'[b] /\ batch'[b].left >= 0
             /\ batch'[b].of = None => batch'[b].got = 0 /\ batch'[b].left = 0
             /\ batch'[b].of # None => Total(OutOf(b)', Orders) <= drawn'[b]
             /\ \A o \in Orders, i \in Ingredients : batch'[b].of # i =>
                  sold'[o][i][b] = 0 /\ back'[o][i][b] = 0
  <2>1. batch[b].got = 0 /\ batch[b].left = 0 /\ drawn[b] = 0
    <3>1. /\ batch[b].left = batch[b].got - drawn[b]
          /\ batch[b].got = 0 /\ batch[b].left = 0
      BY <1>4 DEF StockInv, RowsSound, BatchesSound
    <3>2. drawn[b] \in Int
      BY DEF StockInv, TypeOK
    <3> QED
      BY <3>1, <3>2
  <2>2. drawn'[b] = 0
    <3>1. Taken(j, b) = 0
      BY <1>4 DEF Taken
    <3>2. drawn'[b] = drawn[b] + Taken(j, b)
      BY DEF Ends
    <3> QED
      BY <2>1, <3>1, <3>2
  <2>3. \A o \in Orders, i \in Ingredients : sold'[o][i][b] = 0 /\ back'[o][i][b] = 0
    <3>1. \A i \in Ingredients : batch[b].of # i
      BY <1>4, StockAssumption
    <3> QED
      BY <3>1, OnlyFromItsBatches
  <2>4. CASE batch'[b] = batch[b]
    BY <1>4, <2>1, <2>2, <2>3, <2>4
  <2>5. CASE \E i \in Inward(j) : batch'[b] = [of |-> i, got |-> j.qty[i], left |-> j.qty[i]]
    <3>1. PICK i \in Inward(j) : batch'[b] = [of |-> i, got |-> j.qty[i], left |-> j.qty[i]]
      BY <2>5
    <3>2. i \in Ingredients /\ j.qty[i] \in Int /\ j.qty[i] > 0 /\ i # None
      BY HoldsWhatItWrites, StockAssumption
    <3>3. batch'[b].of = i /\ batch'[b].got = j.qty[i] /\ batch'[b].left = j.qty[i]
      BY <3>1
    <3>4. Total(OutOf(b)', Orders) = 0
      <4>1. \A o \in Orders : OutOf(b)'[o] = 0
        <5>1. \A o \in Orders : OutOf(b)'[o] = sold'[o][i][b] - back'[o][i][b]
          BY <3>3, FinitePlaces DEF OutOf, Room
        <5> QED
          BY <2>3, <3>2, <5>1
      <4>2. \A o \in Orders : OutOf(b)'[o] \in Int /\ OutOf(b)'[o] <= 0
        BY <4>1
      <4> QED
        BY <4>2, NothingToCount
    <3> QED
      BY <2>2, <2>3, <3>2, <3>3, <3>4
  <2> QED
    BY <1>4, <1>2, <2>4, <2>5, Zenon
<1>5. ASSUME NEW b \in Batches, batch[b].of # None
      PROVE  /\ batch'[b].left = batch'[b].got - drawn'[b] /\ batch'[b].left >= 0
             /\ batch'[b].of = None => batch'[b].got = 0 /\ batch'[b].left = 0
             /\ batch'[b].of # None => Total(OutOf(b)', Orders) <= drawn'[b]
             /\ \A o \in Orders, i \in Ingredients : batch'[b].of # i =>
                  sold'[o][i][b] = 0 /\ back'[o][i][b] = 0
  <2>1. b \in Places
    BY FinitePlaces
  <2>2. batch[b] \in BatchRow /\ drawn[b] \in Int
    BY DEF StockInv, TypeOK
  <2>3. PICK i \in Ingredients : i = batch[b].of
    BY <1>5, <2>2 DEF BatchRow
  <2>4. PICK s : s = j.split[i][b]
    OBVIOUS
  <2>5. PICK t : t = Taken(j, b)
    OBVIOUS
  <2>6. /\ s \in Int /\ s >= 0 /\ t \in Int
        /\ t = IF j.kind = "return" THEN -s ELSE s
        /\ j.kind # "return" => s <= batch[b].left
        /\ j.kind = "return" => s <= Room(j.order, i)[b]
    <3>1. /\ s \in Int /\ s >= 0
          /\ j.kind # "return" => s <= batch[b].left
          /\ j.kind = "return" => s <= Room(j.order, i)[b]
      BY <2>1, <2>3, <2>4, HoldsWhatItWrites
    <3>2. t = Sign(j) * s
      BY <1>5, <2>3, <2>4, <2>5 DEF Taken
    <3> QED
      BY <3>1, <3>2 DEF Sign
  <2>7. /\ batch'[b] = [batch[b] EXCEPT !.left = batch[b].left - t]
        /\ drawn'[b] = drawn[b] + t
    BY <1>5, <1>2, <1>3, <2>5, Zenon
  <2>8. batch'[b].of = i /\ batch'[b].got = batch[b].got /\ batch'[b].left = batch[b].left - t
    BY <2>2, <2>3, <2>7 DEF BatchRow
  <2>9. /\ batch[b].left = batch[b].got - drawn[b] /\ batch[b].left >= 0
        /\ batch[b].left \in Int /\ batch[b].got \in Int
        /\ Total(OutOf(b), Orders) <= drawn[b]
    BY <1>5, <2>2 DEF StockInv, RowsSound, BatchesSound, BatchRow
  <2>10. batch'[b].left = batch'[b].got - drawn'[b] /\ batch'[b].left >= 0
    BY <2>2, <2>6, <2>7, <2>8, <2>9
  <2>11. \A o \in Orders, k \in Ingredients : batch'[b].of # k =>
                  sold'[o][k][b] = 0 /\ back'[o][k][b] = 0
    BY <2>3, <2>8, OnlyFromItsBatches
  <2>12. Total(OutOf(b)', Orders) <= drawn'[b]
    <3>1. PICK f : f = OutOf(b)
      OBVIOUS
    <3>2. PICK g : g = OutOf(b)'
      OBVIOUS
    <3>3. \A o \in Orders : /\ sold[o][i][b] \in Nat /\ back[o][i][b] \in Nat
                            /\ back[o][i][b] \in 0 .. sold[o][i][b]
                            /\ f[o] = sold[o][i][b] - back[o][i][b]
      <4>1. \A o \in Orders : sold[o][i][b] \in Nat /\ back[o][i][b] \in Nat
        BY <2>1, FiguresAreNumbers DEF StockInv, RowsSound
      <4>2. \A o \in Orders : back[o][i][b] \in 0 .. sold[o][i][b]
        BY <2>1 DEF StockInv, RowsSound, OrdersSound
      <4>3. \A o \in Orders : f[o] = sold[o][i][b] - back[o][i][b]
        BY <2>1, <2>3, <3>1 DEF OutOf, Room
      <4> QED
        BY <4>1, <4>2, <4>3
    <3>4. \A o \in Orders : g[o] = sold'[o][i][b] - back'[o][i][b]
      BY <2>1, <2>8, <3>2 DEF OutOf, Room
    <3>5. \A o \in Orders :
            /\ sold'[o][i][b] = IF j.kind = "sale" /\ o = j.order
                                THEN sold[o][i][b] + s ELSE sold[o][i][b]
            /\ back'[o][i][b] = IF j.kind = "return" /\ o = j.order
                                THEN back[o][i][b] + s ELSE back[o][i][b]
      BY <2>1, <2>4, MovementsAtTheEnd
    <3>6. \A o \in Orders : f[o] \in Nat
      BY <3>3
    <3>7. Total(f, Orders) \in Nat
      <4>1. \A o \in Orders : f[o] \in Int
        BY <3>6
      <4> QED
        BY <4>1, UnitsAreFinite, StockAssumption
    <3>8. CASE j.kind \in {"sale", "return"}
      <4>1. PICK o \in Orders : o = j.order
        BY <3>8, MovementsAtTheEnd
      <4>2. g[o] = f[o] + t
        BY <2>6, <3>3, <3>4, <3>5, <3>8, <4>1
      <4>3. \A r \in Orders \ {o} : g[r] = f[r]
        BY <3>3, <3>4, <3>5, <4>1
      <4>4. g[o] \in Nat
        <5>1. j.kind = "return" => s <= f[o]
          BY <2>1, <2>6, <3>3, <4>1 DEF Room
        <5> QED
          BY <2>6, <3>6, <4>2, <5>1
      <4>5. \A r \in Orders : f[r] \in Nat /\ g[r] \in Nat
        BY <3>6, <4>3, <4>4
      <4>6. Total(g, Orders) = Total(f, Orders) + (g[o] - f[o])
        BY <4>3, <4>5, OnePlaceChanges, StockAssumption
      <4>7. Total(g, Orders) = Total(f, Orders) + t
        BY <2>6, <3>6, <3>7, <4>2, <4>6
      <4>8. Total(f, Orders) <= drawn[b]
        BY <2>9, <3>1
      <4>9. Total(g, Orders) <= drawn'[b]
        BY <2>2, <2>6, <2>7, <3>7, <4>7, <4>8
      <4> QED
        BY <3>2, <4>9
    <3>9. CASE j.kind \notin {"sale", "return"}
      <4>1. \A r \in Orders : f[r] = g[r]
        BY <3>3, <3>4, <3>5, <3>9
      <4>2. Total(g, Orders) = Total(f, Orders)
        BY <4>1, SameTotal
      <4>3. Total(f, Orders) <= drawn[b]
        BY <2>9, <3>1
      <4>4. Total(g, Orders) <= drawn'[b]
        BY <2>2, <2>6, <2>7, <3>7, <3>9, <4>2, <4>3
      <4> QED
        BY <3>2, <4>4
    <3> QED
      BY <3>8, <3>9
  <2>13. batch'[b].of # None
    BY <2>8, StockAssumption
  <2> QED
    BY <2>10, <2>11, <2>12, <2>13
<1> QED
  BY <1>1, <1>4, <1>5 DEF BatchesSound

LEMMA DeliveriesAtTheEnd ==
    ASSUME StockInv, NEW w \in Workers, NEW j, Ends(w, j)
    PROVE  /\ DeliveriesCount' /\ po' \in [Purchases -> PoRow]
           /\ delivered' \in [Purchases -> [Ingredients -> Int]]
           /\ \A p \in Purchases, i \in Ingredients : delivered[p][i] <= delivered'[p][i]
<1>1. /\ po \in [Purchases -> PoRow] /\ delivered \in [Purchases -> [Ingredients -> Int]]
      /\ \A p \in Purchases, i \in Ingredients : po[p].got[i] \in Int /\ delivered[p][i] \in Int
  BY DEF StockInv, TypeOK, PoRow
<1>2. /\ po' = PoAfter(j)
      /\ delivered' = IF j.kind = "receipt" /\ j.po # None
                      THEN [delivered EXCEPT ![j.po] = [i \in Ingredients |-> @[i] + j.qty[i]]]
                      ELSE delivered
      /\ j \in StockJob /\ JobSound(j) /\ ReadDelivered(j)
  BY DEF Ends, JobFits
<1>3. \A p \in Purchases, i \in Ingredients :
        /\ po[p].got[i] <= delivered[p][i]
        /\ po[p].status = "RECEIVED" => Ordered[p][i] <= po[p].got[i]
  BY DEF StockInv, RowsSound, DeliveriesCount
<1>4. CASE j.po = None
  <2>1. PoAfter(j) = po
    <3>1. j.kind # "status"
      BY <1>2, <1>4 DEF JobSound
    <3> QED
      BY <1>4, <3>1, Zenon DEF PoAfter
  <2>2. po' = po /\ delivered' = delivered
    BY <1>2, <1>4, <2>1
  <2> QED
    BY <1>1, <1>3, <2>2 DEF DeliveriesCount
<1>5. CASE j.po # None
  <2>1. PICK p \in Purchases : p = j.po /\ p # None
    BY <1>2, <1>5 DEF StockJob
  <2>2. j.kind \in {"receipt", "status"} /\ j.was \in PoRow
    BY <1>2, <1>5 DEF JobSound
  <2>3. CASE j.kind = "status"
    <3>1. j.next \in {"SENT", "CANCELLED"}
      BY <1>2, <2>3 DEF JobSound
    <3>2. po' = [po EXCEPT ![p].status = j.next] /\ delivered' = delivered
      BY <1>2, <2>1, <2>3 DEF PoAfter
    <3>3. po' \in [Purchases -> PoRow]
      BY <1>1, <3>1, <3>2 DEF PoRow, PoStatus
    <3>4. /\ po'[p].got = po[p].got /\ po'[p].status # "RECEIVED"
          /\ \A r \in Purchases \ {p} : po'[r] = po[r]
      BY <1>1, <3>1, <3>2 DEF PoRow
    <3>5. DeliveriesCount'
      BY <1>3, <3>2, <3>4 DEF DeliveriesCount
    <3> QED
      BY <1>1, <3>2, <3>3, <3>5
  <2>4. CASE j.kind = "receipt"
    <3>1. /\ j.was.status # "RECEIVED" /\ j.was.status \in PoStatus
          /\ \A i \in Ingredients : j.qty[i] \in Int /\ j.qty[i] >= 0 /\ j.was.got[i] \in Int
          /\ \A i \in Ingredients : j.was.got[i] <= delivered[p][i]
      BY <1>2, <1>5, <2>1, <2>2, <2>4 DEF JobSound, ReadDelivered, StockJob, PoRow
    <3>2. PICK got : got = [i \in Ingredients |-> IF j.qty[i] > 0 /\ Ordered[p][i] > 0
                                     THEN j.was.got[i] + j.qty[i] ELSE po[p].got[i]]
      OBVIOUS
    <3>3. PICK status : status = IF \A i \in Ingredients : got[i] >= Ordered[p][i] THEN "RECEIVED"
                                 ELSE IF \E i \in Ingredients : got[i] > 0 THEN "PARTIALLY_RECEIVED"
                                 ELSE j.was.status
      OBVIOUS
    <3>4. po' = [po EXCEPT ![p] = [got |-> got, status |-> status]]
      BY <1>2, <2>1, <2>4, <3>2, <3>3, Zenon DEF PoAfter
    <3>5. PICK sum : sum = [i \in Ingredients |-> delivered[p][i] + j.qty[i]]
      OBVIOUS
    <3>6. delivered' = [delivered EXCEPT ![p] = sum]
      BY <1>2, <2>1, <2>4, <3>5
    <3>7. /\ got \in [Ingredients -> Int] /\ sum \in [Ingredients -> Int]
          /\ \A i \in Ingredients : got[i] <= sum[i] /\ delivered[p][i] <= sum[i]
      BY <1>1, <1>3, <3>1, <3>2, <3>5
    <3>8. status \in PoStatus /\ (status = "RECEIVED" => \A i \in Ingredients : got[i] >= Ordered[p][i])
      BY <3>1, <3>3 DEF PoStatus
    <3>9. po' \in [Purchases -> PoRow] /\ delivered' \in [Purchases -> [Ingredients -> Int]]
      BY <1>1, <3>4, <3>6, <3>7, <3>8 DEF PoRow
    <3>10. /\ po'[p].got = got /\ po'[p].status = status /\ delivered'[p] = sum
           /\ \A r \in Purchases \ {p} : po'[r] = po[r] /\ delivered'[r] = delivered[r]
      BY <1>1, <3>4, <3>6
    <3>11. \A i \in Ingredients : Ordered[p][i] \in Int
      BY StockAssumption
    <3>12. \A i \in Ingredients : got[i] \in Int
      BY <3>7
    <3>13. ASSUME NEW r \in Purchases, NEW i \in Ingredients
           PROVE  /\ po'[r].got[i] <= delivered'[r][i]
                  /\ po'[r].status = "RECEIVED" => Ordered[r][i] <= po'[r].got[i]
                  /\ delivered[r][i] <= delivered'[r][i]
      <4>1. CASE r = p
        BY <3>7, <3>8, <3>10, <3>11, <3>12, <4>1
      <4>2. CASE r # p
        BY <1>1, <1>3, <3>10, <4>2
      <4> QED
        BY <4>1, <4>2
    <3> QED
      BY <3>9, <3>13 DEF DeliveriesCount
  <2> QED
    BY <2>2, <2>3, <2>4
<1> QED
  BY <1>4, <1>5

LEMMA TypesAtTheEnd ==
    ASSUME StockInv, NEW w \in Workers, NEW j, Ends(w, j)
    PROVE  TypeOK'
<1>1. TypeOK /\ j \in StockJob
  BY DEF StockInv, Ends
<1>2. stock' \in [Ingredients -> Int] /\ moved' \in [Ingredients -> Int]
  <2>1. \A i \in Ingredients : j.qty[i] \in Int /\ j.read[i] \in Int
                               /\ stock[i] \in Int /\ moved[i] \in Int
    BY <1>1 DEF TypeOK, StockJob
  <2>2. \A i \in Ingredients : Written(j, i) \in Int
    BY <2>1 DEF Written, Pos
  <2>3. \A i \in Ingredients : moved[i] + j.qty[i] \in Int
    BY <2>1
  <2>4. stock' = [i \in Ingredients |-> Written(j, i)]
        /\ moved' = [i \in Ingredients |-> moved[i] + j.qty[i]]
    BY DEF Ends
  <2> QED
    BY <2>2, <2>3, <2>4
<1>3. \A b \in Batches : Taken(j, b) \in Int
  <2> SUFFICES ASSUME NEW b \in Batches PROVE Taken(j, b) \in Int
    OBVIOUS
  <2>1. CASE batch[b].of = None
    BY <2>1 DEF Taken
  <2>2. CASE batch[b].of # None
    <3>1. PICK i \in Ingredients : i = batch[b].of
      BY <1>1, <2>2 DEF TypeOK, BatchRow
    <3>2. j.split[i][b] \in Int
      BY FinitePlaces, HoldsWhatItWrites
    <3>3. Taken(j, b) = Sign(j) * j.split[i][b]
      BY <2>2, <3>1 DEF Taken
    <3> QED
      BY <3>2, <3>3 DEF Sign
  <2> QED
    BY <2>1, <2>2
<1>4. \A b \in Batches :
       /\ batch[b].of # None =>
            batch'[b] = [batch[b] EXCEPT !.left = batch[b].left - Taken(j, b)]
       /\ batch[b].of = None =>
            \/ batch'[b] = batch[b]
            \/ \E i \in Inward(j) : batch'[b] = [of |-> i, got |-> j.qty[i], left |-> j.qty[i]]
  BY BatchesAtTheEnd
<1>5. drawn' \in [Batches -> Int]
  BY <1>1, <1>3 DEF Ends, TypeOK
<1>6. batch' \in [Batches -> BatchRow]
  <2>1. batch' = [b \in Batches |-> BatchAfter(j, b)]
    BY DEF Ends
  <2>2. ASSUME NEW b \in Batches PROVE batch'[b] \in BatchRow
    <3>1. batch[b] \in BatchRow /\ Taken(j, b) \in Int
      BY <1>1, <1>3 DEF TypeOK
    <3>2. \A i \in Inward(j) : i \in Ingredients /\ j.qty[i] \in Int
      BY HoldsWhatItWrites
    <3>3. CASE batch[b].of # None
      <4>1. batch'[b] = [batch[b] EXCEPT !.left = batch[b].left - Taken(j, b)]
        BY <1>4, <3>3, Zenon
      <4> QED
        BY <3>1, <4>1 DEF BatchRow
    <3>4. CASE batch[b].of = None
      <4>1. \/ batch'[b] = batch[b]
            \/ \E i \in Inward(j) : batch'[b] = [of |-> i, got |-> j.qty[i], left |-> j.qty[i]]
        BY <1>4, <3>4, Zenon
      <4>2. ASSUME NEW i \in Inward(j),
                   batch'[b] = [of |-> i, got |-> j.qty[i], left |-> j.qty[i]]
            PROVE  batch'[b] \in BatchRow
        BY <3>2, <4>2 DEF BatchRow
      <4> QED
        BY <3>1, <4>1, <4>2, Zenon
    <3> QED
      BY <3>3, <3>4
  <2> QED
    BY <2>1, <2>2
<1>7. row' \in [Ingredients -> Workers \cup {None}]
  BY <1>1 DEF Ends, TypeOK, Unlocked
<1>8. job' \in [Workers -> StockJob \cup {NoJob}] /\ made' \in Nat
  BY <1>1 DEF Ends, TypeOK
<1>9. /\ sold' \in PerPlace /\ back' \in PerPlace /\ bill' \in [Orders -> {"OPEN", "PAID"}]
  BY MovementsAtTheEnd
<1>10. po' \in [Purchases -> PoRow] /\ delivered' \in [Purchases -> [Ingredients -> Int]]
  BY DeliveriesAtTheEnd
<1> QED
  BY <1>2, <1>5, <1>6, <1>7, <1>8, <1>9, <1>10 DEF TypeOK

\* A commit writes nothing that another has locked.
LEMMA CommitSparesOthers ==
    ASSUME StockInv, NEW w \in Workers, NEW j, Ends(w, j), NEW v \in Workers, v # w
    PROVE  SparesWhatIsHeld(v)
<1>1. /\ \A i \in Ingredients : row'[i] = IF row[i] = w THEN None ELSE row[i]
      /\ v # None
  BY StockAssumption DEF Ends, Unlocked
<1>2. \A i \in Ingredients : row'[i] = v <=> row[i] = v
  BY <1>1
<1>3. \A b \in Batches :
        /\ batch[b].of # None =>
             batch'[b] = [batch[b] EXCEPT !.left = batch[b].left - Taken(j, b)]
        /\ batch[b].of = None =>
             \/ batch'[b] = batch[b]
             \/ \E i \in Inward(j) : batch'[b] = [of |-> i, got |-> j.qty[i], left |-> j.qty[i]]
  BY BatchesAtTheEnd
<1>4. \A b \in Batches :
        /\ batch[b].of # None => /\ batch'[b].of = batch[b].of
                                 /\ batch'[b].left = batch[b].left - Taken(j, b)
        /\ batch[b].of = None =>
             \/ batch'[b] = batch[b]
             \/ \E i \in Inward(j) : batch'[b].of = i
  <2> SUFFICES ASSUME NEW b \in Batches
               PROVE  /\ batch[b].of # None => /\ batch'[b].of = batch[b].of
                                               /\ batch'[b].left = batch[b].left - Taken(j, b)
                      /\ batch[b].of = None =>
                           \/ batch'[b] = batch[b]
                           \/ \E i \in Inward(j) : batch'[b].of = i
    OBVIOUS
  <2>1. batch[b] \in BatchRow
    BY DEF StockInv, TypeOK
  <2>2. ASSUME batch[b].of # None
        PROVE  batch'[b].of = batch[b].of /\ batch'[b].left = batch[b].left - Taken(j, b)
    <3>1. batch'[b] = [batch[b] EXCEPT !.left = batch[b].left - Taken(j, b)]
      BY <1>3, <2>2, Zenon
    <3> QED
      BY <2>1, <3>1 DEF BatchRow
  <2>3. ASSUME batch[b].of = None
        PROVE  \/ batch'[b] = batch[b]
               \/ \E i \in Inward(j) : batch'[b].of = i
    <3>1. \/ batch'[b] = batch[b]
          \/ \E i \in Inward(j) : batch'[b] = [of |-> i, got |-> j.qty[i], left |-> j.qty[i]]
      BY <1>3, <2>3, Zenon
    <3>2. ASSUME NEW i \in Inward(j),
                 batch'[b] = [of |-> i, got |-> j.qty[i], left |-> j.qty[i]]
          PROVE  batch'[b].of = i
      BY <3>2
    <3> QED
      BY <3>1, <3>2, Zenon
  <2> QED
    BY <2>2, <2>3
<1>5. ASSUME NEW i \in Ingredients, NEW b \in Batches, row[i] = v, batch'[b].of = i
      PROVE  batch[b].of = i /\ batch'[b].left = batch[b].left
  <2>1. i # None /\ row[i] # w
    BY <1>5, StockAssumption
  <2>2. i \notin Inward(j)
    BY <2>1, HoldsWhatItWrites
  <2>3. batch[b].of # None
    BY <1>4, <1>5, <2>1, <2>2
  <2>4. batch[b].of = i /\ batch'[b].left = batch[b].left - Taken(j, b)
    BY <1>4, <1>5, <2>3
  <2>5. j.split[i][b] = 0
    BY <2>1, HoldsWhatItWrites, FinitePlaces
  <2>6. Taken(j, b) = 0
    BY <2>3, <2>4, <2>5 DEF Taken, Sign
  <2>7. batch[b].left \in Int
    BY DEF StockInv, TypeOK, BatchRow
  <2> QED
    BY <2>4, <2>6, <2>7
<1>6. ASSUME NEW i \in Ingredients, row[i] = v, NEW o \in Orders
      PROVE  Room(o, i)' = Room(o, i)
  <2>1. \A p \in Places : j.split[i][p] = 0
    BY <1>6, HoldsWhatItWrites
  <2>2. \A p \in Places : sold[o][i][p] \in Int /\ back[o][i][p] \in Int
    BY DEF StockInv, TypeOK, PerPlace
  <2>3. \A p \in Places :
          /\ sold'[o][i][p] \in {sold[o][i][p], sold[o][i][p] + j.split[i][p]}
          /\ back'[o][i][p] \in {back[o][i][p], back[o][i][p] + j.split[i][p]}
    BY MovementsAtTheEnd
  <2>4. \A p \in Places : sold'[o][i][p] = sold[o][i][p] /\ back'[o][i][p] = back[o][i][p]
    BY <2>1, <2>2, <2>3
  <2> QED
    BY <2>4 DEF Room
<1>7. \A p \in Purchases, i \in Ingredients : delivered[p][i] <= delivered'[p][i]
  BY DeliveriesAtTheEnd
<1> QED
  BY <1>2, <1>4, <1>5, <1>6, <1>7 DEF SparesWhatIsHeld

LEMMA CommitKeeps ==
    ASSUME StockInv, NEW w \in Workers, Commit(w)
    PROVE  StockInv'
<1>1. PICK j : Ends(w, j)
  BY CommitEnds
<1>2. TypeOK'
  BY <1>1, TypesAtTheEnd
<1>3. BatchesSound'
  BY <1>1, BatchesSoundAtTheEnd
<1>4. OrdersSound'
  BY <1>1, OrdersAtTheEnd
<1>5. DeliveriesCount'
  BY <1>1, DeliveriesAtTheEnd
<1>6. BatchesPromised'
  BY <1>1, PromisesAtTheEnd
<1>7. job'[w] = NoJob /\ \A v \in Workers : v # w => job'[v] = job[v]
  BY <1>1 DEF Ends, StockInv, TypeOK
<1>8. JobsFit'
  <2> SUFFICES ASSUME NEW v \in Workers, job'[v] # NoJob
               PROVE  \E k \in {job'[v]} : JobFits(v, k)'
    BY DEF JobsFit, Running
  <2>1. v # w
    BY <1>7
  <2>2. PICK k : k = job[v]
    OBVIOUS
  <2>3. job'[v] = k /\ k # NoJob
    BY <1>7, <2>1, <2>2
  <2>4. k \in StockJob /\ JobFits(v, k)
    BY <2>2, <2>3 DEF StockInv, TypeOK, JobsFit, Running
  <2>5. SparesWhatIsHeld(v)
    BY <1>1, <2>1, CommitSparesOthers
  <2>6. JobFits(v, k)'
    BY <1>2, <1>4, <2>4, <2>5, OthersKeep DEF StockInv
  <2> QED
    BY <2>3, <2>6
<1>9. LocksOwned'
  <2> SUFFICES ASSUME NEW i \in Ingredients, row'[i] # None PROVE job'[row'[i]] # NoJob
    BY DEF LocksOwned, Running
  <2>1. row'[i] = IF row[i] = w THEN None ELSE row[i]
    BY <1>1 DEF Ends, Unlocked
  <2>2. row'[i] = row[i] /\ row[i] # w /\ row[i] # None
    BY <2>1
  <2>3. row[i] \in Workers /\ job[row[i]] # NoJob
    BY <2>2 DEF StockInv, TypeOK, LocksOwned, Running
  <2> QED
    BY <1>7, <2>2, <2>3
<1> QED
  BY <1>2, <1>3, <1>4, <1>5, <1>6, <1>8, <1>9 DEF StockInv, RowsSound

-----------------------------------------------------------------------------
(* The invariant and what it says *)

LEMMA FirstBatches ==
    ASSUME StockInit
    PROVE  /\ \A b \in Batches :
                \/ batch[b] = [of |-> None, got |-> 0, left |-> 0]
                \/ \E i \in Ingredients : batch[b] = [of |-> i, got |-> Opening[i], left |-> Opening[i]]
           /\ \A b, c \in Batches : b \in Free /\ b <= c => c \in Free
<1>1. Ingredients \in SUBSET Nat /\ IsFiniteSet(Ingredients) /\ None \notin Ingredients
      /\ MaxBatches \in Nat /\ Cardinality(Ingredients) <= MaxBatches
  BY StockAssumption
<1>2. PICK c \in Nat : /\ c = Cardinality(Ingredients)
                       /\ \A i \in Ingredients : FirstBatch(i) \in 1 .. c
                       /\ \A n \in 1 .. c : \E i \in Ingredients : FirstBatch(i) = n
  <2>1. \A i \in Ingredients : FirstBatch(i) = Rank(Ingredients, i)
    BY DEF FirstBatch, Rank
  <2>2. /\ Cardinality(Ingredients) \in Nat
        /\ \A i \in Ingredients : Rank(Ingredients, i) \in 1 .. Cardinality(Ingredients)
        /\ \A n \in 1 .. Cardinality(Ingredients) : \E i \in Ingredients : Rank(Ingredients, i) = n
    BY <1>1, RanksCount
  <2> HIDE DEF FirstBatch, Rank
  <2> QED
    BY <2>1, <2>2
<1>3. \A b \in Batches : b \in Nat /\ b >= 1
  BY <1>1 DEF Batches
<1>4. ASSUME NEW b \in Batches, b <= c
      PROVE  \E i \in Ingredients : batch[b] = [of |-> i, got |-> Opening[i], left |-> Opening[i]]
  <2>1. b \in 1 .. c
    BY <1>2, <1>3, <1>4
  <2>2. \E i \in Ingredients : FirstBatch(i) = b
    BY <1>2, <2>1
  <2>3. PICK i : i = CHOOSE k \in Ingredients : FirstBatch(k) = b
    OBVIOUS
  <2>4. i \in Ingredients
    BY <2>2, <2>3
  <2>5. InitialBatch(b) = [of |-> i, got |-> Opening[i], left |-> Opening[i]]
    BY <2>2, <2>3, Zenon DEF InitialBatch
  <2>6. batch[b] = InitialBatch(b)
    BY DEF StockInit
  <2> QED
    BY <2>4, <2>5, <2>6
<1>5. ASSUME NEW b \in Batches, ~ (b <= c)
      PROVE  batch[b] = [of |-> None, got |-> 0, left |-> 0]
  <2>1. b \notin 1 .. c
    BY <1>2, <1>3, <1>5
  <2>2. ~ \E i \in Ingredients : FirstBatch(i) = b
    BY <1>2, <2>1
  <2>3. InitialBatch(b) = [of |-> None, got |-> 0, left |-> 0]
    BY <2>2, Zenon DEF InitialBatch
  <2>4. batch[b] = InitialBatch(b)
    BY DEF StockInit
  <2> QED
    BY <2>3, <2>4
<1>6. \A b \in Batches : b \in Free <=> ~ (b <= c)
  <2>1. ASSUME NEW b \in Batches PROVE b \in Free <=> ~ (b <= c)
    <3>1. CASE b <= c
      <4>1. PICK i \in Ingredients : batch[b] = [of |-> i, got |-> Opening[i], left |-> Opening[i]]
        BY <1>4, <3>1
      <4>2. batch[b].of # None
        BY <1>1, <4>1
      <4> QED
        BY <3>1, <4>2 DEF Free
    <3>2. CASE ~ (b <= c)
      <4>1. batch[b].of = None
        BY <1>5, <3>2
      <4> QED
        BY <3>2, <4>1 DEF Free
    <3> QED
      BY <3>1, <3>2
  <2> QED
    BY <2>1
<1>7. \A b, d \in Batches : b \in Free /\ b <= d => d \in Free
  BY <1>2, <1>3, <1>6
<1> QED
  BY <1>4, <1>5, <1>7

LEMMA InitHolds ==
    ASSUME StockInit
    PROVE  StockInv
<1>1. \A o \in Orders, i \in Ingredients, p \in Places : sold[o][i][p] = 0 /\ back[o][i][p] = 0
  BY DEF StockInit, Nowhere
<1>2. /\ Opening \in [Ingredients -> Nat] /\ None \notin Ingredients
      /\ Ordered \in [Purchases -> [Ingredients -> Nat]]
  BY StockAssumption
<1>3. \A b \in Batches : /\ drawn[b] = 0 /\ batch[b] \in BatchRow
                         /\ batch[b].left = batch[b].got /\ batch[b].left >= 0
                         /\ batch[b].of = None => batch[b].got = 0
  <2> SUFFICES ASSUME NEW b \in Batches
               PROVE  /\ drawn[b] = 0 /\ batch[b] \in BatchRow
                      /\ batch[b].left = batch[b].got /\ batch[b].left >= 0
                      /\ batch[b].of = None => batch[b].got = 0
    OBVIOUS
  <2>1. drawn[b] = 0
    BY DEF StockInit
  <2>2. ASSUME batch[b] = [of |-> None, got |-> 0, left |-> 0]
        PROVE  /\ batch[b] \in BatchRow
               /\ batch[b].left = batch[b].got /\ batch[b].left >= 0
               /\ batch[b].of = None => batch[b].got = 0
    BY <2>2 DEF BatchRow
  <2>3. ASSUME NEW i \in Ingredients, batch[b] = [of |-> i, got |-> Opening[i], left |-> Opening[i]]
        PROVE  /\ batch[b] \in BatchRow
               /\ batch[b].left = batch[b].got /\ batch[b].left >= 0
               /\ batch[b].of = None => batch[b].got = 0
    <3>1. Opening[i] \in Nat /\ i # None
      BY <1>2
    <3> QED
      BY <2>3, <3>1 DEF BatchRow
  <2>4. \/ batch[b] = [of |-> None, got |-> 0, left |-> 0]
        \/ \E i \in Ingredients : batch[b] = [of |-> i, got |-> Opening[i], left |-> Opening[i]]
    BY FirstBatches
  <2> QED
    BY <2>1, <2>2, <2>3, <2>4, Zenon
<1>4. TypeOK
  <2>1. batch \in [Batches -> BatchRow] /\ drawn \in [Batches -> Int]
    <3>1. DOMAIN batch = Batches /\ batch = [b \in Batches |-> batch[b]]
      BY DEF StockInit
    <3>2. drawn \in [Batches -> Int]
      BY DEF StockInit
    <3> QED
      BY <1>3, <3>1, <3>2
  <2>2. sold \in PerPlace /\ back \in PerPlace
    BY DEF StockInit, Nowhere, PerPlace
  <2>3. po \in [Purchases -> PoRow] /\ delivered \in [Purchases -> [Ingredients -> Int]]
    BY DEF StockInit, Zero, PoRow, PoStatus
  <2>4. stock \in [Ingredients -> Int] /\ moved \in [Ingredients -> Int]
    BY <1>2 DEF StockInit
  <2> QED
    BY <2>1, <2>2, <2>3, <2>4 DEF StockInit, TypeOK
<1>5. JobsFit /\ LocksOwned
  BY DEF StockInit, JobsFit, LocksOwned, Running
<1>6. BatchesPromised
  <2>1. Promised = {}
    BY DEF StockInit, Promised
  <2>2. Cardinality(Promised) = 0
    BY <2>1, FS_EmptySet
  <2>3. Cardinality(Free) \in Nat
    BY <1>4, FinitePromises
  <2> QED
    BY <2>2, <2>3 DEF BatchesPromised
<1>7. BatchesSound
  <2>1. \A b \in Batches : batch[b].of # None => Total(OutOf(b), Orders) = 0
    <3> SUFFICES ASSUME NEW b \in Batches, batch[b].of # None
                 PROVE  Total(OutOf(b), Orders) = 0
      OBVIOUS
    <3>1. batch[b].of \in Ingredients /\ b \in Places
      BY <1>3, FinitePlaces DEF BatchRow
    <3>2. \A o \in Orders : OutOf(b)[o] = 0
      BY <1>1, <3>1 DEF OutOf, Room
    <3>3. \A o \in Orders : OutOf(b)[o] \in Int /\ OutOf(b)[o] <= 0
      BY <3>2
    <3> QED
      BY <3>3, NothingToCount
  <2>2. \A b, c \in Batches : b \in Free /\ b <= c => c \in Free
    BY FirstBatches
  <2>3. \A b \in Batches, o \in Orders, i \in Ingredients : sold[o][i][b] = 0 /\ back[o][i][b] = 0
    BY <1>1, FinitePlaces
  <2>4. \A b \in Batches : /\ batch[b].left = batch[b].got - drawn[b] /\ batch[b].left >= 0
                           /\ batch[b].of = None => batch[b].got = 0 /\ batch[b].left = 0
                           /\ batch[b].of # None => Total(OutOf(b), Orders) <= drawn[b]
    <3>1. \A b \in Batches : batch[b].got \in Int
      BY <1>3 DEF BatchRow
    <3> QED
      BY <1>3, <2>1, <3>1
  <2> QED
    BY <2>2, <2>3, <2>4 DEF BatchesSound
<1>8. OrdersSound
  <2>1. \A o \in Orders : bill[o] = "OPEN"
    BY DEF StockInit
  <2> QED
    BY <1>1, <2>1 DEF OrdersSound
<1>9. DeliveriesCount
  BY DEF StockInit, DeliveriesCount, Zero
<1> QED
  BY <1>4, <1>5, <1>6, <1>7, <1>8, <1>9 DEF StockInv, RowsSound

LEMMA NothingHappens ==
    ASSUME StockInv, UNCHANGED stockVars
    PROVE  StockInv'
<1>1. UNCHANGED rowVars /\ job' = job /\ row' = row /\ made' = made
  BY DEF stockVars, rowVars
<1>2. RowsSound'
  BY <1>1, RowsStay DEF StockInv
<1>3. TypeOK'
  BY <1>1 DEF StockInv, TypeOK, rowVars
<1>4. LocksOwned'
  BY <1>1 DEF StockInv, LocksOwned, Running
<1>5. BatchesPromised'
  <2>1. Free' = Free /\ Promised' = Promised
    BY <1>1 DEF Free, Promised, Inward, rowVars
  <2> QED
    BY <2>1 DEF StockInv, BatchesPromised
<1>6. JobsFit'
  <2> SUFFICES ASSUME NEW v \in Workers, job'[v] # NoJob
               PROVE  \E j \in {job'[v]} : JobFits(v, j)'
    BY DEF JobsFit, Running
  <2>1. PICK j : j = job[v]
    OBVIOUS
  <2>2. job'[v] = j /\ j # NoJob
    BY <1>1, <2>1
  <2>3. j \in StockJob /\ JobFits(v, j)
    BY <2>1, <2>2 DEF StockInv, TypeOK, JobsFit, Running
  <2>4. SparesWhatIsHeld(v)
    <3>1. \A p \in Purchases, i \in Ingredients : delivered[p][i] \in Int
      BY DEF StockInv, TypeOK
    <3>2. \A o \in Orders, i \in Ingredients : Room(o, i)' = Room(o, i)
      BY <1>1 DEF Room, rowVars
    <3> QED
      BY <1>1, <3>1, <3>2 DEF SparesWhatIsHeld, rowVars
  <2>5. JobFits(v, j)'
    BY <1>2, <1>3, <2>3, <2>4, OthersKeep DEF StockInv, RowsSound
  <2> QED
    BY <2>2, <2>5
<1> QED
  BY <1>2, <1>3, <1>4, <1>5, <1>6 DEF StockInv

LEMMA StepHolds == StockInv /\ [StockNext]_stockVars => StockInv'
<1> SUFFICES ASSUME StockInv, [StockNext]_stockVars PROVE StockInv'
  OBVIOUS
<1>1. CASE UNCHANGED stockVars
  BY <1>1, NothingHappens
<1>2. ASSUME NEW w \in Workers, Start(w) \/ Step(w) \/ Rollback(w) PROVE StockInv'
  <2>1. CASE Start(w)
    BY <2>1, StartKeeps
  <2>2. CASE ReadStock(w)
    BY <2>2, ReadKeeps
  <2>3. CASE Consume(w)
    BY <2>3, ConsumeKeeps
  <2>4. CASE Restore(w)
    BY <2>4, RestoreKeeps
  <2>5. CASE Arrive(w)
    BY <2>5, ArriveKeeps
  <2>6. CASE Book(w)
    BY <2>6, BookKeeps
  <2>7. CASE Commit(w)
    BY <2>7, CommitKeeps
  <2>8. CASE Refuse(w)
    BY <2>8, RollbackKeeps DEF Refuse
  <2>9. CASE BreakDeadlock(w)
    BY <2>9, RollbackKeeps DEF BreakDeadlock
  <2>10. CASE Rollback(w)
    BY <2>10, RollbackKeeps
  <2> QED
    BY <1>2, <2>1, <2>2, <2>3, <2>4, <2>5, <2>6, <2>7, <2>8, <2>9, <2>10 DEF Step
<1> QED
  BY <1>1, <1>2 DEF StockNext

LEMMA InvHolds == StockSpec => []StockInv
  BY InitHolds, StepHolds, PTL DEF StockSpec

\* Every row and every transaction in progress has its shape, in every
\* reachable state (the tables of prisma/schema.prisma the ledger lives in).
THEOREM TypeCorrect == StockSpec => []TypeOK
<1>1. StockInv => TypeOK
  BY DEF StockInv
<1> QED
  BY <1>1, InvHolds, PTL

\* Between the read of a batch and its write another request cannot get in: what
\* is left is what came in less what the movements took (stock.service.ts:72-82).
THEOREM BatchesAreTheirMovements == StockSpec => []BatchIsItsMovements
<1>1. StockInv => BatchIsItsMovements
  <2> SUFFICES ASSUME StockInv, NEW b \in Batches
               PROVE  batch[b].left = batch[b].got - drawn[b] /\ batch[b].left \in 0 .. batch[b].got
    BY DEF BatchIsItsMovements
  <2>1. /\ batch[b].left \in Int /\ batch[b].got \in Int /\ drawn[b] \in Int
        /\ batch[b].of \in Ingredients \cup {None}
    BY DEF StockInv, TypeOK, BatchRow
  <2>2. /\ batch[b].left = batch[b].got - drawn[b] /\ batch[b].left >= 0
        /\ batch[b].of = None => batch[b].got = 0 /\ batch[b].left = 0
        /\ batch[b].of # None => Total(OutOf(b), Orders) <= drawn[b]
    BY DEF StockInv, RowsSound, BatchesSound
  <2>3. CASE batch[b].of = None
    BY <2>1, <2>2, <2>3
  <2>4. CASE batch[b].of # None
    <3>1. \A o \in Orders : OutOf(b)[o] \in Int
      <4>1. \A o \in Orders : Room(o, batch[b].of)[b] \in Nat
        BY <2>1, <2>4, FiguresAreNumbers, FinitePlaces DEF StockInv, RowsSound
      <4> QED
        BY <4>1 DEF OutOf
    <3>2. Total(OutOf(b), Orders) \in Nat
      BY <3>1, UnitsAreFinite, StockAssumption
    <3> QED
      BY <2>1, <2>2, <2>4, <3>2
  <2> QED
    BY <2>3, <2>4
<1> QED
  BY <1>1, InvHolds, PTL

\* However many checkouts of a bill and returns run at once, a paid order has
\* taken its plan once, an open one nothing, and nothing comes back twice
\* (inventory.service.ts:269, stock.service.ts:189).
THEOREM OrdersMoveStockOnce == StockSpec => []OrderMovesStockOnce
<1>1. StockInv => OrderMovesStockOnce
  <2> SUFFICES ASSUME StockInv, NEW o \in Orders, NEW i \in Ingredients
               PROVE  /\ Total(sold[o][i], Places) = IF bill[o] = "PAID" THEN Need[o][i] ELSE 0
                      /\ \A p \in Places : back[o][i][p] <= sold[o][i][p]
    BY DEF OrderMovesStockOnce
  <2>1. /\ bill[o] = "OPEN" => \A p \in Places : sold[o][i][p] = 0
        /\ bill[o] = "PAID" => Total(sold[o][i], Places) = Need[o][i]
        /\ \A p \in Places : back[o][i][p] \in 0 .. sold[o][i][p]
        /\ bill[o] \in {"OPEN", "PAID"}
    BY DEF StockInv, TypeOK, RowsSound, OrdersSound
  <2>2. \A p \in Places : back[o][i][p] <= sold[o][i][p]
    BY <2>1
  <2>3. CASE bill[o] = "OPEN"
    <3>1. \A p \in Places : sold[o][i][p] \in Int /\ sold[o][i][p] <= 0
      BY <2>1, <2>3
    <3>2. Total(sold[o][i], Places) = 0
      BY <3>1, NothingToCount
    <3> QED
      BY <2>2, <2>3, <3>2
  <2>4. CASE bill[o] = "PAID"
    BY <2>1, <2>2, <2>4
  <2> QED
    BY <2>1, <2>3, <2>4
<1> QED
  BY <1>1, InvHolds, PTL

\* However receipts and status changes overtake each other, a purchase order
\* counts no more than was delivered (goods-receipts.service.ts).
THEOREM PurchasesCountDeliveries == StockSpec => []CountsOnlyDeliveries
<1>1. StockInv => CountsOnlyDeliveries
  <2> SUFFICES ASSUME StockInv, NEW p \in Purchases, NEW i \in Ingredients
               PROVE  /\ po[p].got[i] <= delivered[p][i]
                      /\ po[p].status = "RECEIVED" => delivered[p][i] >= Ordered[p][i]
    BY DEF CountsOnlyDeliveries
  <2>1. /\ po[p].got[i] <= delivered[p][i]
        /\ po[p].status = "RECEIVED" => Ordered[p][i] <= po[p].got[i]
    BY DEF StockInv, RowsSound, DeliveriesCount
  <2>2. po[p].got[i] \in Int /\ delivered[p][i] \in Int /\ Ordered[p][i] \in Int
    BY StockAssumption DEF StockInv, TypeOK, PoRow
  <2> QED
    BY <2>1, <2>2
<1> QED
  BY <1>1, InvHolds, PTL
=============================================================================
