---------------------------- MODULE KeyPrvProofs ----------------------------
(***************************************************************************)
(* The safety of the KEY/PRV administrations for every set of requests,    *)
(* every number of items and incidents and every size of the generator's   *)
(* words, and what is fair about the order: every step of the shuffle is   *)
(* an unbiased choice, and different choices lead to different orders.     *)
(***************************************************************************)
EXTENDS KeyPrvAdministration, FiniteSetTheorems, SequenceTheorems,
        WellFoundedInduction, TLAPS

-----------------------------------------------------------------------------
(* Induction and recursion over the natural numbers, for a set.            *)

LEMMA Least ==
  ASSUME NEW T, T \subseteq Nat, T # {}
  PROVE  \E n \in T : \A m \in T : ~(m < n)
<1> DEFINE Below == {p \in Nat \X Nat : p[1] < p[2]}
<1>1. OpToRel(<, Nat) = Below
  BY DEF OpToRel
<1>2. IsWellFoundedOn(Below, Nat)
  BY <1>1, NatLessThanWellFounded
<1> HIDE DEF Below
<1>3. PICK x \in T : \A y \in T : ~ (<<y, x>> \in Below)
  BY <1>2, WFMin
<1> QED
  BY <1>3 DEF Below

LEMMA Induction ==
  ASSUME NEW P, 0 \in P, \A n \in Nat : n \in P => n + 1 \in P
  PROVE  \A n \in Nat : n \in P
<1> SUFFICES ASSUME NEW k \in Nat, k \notin P PROVE FALSE
  OBVIOUS
<1> DEFINE T == Nat \ P
<1>1. T \subseteq Nat /\ T # {}
  OBVIOUS
<1> HIDE DEF T
<1>2. PICK n \in T : \A m \in T : ~(m < n)
  BY <1>1, Least
<1> USE DEF T
<1>3. n \in Nat /\ n # 0
  OBVIOUS
<1>4. n - 1 \in Nat /\ n - 1 < n
  BY <1>3
<1>5. n - 1 \in P
  BY <1>2, <1>4
<1> QED
  BY <1>3, <1>5

\* A function that is defined by its value at 0 and its steps exists.
LEMMA Recursion ==
  ASSUME NEW S, NEW base \in S, NEW top \in Nat, NEW step \in [1 .. top -> [S -> S]]
  PROVE  \E g \in [0 .. top -> S] :
           /\ g[0] = base
           /\ \A k \in 1 .. top : g[k] = step[k][g[k - 1]]
<1> DEFINE Up(n, g) == /\ g \in [0 .. n -> S]
                       /\ g[0] = base
                       /\ \A k \in 1 .. n : g[k] = step[k][g[k - 1]]
           P == {n \in Nat : n <= top => \E g : Up(n, g)}
<1>1. 0 \in P
  <2> DEFINE g == [k \in 0 .. 0 |-> base]
  <2>1. Up(0, g)
    OBVIOUS
  <2> QED
    BY <2>1
<1>2. ASSUME NEW n \in Nat, n \in P, n + 1 <= top
      PROVE  \E g : Up(n + 1, g)
  <2>1. PICK g : Up(n, g)
    BY <1>2
  <2> DEFINE h == [k \in 0 .. n + 1 |-> IF k = n + 1 THEN step[n + 1][g[n]] ELSE g[k]]
  <2>2. g[n] \in S /\ n + 1 \in 1 .. top
    BY <1>2, <2>1
  <2>3. step[n + 1][g[n]] \in S
    BY <2>2
  <2>4. h \in [0 .. n + 1 -> S] /\ h[0] = base
    BY <2>1, <2>3
  <2>5. ASSUME NEW k \in 1 .. n + 1 PROVE h[k] = step[k][h[k - 1]]
    <3>1. CASE k = n + 1
      <4>1. k - 1 = n /\ h[n] = g[n] /\ h[n + 1] = step[n + 1][g[n]]
        BY <3>1
      <4> QED
        BY <3>1, <4>1
    <3>2. CASE k # n + 1
      <4>1. k \in 1 .. n /\ k - 1 \in 0 .. n /\ k - 1 # n + 1 /\ k - 1 \in 0 .. n + 1
        BY <3>2
      <4>2. h[k] = g[k] /\ h[k - 1] = g[k - 1]
        BY <3>2, <4>1
      <4> QED
        BY <2>1, <4>1, <4>2
    <3> QED
      BY <3>1, <3>2
  <2> QED
    BY <2>4, <2>5
<1>3. ASSUME NEW n \in Nat, n \in P PROVE n + 1 \in P
  <2>1. n + 1 <= top => \E g : Up(n + 1, g)
    BY <1>2, <1>3
  <2> QED
    BY <2>1
<1> HIDE DEF P
<1>4. top \in P
  BY <1>1, <1>3, Induction
<1> QED
  BY <1>4 DEF P

-----------------------------------------------------------------------------
(* The shuffle. *)

Orders == [ItemIds -> ItemIds]
Permuted == {order \in Orders : IsInjective(order)}

LEMMA SwapPermutes ==
  ASSUME NEW order \in Permuted, NEW i \in ItemIds, NEW j \in ItemIds
  PROVE  /\ Swap(order, i, j) \in Permuted
         /\ Swap(order, i, j)[i] = order[j]
         /\ Swap(order, i, j)[j] = order[i]
         /\ \A k \in ItemIds \ {i, j} : Swap(order, i, j)[k] = order[k]
  BY DEF Swap, Permuted, Orders, IsInjective

Step(seed) == [k \in 1 .. Items - 1 |-> [order \in Permuted |->
                 Swap(order, Items + 1 - k, seed[Items + 1 - k])]]

LEMMA SeedsPick ==
  ASSUME NEW seed \in Seeds, NEW k \in 1 .. Items - 1
  PROVE  /\ Items + 1 - k \in 2 .. Items /\ Items + 1 - k \in ItemIds
         /\ seed[Items + 1 - k] \in ItemIds
         /\ seed[Items + 1 - k] <= Items + 1 - k
  BY ItemsAssumption DEF Seeds, ItemIds

\* The function Shuffle is what its recursion says.
LEMMA ShuffleSteps ==
  ASSUME NEW seed \in Seeds
  PROVE  /\ Shuffle(seed) \in [0 .. Items - 1 -> Permuted]
         /\ Shuffle(seed)[0] = CanonicalOrder
         /\ \A k \in 1 .. Items - 1 :
              Shuffle(seed)[k] = Swap(Shuffle(seed)[k - 1], Items + 1 - k,
                                      seed[Items + 1 - k])
<1> DEFINE top == Items - 1
           Rec(f) == [k \in 0 .. Items - 1 |->
                        IF k = 0 THEN CanonicalOrder
                        ELSE Swap(f[k - 1], Items + 1 - k, seed[Items + 1 - k])]
<1>1. CanonicalOrder \in Permuted
  BY DEF CanonicalOrder, Permuted, Orders, IsInjective
<1>2. Step(seed) \in [1 .. top -> [Permuted -> Permuted]]
  BY SwapPermutes, SeedsPick DEF Step
<1>3. top \in Nat
  BY ItemsAssumption
<1> HIDE DEF top
<1>4. PICK g \in [0 .. top -> Permuted] :
        /\ g[0] = CanonicalOrder
        /\ \A k \in 1 .. top : g[k] = Step(seed)[k][g[k - 1]]
  BY <1>1, <1>2, <1>3, Recursion
<1> USE DEF top
<1>5. g = Rec(g)
  <2>1. ASSUME NEW k \in 1 .. top
        PROVE  g[k] = Swap(g[k - 1], Items + 1 - k, seed[Items + 1 - k])
    <3>1. k - 1 \in 0 .. top
      BY <1>3
    <3>2. g[k - 1] \in Permuted
      BY <1>4, <3>1
    <3> QED
      BY <1>4, <3>2 DEF Step
  <2>2. ASSUME NEW k \in 0 .. top PROVE g[k] = Rec(g)[k]
    BY <1>4, <2>1, <1>3
  <2> QED
    BY <1>4, <2>2
<1>6. Shuffle(seed) = CHOOSE f : f = Rec(f)
  BY DEF Shuffle
<1>7. Shuffle(seed) = Rec(Shuffle(seed))
  BY <1>5, <1>6
<1> DEFINE f == Shuffle(seed)
<1> HIDE DEF f
<1>8. f = Rec(f)
  BY <1>7 DEF f
<1> DEFINE P == {n \in Nat : n <= top => f[n] \in Permuted}
<1>9. 0 \in P
  BY <1>1, <1>3, <1>8
<1>10. ASSUME NEW n \in Nat, n \in P PROVE n + 1 \in P
  <2> SUFFICES ASSUME n + 1 <= top PROVE f[n + 1] \in Permuted
    OBVIOUS
  <2>1. f[n] \in Permuted
    BY <1>3, <1>10
  <2>2. n + 1 \in 1 .. top /\ n + 1 - 1 = n /\ n + 1 # 0 /\ n + 1 \in 0 .. Items - 1
    BY <1>3
  <2>3. f[n + 1] = Swap(f[n], Items + 1 - (n + 1), seed[Items + 1 - (n + 1)])
    <3> DEFINE m == n + 1
    <3> HIDE DEF m
    <3>1. f[m] = Rec(f)[m]
      BY <1>8
    <3>2. m \in 0 .. Items - 1 /\ m # 0 /\ m - 1 = n
      BY <2>2 DEF m
    <3>3. f[m] = Swap(f[m - 1], Items + 1 - m, seed[Items + 1 - m])
      BY <3>1, <3>2
    <3> QED
      BY <3>2, <3>3 DEF m
  <2> QED
    BY <2>1, <2>2, <2>3, SwapPermutes, SeedsPick
<1> HIDE DEF P
<1>11. \A n \in Nat : n \in P
  BY <1>9, <1>10, Induction
<1>12. \A n \in 0 .. top : f[n] \in Permuted
  BY <1>3, <1>11 DEF P
<1>13. f \in [0 .. Items - 1 -> Permuted]
  BY <1>8, <1>12
<1>14. f[0] = CanonicalOrder
  BY <1>3, <1>8
<1>15. \A k \in 1 .. Items - 1 :
         f[k] = Swap(f[k - 1], Items + 1 - k, seed[Items + 1 - k])
  BY <1>3, <1>8
<1> QED
  BY <1>13, <1>14, <1>15 DEF f
LEMMA ReplayPermutes ==
  ASSUME NEW seed \in Seeds
  PROVE  Replay(seed) \in Permuted
BY ShuffleSteps, ItemsAssumption DEF Replay

\* A swap leaves the places that were settled before it.
LEMMA Settled ==
  ASSUME NEW seed \in Seeds, NEW k \in 1 .. Items - 1
  PROVE  /\ Shuffle(seed)[k][Items + 1 - k] = Shuffle(seed)[k - 1][seed[Items + 1 - k]]
         /\ Replay(seed)[Items + 1 - k] = Shuffle(seed)[k][Items + 1 - k]
<1> DEFINE f == Shuffle(seed)
           top == Items - 1
           place == Items + 1 - k
<1>1. /\ f \in [0 .. top -> Permuted]
      /\ \A n \in 1 .. top : f[n] = Swap(f[n - 1], Items + 1 - n, seed[Items + 1 - n])
  BY ShuffleSteps
<1>2. place \in ItemIds /\ seed[place] \in ItemIds
  BY SeedsPick
<1> HIDE DEF f
<1>3. f[k] = Swap(f[k - 1], place, seed[place]) /\ f[k - 1] \in Permuted
  <2>1. k - 1 \in 0 .. top
    BY ItemsAssumption
  <2> QED
    BY <1>1, <2>1
<1>4. f[k][place] = f[k - 1][seed[place]]
  BY <1>2, <1>3, SwapPermutes
<1> DEFINE P == {n \in Nat : k + n <= top => f[k + n][place] = f[k][place]}
<1>5. 0 \in P
  OBVIOUS
<1>6. ASSUME NEW n \in Nat, n \in P PROVE n + 1 \in P
  <2> DEFINE m == k + (n + 1)
             i == Items + 1 - m
  <2> SUFFICES ASSUME m <= top PROVE f[m][place] = f[k][place]
    OBVIOUS
  <2>1. /\ m \in 1 .. top /\ m - 1 = k + n /\ m - 1 \in 0 .. top
        /\ k + n <= top /\ i # place /\ i < place
    BY ItemsAssumption
  <2>2. f[m - 1][place] = f[k][place]
    BY <1>6, <2>1
  <2>3. i \in ItemIds /\ seed[i] \in ItemIds /\ seed[i] <= i
    BY <2>1, SeedsPick
  <2>4. seed[i] # place
    BY <2>1, <2>3, ItemsAssumption DEF ItemIds
  <2>5. f[m] = Swap(f[m - 1], i, seed[i]) /\ f[m - 1] \in Permuted
    BY <1>1, <2>1
  <2> HIDE DEF m, i
  <2>6. f[m][place] = f[m - 1][place]
    <3>1. place \in ItemIds \ {i, seed[i]}
      BY <1>2, <2>1, <2>4
    <3> DEFINE order == f[m - 1]
               j == seed[i]
    <3>2. Swap(order, i, j)[place] = order[place]
      <4> HIDE DEF place, order, j
      <4>1. order \in Permuted /\ i \in ItemIds /\ j \in ItemIds /\ place \in ItemIds \ {i, j}
        BY <2>3, <2>5, <3>1 DEF order, j
      <4> QED
        BY <4>1, SwapPermutes
    <3> QED
      BY <2>5, <3>2
  <2> QED
    BY <2>2, <2>6
<1> HIDE DEF P
<1>7. \A n \in Nat : n \in P
  BY <1>5, <1>6, Induction
<1>8. top - k \in Nat /\ k + (top - k) = top
  BY ItemsAssumption
<1>9. f[top][place] = f[k][place]
  BY <1>7, <1>8, ItemsAssumption DEF P
<1> QED
  BY <1>4, <1>9 DEF Replay, f

\* The order a seed leads to gives the seed away.
LEMMA SeedOfOrder ==
  ASSUME NEW s \in Seeds, NEW t \in Seeds, Replay(s) = Replay(t)
  PROVE  s = t
<1> DEFINE top == Items - 1
           P == {n \in Nat : n <= top => /\ Shuffle(s)[n] = Shuffle(t)[n]
                                         /\ \A k \in 1 .. n : s[Items + 1 - k] = t[Items + 1 - k]}
<1>1. 0 \in P
  BY ShuffleSteps
<1>2. ASSUME NEW n \in Nat, n \in P PROVE n + 1 \in P
  <2> DEFINE k == n + 1
             place == Items + 1 - k
  <2> SUFFICES ASSUME k <= top
               PROVE  /\ Shuffle(s)[k] = Shuffle(t)[k]
                      /\ \A j \in 1 .. k : s[Items + 1 - j] = t[Items + 1 - j]
    OBVIOUS
  <2>1. k \in 1 .. top /\ k - 1 = n /\ n \in 0 .. top
    BY ItemsAssumption
  <2>2. /\ Shuffle(s)[n] = Shuffle(t)[n]
        /\ \A j \in 1 .. n : s[Items + 1 - j] = t[Items + 1 - j]
    BY <1>2, <2>1
  <2>3. Shuffle(s)[n] \in Permuted
    BY <2>1, ShuffleSteps
  <2>4. s[place] \in ItemIds /\ t[place] \in ItemIds
    BY <2>1, SeedsPick
  <2>5. Shuffle(s)[n][s[place]] = Shuffle(t)[n][t[place]]
    BY <2>1, Settled
  <2>6. s[place] = t[place]
    BY <2>2, <2>3, <2>4, <2>5 DEF Permuted, Orders, IsInjective
  <2>7. Shuffle(s)[k] = Shuffle(t)[k]
    BY <2>1, <2>2, <2>6, ShuffleSteps
  <2>8. \A j \in 1 .. k : j \in 1 .. n \/ j = k
    BY <2>1
  <2> QED
    BY <2>2, <2>6, <2>7, <2>8
<1> HIDE DEF P
<1>3. \A n \in Nat : n \in P
  BY <1>1, <1>2, Induction
<1>4. \A k \in 1 .. top : s[Items + 1 - k] = t[Items + 1 - k]
  BY <1>3, ItemsAssumption DEF P
<1>5. ASSUME NEW i \in 2 .. Items PROVE s[i] = t[i]
  <2>1. Items + 1 - i \in 1 .. top /\ Items + 1 - (Items + 1 - i) = i
    BY ItemsAssumption
  <2> QED
    BY <1>4, <2>1
<1>6. s \in [2 .. Items -> ItemIds] /\ t \in [2 .. Items -> ItemIds]
  BY DEF Seeds
<1>7. s = [i \in 2 .. Items |-> s[i]] /\ t = [i \in 2 .. Items |-> t[i]]
  BY <1>6
<1> QED
  BY <1>5, <1>7, Zenon
-----------------------------------------------------------------------------
(* The generator: as many words lead to one index as to another.           *)

LEMMA Divided ==
  ASSUME NEW w \in Nat, NEW b \in Nat \ {0}
  PROVE  \E k \in Nat, r \in 0 .. b - 1 : w = b * k + r
<1> WITNESS (w \div b) \in Nat
<1>1. w - b * (w \div b) \in 0 .. b - 1
  OBVIOUS
<1> WITNESS w - b * (w \div b) \in 0 .. b - 1
<1> QED
  OBVIOUS

LEMMA Remainder ==
  ASSUME NEW k \in Nat, NEW b \in Nat \ {0}, NEW j \in 0 .. b - 1
  PROVE  (b * k + j) % b = j
OBVIOUS

LEMMA Multiples ==
  ASSUME NEW b \in Nat, NEW k \in Nat, NEW q \in Nat, q <= k
  PROVE  b * q <= b * k
<1>1. PICK d \in Nat : k = q + d
  <2>1. k - q \in Nat /\ k = q + (k - q)
    OBVIOUS
  <2> QED
    BY <2>1
<1>2. b * d \in Nat /\ b * k = b * q + b * d
  BY <1>1
<1> QED
  BY <1>2

\* A block of b words lies below a multiple of b entirely or not at all.
LEMMA WholeBlocks ==
  ASSUME NEW b \in Nat \ {0}, NEW k \in Nat, NEW q \in Nat,
         NEW i \in 0 .. b - 1, NEW j \in 0 .. b - 1, b * k + i < q * b
  PROVE  b * k + j < q * b
<1>1. CASE q <= k
  <2>1. b * q <= b * k
    BY <1>1, Multiples
  <2>2. b * q = q * b /\ b * k \in Nat /\ b * q \in Nat
    OBVIOUS
  <2> QED
    BY <2>1, <2>2
<1>2. CASE k + 1 <= q
  <2>1. b * (k + 1) <= b * q
    BY <1>2, Multiples
  <2>2. b * q = q * b /\ b * (k + 1) = b * k + b /\ b * k \in Nat /\ b * q \in Nat
    OBVIOUS
  <2> QED
    BY <2>1, <2>2
<1> QED
  BY <1>1, <1>2

\* Of the accepted words, those that lead to i, moved by j - i, lead to j.
LEMMA Moved ==
  ASSUME NEW b \in Nat \ {0}, NEW i \in 0 .. b - 1, NEW j \in 0 .. b - 1,
         NEW w \in Accepted(b), Sample(w, b) = i
  PROVE  w + j - i \in Accepted(b) /\ Sample(w + j - i, b) = j
<1> DEFINE q == Words \div b
<1>1. q \in Nat /\ q * b <= Words
  BY WordsAssumption
<1>2. w \in Nat /\ w < q * b
  BY WordsAssumption DEF Accepted
<1> HIDE DEF q
<1>3. PICK k \in Nat, r \in 0 .. b - 1 : w = b * k + r
  BY <1>2, Divided
<1>4. r = i
  BY <1>3, Remainder DEF Sample
<1>5. w + j - i = b * k + j
  BY <1>2, <1>3, <1>4
<1>6. b * k + j < q * b
  BY <1>1, <1>2, <1>3, <1>4, WholeBlocks
<1>7. b * k + j \in Nat
  OBVIOUS
<1>8. b * k + j \in 0 .. Words - 1
  BY <1>1, <1>6, <1>7, WordsAssumption
<1>9. (b * k + j) % b = j
  BY Remainder
<1> QED
  BY <1>5, <1>6, <1>8, <1>9 DEF Accepted, Sample, q

LEMMA EquallyMany ==
  ASSUME NEW b \in Nat \ {0}, NEW i \in 0 .. b - 1, NEW j \in 0 .. b - 1
  PROVE  Cardinality({w \in Accepted(b) : Sample(w, b) = i})
           = Cardinality({w \in Accepted(b) : Sample(w, b) = j})
<1> DEFINE From == {w \in Accepted(b) : Sample(w, b) = i}
           To == {w \in Accepted(b) : Sample(w, b) = j}
           move == [w \in From |-> w + j - i]
<1>1. From \subseteq 0 .. Words - 1 /\ To \subseteq 0 .. Words - 1
  BY DEF Accepted
<1>2. IsFiniteSet(From)
  <2>1. IsFiniteSet(0 .. Words - 1)
    BY FS_Interval, WordsAssumption
  <2> HIDE DEF From
  <2> QED
    BY <1>1, <2>1, FS_Subset
<1>3. move \in [From -> To]
  BY Moved
<1>4. \A v, w \in From : move[v] = move[w] => v = w
  <2> SUFFICES ASSUME NEW v \in From, NEW w \in From, v + j - i = w + j - i PROVE v = w
    OBVIOUS
  <2>1. v \in Int /\ w \in Int
    BY <1>1
  <2> QED
    BY <2>1
<1>5. \A w \in To : \E v \in From : move[v] = w
  <2> SUFFICES ASSUME NEW w \in To PROVE \E v \in From : move[v] = w
    OBVIOUS
  <2>1. w + i - j \in From
    BY Moved
  <2>2. (w + i - j) + j - i = w
    <3>1. w \in Int
      BY <1>1
    <3> QED
      BY <3>1
  <2> QED
    BY <2>1, <2>2
<1> HIDE DEF From, To, move
<1>6. move \in Bijection(From, To)
  BY <1>3, <1>4, <1>5 DEF Bijection, Injection, Surjection, IsInjective
<1>7. Cardinality(From) = Cardinality(To)
  BY <1>2, <1>6, FS_Bijection DEF ExistsBijection
<1> QED
  BY <1>7 DEF From, To

\* The order is unbiased at any time, whatever is locked.
THEOREM OrderSafe == Spec => []OrderIsUnbiased
<1>1. \A bound \in 2 .. Items : \A i, j \in 0 .. bound - 1 :
         Cardinality({w \in Accepted(bound) : Sample(w, bound) = i})
           = Cardinality({w \in Accepted(bound) : Sample(w, bound) = j})
  BY EquallyMany, ItemsAssumption
<1>2. \A s, t \in Seeds : Replay(s) = Replay(t) => s = t
  BY SeedOfOrder
<1>3. \A s \in Seeds : IsInjective(Replay(s))
  BY ReplayPermutes DEF Permuted
<1>4. OrderIsUnbiased
  BY <1>1, <1>2, <1>3 DEF OrderIsUnbiased
<1> QED
  BY <1>4, PTL

-----------------------------------------------------------------------------
(* The inductive invariant: every snapshot is integral, and an outcome it  *)
(* records is the one that its own answers give.                           *)

Response == [item : ItemIds, response : BOOLEAN]
Sound(rec) ==
  /\ Integral(rec)
  /\ rec.outcome \in {"eligible", "ineligible"} =>
       /\ rec.status = "completed" /\ Len(rec.responses) = Items
       /\ rec.outcome = IF AllTrue(rec) THEN "eligible" ELSE "ineligible"
SnapshotsSound == \A r \in Requests : \A i \in DOMAIN histories[r] : Sound(histories[r][i])
IInv == TypeOK /\ SnapshotsSound

LEMMA FieldTypes ==
  ASSUME NEW rec \in Administration
  PROVE  /\ rec.seed \in Seeds \cup {None} /\ rec.order \in Orders
         /\ rec.started \in BOOLEAN /\ rec.responses \in Seq(Response)
         /\ rec.lastCompletedOrdinal \in 0 .. Items /\ rec.status \in Statuses
         /\ rec.outcome \in {"pending", "eligible", "ineligible", "uncertain"}
         /\ rec.prior \in Digests \cup {None} /\ rec.incident \in Incidents \cup {None}
BY DEF Administration, Orders, Response

LEMMA LatestSound ==
  ASSUME IInv, NEW r \in Requests, Locked(r)
  PROVE  /\ Current(r) \in Administration /\ Sound(Current(r))
         /\ Current(r).status \in Statuses
         /\ Len(histories[r]) \in Nat \ {0}
<1>1. histories[r] \in Seq(Administration) /\ histories[r] # <<>>
  BY DEF IInv, TypeOK, Locked
<1>2. Len(histories[r]) \in DOMAIN histories[r] /\ Len(histories[r]) \in Nat \ {0}
  BY <1>1
<1>3. Current(r) = histories[r][Len(histories[r])]
  BY DEF Current, Last
<1>4. Current(r) \in Administration
  BY <1>1, <1>2, <1>3
<1>5. Sound(Current(r))
  BY <1>2, <1>3 DEF IInv, SnapshotsSound
<1> QED
  BY <1>2, <1>4, <1>5, FieldTypes

\* A sound snapshot may be written at the end of any history.
LEMMA SoundWrite ==
  ASSUME IInv, NEW r \in Requests, NEW rec \in Administration, Sound(rec), Write(r, rec)
  PROVE  histories' \in [Requests -> Seq(Administration)] /\ SnapshotsSound'
<1>1. /\ histories \in [Requests -> Seq(Administration)]
      /\ histories' = [histories EXCEPT ![r] = Append(histories[r], rec)]
  BY DEF IInv, TypeOK, Write
<1>2. Append(histories[r], rec) \in Seq(Administration)
  BY <1>1
<1>3. ASSUME NEW q \in Requests, NEW i \in DOMAIN histories'[q]
      PROVE  Sound(histories'[q][i])
  <2>1. CASE q = r
    <3> DEFINE h == histories[r]
    <3>1. histories'[q] = Append(h, rec) /\ h \in Seq(Administration)
      BY <1>1, <2>1
    <3>2. CASE i \in DOMAIN h
      <4>1. histories'[q][i] = h[i]
        BY <3>1, <3>2
      <4> QED
        BY <3>2, <4>1 DEF IInv, SnapshotsSound
    <3>3. CASE i = Len(h) + 1
      BY <3>1, <3>3
    <3>4. i \in DOMAIN h \/ i = Len(h) + 1
      BY <3>1
    <3> QED
      BY <3>2, <3>3, <3>4
  <2>2. CASE q # r
    BY <1>1, <1>3, <2>2 DEF IInv, SnapshotsSound
  <2> QED
    BY <2>1, <2>2
<1> QED
  BY <1>1, <1>2, <1>3 DEF SnapshotsSound

LEMMA InitInvariant == Init => IInv
<1> SUFFICES ASSUME Init PROVE IInv
  OBVIOUS
<1>1. histories = [r \in Requests |-> <<>>]
  BY DEF Init
<1>2. \A r \in Requests : histories[r] = <<>> /\ DOMAIN histories[r] = {}
  BY <1>1
<1> QED
  BY <1>1, <1>2 DEF Init, IInv, TypeOK, SnapshotsSound

LEMMA AuthorizeReplacementStep ==
  ASSUME IInv, NEW r \in Requests, NEW new \in Requests, NEW i \in Incidents,
         AuthorizeReplacement(r, new, i)
  PROVE  IInv'
<1>1. CurrentDigest(r) \in Digests
  BY LatestSound DEF AuthorizeReplacement, In, CurrentDigest, Digests
<1>2. /\ authorizations' = [authorizations EXCEPT
           ![new] = [prior |-> CurrentDigest(r), incident |-> i]]
      /\ histories' = histories /\ replaced' = replaced
  BY DEF AuthorizeReplacement
<1>3. TypeOK'
  BY <1>1, <1>2 DEF IInv, TypeOK
<1> QED
  BY <1>2, <1>3 DEF IInv, SnapshotsSound

LEMMA LockStep ==
  ASSUME IInv, NEW r \in Requests, NEW seed \in Seeds \cup {None}, Lock(r, seed)
  PROVE  IInv'
<1> DEFINE auth == authorizations[r]
           order == IF seed = None THEN CanonicalOrder ELSE Replay(seed)
           prior == IF auth = None THEN None ELSE auth.prior
           incident == IF auth = None THEN None ELSE auth.incident
           rec == [seed |-> seed, order |-> order, started |-> FALSE, responses |-> <<>>,
                   lastCompletedOrdinal |-> 0, status |-> "locked", outcome |-> "pending",
                   prior |-> prior, incident |-> incident]
<1>1. auth \in [prior : Digests, incident : Incidents] \cup {None}
  BY DEF IInv, TypeOK
<1>2. prior \in Digests \cup {None} /\ incident \in Incidents \cup {None}
  BY <1>1
<1>3. order \in Permuted
  <2>1. CanonicalOrder \in Permuted
    BY DEF CanonicalOrder, Permuted, Orders, IsInjective
  <2> QED
    BY <2>1, ReplayPermutes
<1>4. /\ Write(r, rec)
      /\ authorizations' = [authorizations EXCEPT ![r] = None]
      /\ replaced' = IF auth = None THEN replaced ELSE replaced \cup {auth.prior}
  BY DEF Lock
<1>5. order = IF seed = None THEN CanonicalOrder ELSE Replay(seed)
  OBVIOUS
<1> HIDE DEF prior, incident, order
<1>6. rec \in Administration
  BY <1>2, <1>3, ItemsAssumption DEF Administration, Permuted, Orders, Statuses
<1>7. Sound(rec)
  <2>1. IsInjective(order)
    BY <1>3 DEF Permuted
  <2> QED
    BY <1>5, <2>1 DEF Sound, Integral
<1> HIDE DEF rec
<1>8. histories' \in [Requests -> Seq(Administration)] /\ SnapshotsSound'
  BY <1>4, <1>6, <1>7, SoundWrite
<1>9. authorizations' \in [Requests -> [prior : Digests, incident : Incidents] \cup {None}]
  BY <1>4 DEF IInv, TypeOK
<1>10. replaced' \subseteq Digests
  BY <1>1, <1>4 DEF IInv, TypeOK
<1> QED
  BY <1>8, <1>9, <1>10 DEF IInv, TypeOK

\* A snapshot that differs from a sound one in none of what Integral reads is
\* integral.
LEMMA StaysIntegral ==
  ASSUME NEW c, NEW rec, Integral(c),
         rec.seed = c.seed, rec.order = c.order, rec.responses = c.responses,
         rec.lastCompletedOrdinal = c.lastCompletedOrdinal
  PROVE  Integral(rec)
BY DEF Integral

LEMMA StartPresentationStep ==
  ASSUME IInv, NEW r \in Requests, StartPresentation(r)
  PROVE  IInv'
<1> DEFINE c == Current(r)
           rec == [c EXCEPT !.status = "presenting", !.started = TRUE]
<1>1. /\ Locked(r) /\ c.status = "locked" /\ Write(r, rec)
      /\ authorizations' = authorizations /\ replaced' = replaced
  BY DEF StartPresentation, In
<1>2. c \in Administration /\ Sound(c)
  BY <1>1, LatestSound
<1> HIDE DEF c
<1>3. rec \in Administration
  BY <1>2 DEF Administration, Statuses
<1>4. /\ rec.seed = c.seed /\ rec.order = c.order /\ rec.responses = c.responses
      /\ rec.lastCompletedOrdinal = c.lastCompletedOrdinal /\ rec.outcome = c.outcome
  BY <1>2 DEF Administration
<1> HIDE DEF rec
<1>5. Sound(rec)
  BY <1>1, <1>2, <1>4, StaysIntegral DEF Sound
<1>6. histories' \in [Requests -> Seq(Administration)] /\ SnapshotsSound'
  BY <1>1, <1>3, <1>5, SoundWrite
<1> QED
  BY <1>1, <1>6 DEF IInv, TypeOK

LEMMA RecordResponseStep ==
  ASSUME IInv, NEW r \in Requests, NEW item \in ItemIds, NEW answer \in BOOLEAN,
         RecordResponse(r, item, answer)
  PROVE  IInv'
<1> DEFINE c == Current(r)
           a == [item |-> item, response |-> answer]
           given == Append(c.responses, a)
           rec == [c EXCEPT !.responses = given,
                            !.lastCompletedOrdinal = Len(c.responses) + 1]
<1>1. /\ Locked(r) /\ c.status = "presenting" /\ IsNext(c, item) /\ Write(r, rec)
      /\ authorizations' = authorizations /\ replaced' = replaced
  BY DEF RecordResponse, In
<1>2. c \in Administration /\ Sound(c)
  BY <1>1, LatestSound
<1> HIDE DEF c
<1>3. c.responses \in Seq(Response) /\ a \in Response
  BY <1>2, FieldTypes DEF Response
<1>4. /\ Len(c.responses) \in Nat /\ Len(c.responses) < Items
      /\ c.order[Len(c.responses) + 1] = item
  BY <1>1, <1>3 DEF IsNext
<1>5. given \in Seq(Response) /\ Len(given) = Len(c.responses) + 1
  BY <1>3
<1>6. Len(c.responses) + 1 \in 0 .. Items
  BY <1>4, ItemsAssumption
<1>7. \A i \in DOMAIN given : given[i].item = c.order[i]
  <2>1. ASSUME NEW i \in DOMAIN given PROVE given[i].item = c.order[i]
    <3>1. CASE i = Len(c.responses) + 1
      BY <1>3, <1>4, <3>1
    <3>2. CASE i \in DOMAIN c.responses
      <4>1. given[i] = c.responses[i]
        BY <1>3, <3>2
      <4> QED
        BY <1>2, <3>2, <4>1 DEF Sound, Integral
    <3>3. i = Len(c.responses) + 1 \/ i \in DOMAIN c.responses
      BY <1>3
    <3> QED
      BY <3>1, <3>2, <3>3
  <2> QED
    BY <2>1
<1> HIDE DEF given
<1>8. rec \in Administration
  BY <1>2, <1>5, <1>6 DEF Administration, Response
<1>9. /\ rec.seed = c.seed /\ rec.order = c.order /\ rec.responses = given
      /\ rec.lastCompletedOrdinal = Len(given) /\ rec.outcome = c.outcome
  BY <1>2, <1>5 DEF Administration
<1> HIDE DEF rec
<1>10. Integral(rec)
  BY <1>2, <1>7, <1>9 DEF Sound, Integral
<1>11. Sound(rec)
  BY <1>1, <1>2, <1>9, <1>10 DEF Sound
<1>12. histories' \in [Requests -> Seq(Administration)] /\ SnapshotsSound'
  BY <1>1, <1>8, <1>11, SoundWrite
<1> QED
  BY <1>1, <1>12 DEF IInv, TypeOK

LEMMA CompleteStep ==
  ASSUME IInv, NEW r \in Requests, Complete(r)
  PROVE  IInv'
<1> DEFINE c == Current(r)
           outcome == IF AllTrue(c) THEN "eligible" ELSE "ineligible"
           rec == [c EXCEPT !.status = "completed", !.outcome = outcome]
<1>1. /\ Locked(r) /\ Len(c.responses) = Items /\ Write(r, rec)
      /\ authorizations' = authorizations /\ replaced' = replaced
  BY DEF Complete, In
<1>2. c \in Administration /\ Sound(c)
  BY <1>1, LatestSound
<1> HIDE DEF c
<1>3. rec \in Administration
  BY <1>2 DEF Administration, Statuses
<1>4. /\ rec.seed = c.seed /\ rec.order = c.order /\ rec.responses = c.responses
      /\ rec.lastCompletedOrdinal = c.lastCompletedOrdinal /\ rec.outcome = outcome
      /\ rec.status = "completed"
  BY <1>2 DEF Administration
<1> HIDE DEF rec
<1>5. AllTrue(rec) = AllTrue(c)
  BY <1>4 DEF AllTrue
<1>6. Sound(rec)
  BY <1>1, <1>2, <1>4, <1>5, StaysIntegral DEF Sound
<1>7. histories' \in [Requests -> Seq(Administration)] /\ SnapshotsSound'
  BY <1>1, <1>3, <1>6, SoundWrite
<1> QED
  BY <1>1, <1>7 DEF IInv, TypeOK

LEMMA AbortStep ==
  ASSUME IInv, NEW r \in Requests, NEW incident \in Incidents \cup {None}, Abort(r, incident)
  PROVE  IInv'
<1> DEFINE c == Current(r)
           status == IF incident = None THEN "aborted" ELSE "void_incident"
           rec == [c EXCEPT !.status = status, !.outcome = "uncertain", !.incident = incident]
<1>1. /\ Locked(r) /\ Write(r, rec)
      /\ authorizations' = authorizations /\ replaced' = replaced
  BY DEF Abort, In
<1>2. c \in Administration /\ Sound(c)
  BY <1>1, LatestSound
<1> HIDE DEF c
<1>3. rec \in Administration
  BY <1>2 DEF Administration, Statuses
<1>4. /\ rec.seed = c.seed /\ rec.order = c.order /\ rec.responses = c.responses
      /\ rec.lastCompletedOrdinal = c.lastCompletedOrdinal /\ rec.outcome = "uncertain"
  BY <1>2 DEF Administration
<1> HIDE DEF rec
<1>5. Sound(rec)
  BY <1>2, <1>4, StaysIntegral DEF Sound
<1>6. histories' \in [Requests -> Seq(Administration)] /\ SnapshotsSound'
  BY <1>1, <1>3, <1>5, SoundWrite
<1> QED
  BY <1>1, <1>6 DEF IInv, TypeOK

LEMMA ResumeStep ==
  ASSUME IInv, NEW r \in Requests, Resume(r)
  PROVE  IInv'
<1> DEFINE c == Current(r)
           rec == Resumed(c)
<1>1. /\ Locked(r) /\ Write(r, rec)
      /\ authorizations' = authorizations /\ replaced' = replaced
  BY DEF Resume
<1>2. c \in Administration /\ Sound(c)
  BY <1>1, LatestSound
<1> HIDE DEF c
<1>3. rec \in Administration
  BY <1>2 DEF Administration, Statuses, Resumed
<1>4. /\ rec.seed = c.seed /\ rec.order = c.order /\ rec.responses = c.responses
      /\ rec.lastCompletedOrdinal = c.lastCompletedOrdinal /\ rec.outcome = "pending"
  BY <1>2 DEF Administration, Resumed
<1> HIDE DEF rec
<1>5. Sound(rec)
  BY <1>2, <1>4, StaysIntegral DEF Sound
<1>6. histories' \in [Requests -> Seq(Administration)] /\ SnapshotsSound'
  BY <1>1, <1>3, <1>5, SoundWrite
<1> QED
  BY <1>1, <1>6 DEF IInv, TypeOK

LEMMA StepInvariant == IInv /\ [Next]_vars => IInv'
<1> SUFFICES ASSUME IInv, [Next]_vars PROVE IInv'
  OBVIOUS
<1>1. CASE UNCHANGED vars
  BY <1>1 DEF vars, IInv, TypeOK, SnapshotsSound
<1>2. CASE Next
  BY <1>2, AuthorizeReplacementStep, LockStep, StartPresentationStep, RecordResponseStep,
     CompleteStep, AbortStep, ResumeStep DEF Next
<1> QED
  BY <1>1, <1>2

\* At any time every snapshot the ledger holds is sound.
THEOREM Invariance == Spec => []IInv
BY InitInvariant, StepInvariant, PTL DEF Spec

\* Snapshots, waiting authorizations and what was replaced keep their shapes.
THEOREM TypeCorrect == Spec => []TypeOK
<1>1. IInv => TypeOK
  BY DEF IInv
<1> QED
  BY <1>1, Invariance, PTL

-----------------------------------------------------------------------------
(* What follows. *)

\* An injective order of the items leaves none out.
LEMMA EveryItemHasAPlace ==
  ASSUME NEW order \in Permuted, NEW item \in ItemIds
  PROVE  \E n \in ItemIds : order[n] = item
<1>1. IsFiniteSet(ItemIds)
  BY FS_Interval, ItemsAssumption DEF ItemIds
<1>2. order \in Injection(ItemIds, ItemIds)
  BY DEF Permuted, Orders, Injection
<1>3. order \in Surjection(ItemIds, ItemIds)
  BY <1>1, <1>2, FS_Injection
<1> QED
  BY <1>3 DEF Surjection

\* A recorded outcome is the one the evaluation derives, and whoever is
\* eligible said yes to every item, once.
THEOREM OutcomeSafe == Spec => []OutcomeIsEarned
<1>1. IInv => OutcomeIsEarned
  <2> SUFFICES ASSUME IInv, NEW r \in Requests, NEW i \in DOMAIN histories[r]
               PROVE  LET rec == histories[r][i] IN
                        /\ Integral(rec)
                        /\ rec.outcome \in {"eligible", "ineligible"}
                             => rec.outcome = CombinedEligibility(rec)
                        /\ rec.outcome = "eligible"
                             => /\ \A item \in ItemIds : \E n \in DOMAIN rec.responses :
                                     rec.responses[n] = [item |-> item, response |-> TRUE]
                                /\ Len(rec.responses) = Items
    BY DEF OutcomeIsEarned
  <2> DEFINE rec == histories[r][i]
  <2>1. rec \in Administration /\ Sound(rec)
    <3>1. histories[r] \in Seq(Administration)
      BY DEF IInv, TypeOK
    <3> QED
      BY <3>1 DEF IInv, SnapshotsSound
  <2> HIDE DEF rec
  <2>2. rec.outcome \in {"eligible", "ineligible"} => rec.outcome = CombinedEligibility(rec)
    BY <2>1 DEF Sound, CombinedEligibility
  <2>3. ASSUME rec.outcome = "eligible", NEW item \in ItemIds
        PROVE  \E n \in DOMAIN rec.responses :
                 rec.responses[n] = [item |-> item, response |-> TRUE]
    <3>1. /\ rec.responses \in Seq(Response) /\ rec.order \in Permuted
          /\ Len(rec.responses) = Items /\ AllTrue(rec)
      BY <2>1, <2>3, FieldTypes DEF Sound, Integral, Permuted
    <3>2. PICK n \in ItemIds : rec.order[n] = item
      BY <3>1, EveryItemHasAPlace
    <3>3. n \in DOMAIN rec.responses
      BY <3>1 DEF ItemIds
    <3>4. rec.responses[n].item = item /\ rec.responses[n].response
      BY <2>1, <3>1, <3>2, <3>3 DEF Sound, Integral, AllTrue
    <3>5. rec.responses[n] \in Response
      BY <3>1, <3>3
    <3>6. rec.responses[n] = [item |-> item, response |-> TRUE]
      BY <3>4, <3>5 DEF Response
    <3> QED
      BY <3>3, <3>6
  <2> QED
    BY <2>1, <2>2, <2>3 DEF rec, Sound
<1> QED
  BY <1>1, Invariance, PTL

\* No operation of any sequence adds to a history that an incident has ended.
THEOREM VoidSafe == Spec => VoidIsFinal
<1>1. ASSUME IInv, [Next]_vars, NEW r \in Requests, In(r, {"void_incident"})
      PROVE  histories'[r] = histories[r]
  <2>1. histories \in [Requests -> Seq(Administration)]
    BY <1>1 DEF IInv, TypeOK
  <2>2. Locked(r) /\ Current(r).status = "void_incident"
    BY <1>1 DEF In
  <2>3. ASSUME NEW q \in Requests, NEW rec, Write(q, rec), q # r
        PROVE  histories'[r] = histories[r]
    BY <2>1, <2>3 DEF Write
  <2>4. CASE UNCHANGED vars
    BY <2>4 DEF vars
  <2>5. CASE Next
    <3>1. PICK q \in Requests :
            \/ \E new \in Requests, i \in Incidents : AuthorizeReplacement(q, new, i)
            \/ \E seed \in Seeds \cup {None} : Lock(q, seed)
            \/ StartPresentation(q)
            \/ \E item \in ItemIds, answer \in BOOLEAN : RecordResponse(q, item, answer)
            \/ Complete(q)
            \/ \E i \in Incidents \cup {None} : Abort(q, i)
            \/ Resume(q)
      BY <2>5 DEF Next
    <3>2. CASE \E new \in Requests, i \in Incidents : AuthorizeReplacement(q, new, i)
      BY <3>2 DEF AuthorizeReplacement
    <3>3. CASE \E seed \in Seeds \cup {None} : Lock(q, seed)
      BY <2>2, <2>3, <3>3 DEF Lock
    <3>4. CASE StartPresentation(q)
      BY <2>2, <2>3, <3>4 DEF StartPresentation, In
    <3>5. CASE \E item \in ItemIds, answer \in BOOLEAN : RecordResponse(q, item, answer)
      BY <2>2, <2>3, <3>5 DEF RecordResponse, In
    <3>6. CASE Complete(q)
      BY <2>2, <2>3, <3>6 DEF Complete, In
    <3>7. CASE \E i \in Incidents \cup {None} : Abort(q, i)
      BY <2>2, <2>3, <3>7 DEF Abort, In
    <3>8. CASE Resume(q)
      BY <2>2, <2>3, <3>8 DEF Resume, Resumable
    <3> QED
      BY <3>1, <3>2, <3>3, <3>4, <3>5, <3>6, <3>7, <3>8
  <2> QED
    BY <1>1, <2>4, <2>5
<1>2. IInv /\ [Next]_vars
        => [\A r \in Requests : In(r, {"void_incident"}) => histories'[r] = histories[r]]_histories
  BY <1>1
<1> QED
  BY <1>2, Invariance, PTL DEF Spec, VoidIsFinal
=============================================================================
