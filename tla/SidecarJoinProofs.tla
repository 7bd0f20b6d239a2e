------------------------- MODULE SidecarJoinProofs -------------------------
(***************************************************************************)
(* What the join of two lines keeps (join_line), of every two lines, with  *)
(* every cap: the lemmas the theorems about Copies rest on.  The folds     *)
(* over a line are taken step by step, each with a statement of what it    *)
(* has done so far.                                                        *)
(***************************************************************************)
EXTENDS SidecarJoin, InductionFacts, SequenceTheorems

----------------------------------------------------------------------------
(* Entries picked by their places, and sorted by a key.                    *)

\* The entries of other are those of line at the places.
Picked(other, line, places) ==
  /\ \A k \in 1..Len(other) : \E i \in places : other[k] = line[i]
  /\ \A i \in places : \E k \in 1..Len(other) : other[k] = line[i]

\* A pair of the places, the earlier first.
InOrder(places) == {p \in places \X places : p[1] < p[2]}

\* The places before i.
Earlier(places, i) == {j \in places : j < i}

\* Of places that are numbers, the earlier go first: a place's rank counts the earlier ones, as Those
\* counts them (the entries of a line that a pass leaves, in their order).
LEMMA InOrderOrders ==
  ASSUME NEW places \in SUBSET Int
  PROVE  /\ Orders(InOrder(places), places)
         /\ \A i \in places : Rank(places, InOrder(places), i) = Cardinality(Earlier(places, i)) + 1
  <1>1. \A i, j \in places : <<j, i>> \in InOrder(places) <=> j < i
    BY DEF InOrder
  <1>2. \A i, j \in places : i = j \/ i < j \/ j < i
    OBVIOUS
  <1>3. Orders(InOrder(places), places)
    <2>1. \A i, j, k \in places : i < j /\ j < k => i < k
      OBVIOUS
    <2>2. \A i \in places : ~(i < i)
      OBVIOUS
    <2> QED BY <1>1, <1>2, <2>1, <2>2 DEF Orders
  <1>4. ASSUME NEW i \in places
        PROVE  Rank(places, InOrder(places), i) = Cardinality(Earlier(places, i)) + 1
    <2>1. {j \in places : <<j, i>> \in InOrder(places)} = {j \in places : j < i}
      BY <1>1
    <2> QED BY <2>1, Zenon DEF Rank, Earlier
  <1> QED BY <1>3, <1>4

\* The last entry of a sequence that has one (a line's current state).
LEMMA LastOfSeq ==
  ASSUME NEW S, NEW line \in Seq(S), line # <<>>
  PROVE  Len(line) \in Nat \ {0} /\ Last(line) = line[Len(line)] /\ Last(line) \in S
  BY EmptySeq, ElementOfSeq, LenProperties DEF Last

\* Those takes the entries at the places and no others, keeps their number, and leaves the last and
\* the one before it where they were (what is left of a join's list when the cap removes entries).
LEMMA ThoseFacts ==
  ASSUME NEW S, NEW line \in Seq(S), NEW places \in SUBSET (1..Len(line))
  PROVE  /\ Those(line, places) \in Seq(S)
         /\ IsFiniteSet(places)
         /\ Len(Those(line, places)) = Cardinality(places) /\ Cardinality(places) \in Nat
         /\ Picked(Those(line, places), line, places)
         /\ Len(line) \in places =>
              /\ Cardinality(places) > 0
              /\ Those(line, places)[Cardinality(places)] = line[Len(line)]
              /\ Len(line) - 1 \in places =>
                   /\ Cardinality(places) > 1
                   /\ Those(line, places)[Cardinality(places) - 1] = line[Len(line) - 1]
  <1> DEFINE Nth(k) == CHOOSE i \in places : Cardinality(Earlier(places, i)) = k - 1
             C == Cardinality(places)
             At(i) == Rank(places, InOrder(places), i)
  <1>1. Len(line) \in Nat /\ IsFiniteSet(places) /\ places \subseteq Int
    <2>1. Len(line) \in Nat
      BY LenProperties
    <2>2. IsFiniteSet(1..Len(line))
      BY <2>1, FS_Interval
    <2>3. IsFiniteSet(places)
      BY <2>2, FS_Subset
    <2> QED BY <2>1, <2>3
  <1>2. Those(line, places) = [k \in 1..C |-> line[Nth(k)]]
    BY DEF Those, Earlier
  <1>3. /\ C \in Nat
        /\ \A i \in places : At(i) \in 1..C
        /\ \A i, j \in places : At(i) = At(j) => i = j
        /\ \A k \in 1..C : \E i \in places : At(i) = k
    <2>1. Orders(InOrder(places), places)
      BY <1>1, InOrderOrders
    <2>2. C \in Nat /\ Places(places, InOrder(places), C)
      BY <1>1, <2>1, RankIsPlace
    <2> QED BY <2>2 DEF Places
  <1>4. \A i \in places : Cardinality(Earlier(places, i)) = At(i) - 1
    <2>1. ASSUME NEW i \in places PROVE Cardinality(Earlier(places, i)) = At(i) - 1
      <3>1. Earlier(places, i) \subseteq places
        BY DEF Earlier
      <3>2. Cardinality(Earlier(places, i)) \in Nat
        BY <1>1, <3>1, FS_Subset, FS_CardinalityType
      <3>3. At(i) = Cardinality(Earlier(places, i)) + 1
        BY <1>1, InOrderOrders
      <3> QED BY <3>2, <3>3
    <2> QED BY <2>1
  <1> HIDE DEF At
  <1>5. ASSUME NEW k \in 1..C PROVE Nth(k) \in places /\ At(Nth(k)) = k
    <2>1. PICK i \in places : Cardinality(Earlier(places, i)) = k - 1
      BY <1>3, <1>4
    <2>2. Nth(k) \in places /\ Cardinality(Earlier(places, Nth(k))) = k - 1
      BY <2>1
    <2> HIDE DEF Nth
    <2>3. At(Nth(k)) - 1 = k - 1 /\ At(Nth(k)) \in 1..C
      BY <2>2, <1>3, <1>4
    <2> QED BY <2>2, <2>3, <1>3
  <1> HIDE DEF Nth
  <1>6. ASSUME NEW i \in places PROVE Nth(At(i)) = i
    BY <1>3, <1>5
  <1>7. Those(line, places) \in Seq(S) /\ Len(Those(line, places)) = C
    <2>1. \A k \in 1..C : line[Nth(k)] \in S
      BY <1>5, ElementOfSeq
    <2> QED BY <1>2, <1>3, <2>1
  <1>8. Picked(Those(line, places), line, places)
    <2>1. ASSUME NEW k \in 1..C PROVE \E i \in places : Those(line, places)[k] = line[i]
      BY <1>2, <1>5
    <2>2. ASSUME NEW i \in places PROVE \E k \in 1..C : Those(line, places)[k] = line[i]
      BY <1>2, <1>3, <1>6
    <2> QED BY <2>1, <2>2, <1>7 DEF Picked
  <1>9. ASSUME Len(line) \in places
        PROVE  C > 0 /\ At(Len(line)) = C /\ (Len(line) - 1 \in places => C > 1 /\ At(Len(line) - 1) = C - 1)
    <2>1. \A i, j \in places : j < i => At(j) < At(i)
      <3>1. \A i, j \in places : j < i => <<j, i>> \in InOrder(places)
        BY DEF InOrder
      <3> QED BY <3>1, <1>1, InOrderOrders, RankOrder DEF At
    <2>2. At(Len(line)) = C
      <3>1. PICK i \in places : At(i) = C
        BY <1>3, <1>9
      <3>2. i = Len(line)
        <4>1. i <= Len(line)
          BY <1>1
        <4>2. ~(i < Len(line))
          BY <1>3, <1>9, <2>1, <3>1
        <4> QED BY <4>1, <4>2, <1>1
      <3> QED BY <3>1, <3>2
    <2>3. ASSUME Len(line) - 1 \in places PROVE C > 1 /\ At(Len(line) - 1) = C - 1
      <3>1. At(Len(line) - 1) < C /\ At(Len(line) - 1) \in 1..C
        BY <1>1, <1>3, <1>9, <2>1, <2>2, <2>3
      <3>0. C \in Nat /\ C > 1 /\ C - 1 \in 1..C
        BY <1>3, <3>1
      <3>2. PICK i \in places : At(i) = C - 1
        BY <1>3, <3>0
      <3>3. i = Len(line) - 1
        <4>1. i <= Len(line) /\ i # Len(line)
          BY <1>1, <1>3, <2>2, <3>2
        <4>2. ~(i < Len(line) - 1)
          BY <1>3, <2>1, <2>3, <3>1, <3>2
        <4> QED BY <4>1, <4>2, <1>1
      <3> QED BY <3>0, <3>2, <3>3
    <2> QED BY <1>3, <1>9, <2>2, <2>3
  <1>10. ASSUME NEW i \in places PROVE Those(line, places)[At(i)] = line[i]
    BY <1>2, <1>3, <1>6
  <1> QED BY <1>1, <1>3, <1>7, <1>8, <1>9, <1>10

\* A pair of the places of a line, the one that goes first by the keys first.
InKeyOrder(places, key) ==
  {p \in places \X places : key[p[1]] < key[p[2]] \/ (key[p[1]] = key[p[2]] /\ p[1] < p[2])}

\* The places that go before i by the keys.
Sooner(places, key, i) == {j \in places : key[j] < key[i] \/ (key[j] = key[i] /\ j < i)}

\* The order by keys, and by places among equal keys, is an order, in which a place's rank counts the
\* places ByKey counts (the stable sorts of join: saves by time, states by the one they led to).
LEMMA InKeyOrderOrders ==
  ASSUME NEW places \in SUBSET Int, NEW key, \A i \in places : key[i] \in Int
  PROVE  /\ Orders(InKeyOrder(places, key), places)
         /\ \A i \in places : Rank(places, InKeyOrder(places, key), i) = Cardinality(Sooner(places, key, i)) + 1
  <1>1. \A i, j \in places :
          <<j, i>> \in InKeyOrder(places, key) <=> key[j] < key[i] \/ (key[j] = key[i] /\ j < i)
    BY DEF InKeyOrder
  <1>2. Orders(InKeyOrder(places, key), places)
    <2>1. ASSUME NEW i \in places, NEW j \in places, NEW k \in places,
                 <<i, j>> \in InKeyOrder(places, key), <<j, k>> \in InKeyOrder(places, key)
          PROVE  <<i, k>> \in InKeyOrder(places, key)
      BY <1>1, <2>1
    <2>2. ASSUME NEW i \in places PROVE <<i, i>> \notin InKeyOrder(places, key)
      BY <1>1
    <2>3. ASSUME NEW i \in places, NEW j \in places
          PROVE  i = j \/ <<i, j>> \in InKeyOrder(places, key) \/ <<j, i>> \in InKeyOrder(places, key)
      BY <1>1
    <2> QED BY <2>1, <2>2, <2>3 DEF Orders
  <1>3. ASSUME NEW i \in places
        PROVE  Rank(places, InKeyOrder(places, key), i) = Cardinality(Sooner(places, key, i)) + 1
    <2>1. {j \in places : <<j, i>> \in InKeyOrder(places, key)} = Sooner(places, key, i)
      BY <1>1 DEF Sooner
    <2> QED BY <2>1, Zenon DEF Rank
  <1> QED BY <1>2, <1>3

\* A sort by keys keeps each entry and their number, and the last where no key is above its key.
LEMMA ByKeyFacts ==
  ASSUME NEW S, NEW line \in Seq(S), NEW key, \A i \in 1..Len(line) : key[i] \in Int
  PROVE  /\ ByKey(line, key) \in Seq(S)
         /\ Len(ByKey(line, key)) = Len(line)
         /\ Picked(ByKey(line, key), line, 1..Len(line))
         /\ line # <<>> /\ (\A i \in 1..Len(line) : key[i] <= key[Len(line)]) =>
              ByKey(line, key)[Len(line)] = line[Len(line)]
  <1> DEFINE places == DOMAIN line
             Nth(k) == CHOOSE i \in places : Cardinality(Sooner(places, key, i)) = k - 1
             C == Len(line)
             R == InKeyOrder(places, key)
             At(i) == Rank(places, R, i)
  <1>1. C \in Nat /\ places = 1..C /\ IsFiniteSet(places) /\ Cardinality(places) = C
    <2>1. C \in Nat /\ DOMAIN line = 1..C
      BY LenProperties
    <2>2. IsFiniteSet(1..C) /\ Cardinality(1..C) = C
      BY <2>1, FS_Interval
    <2> QED BY <2>1, <2>2
  <1>2. ByKey(line, key) = [k \in places |-> line[Nth(k)]]
    BY DEF ByKey, Sooner
  <1> HIDE DEF places
  <1>a. Orders(R, places) /\ \A i \in places : At(i) = Cardinality(Sooner(places, key, i)) + 1
    BY <1>1, InKeyOrderOrders
  <1>3. /\ \A i \in places : At(i) \in places
        /\ \A i, j \in places : At(i) = At(j) => i = j
        /\ \A k \in places : \E i \in places : At(i) = k
    <2>1. Places(places, R, C)
      BY <1>1, <1>a, RankIsPlace
    <2> QED BY <2>1, <1>1 DEF Places
  <1>4. \A i \in places : Cardinality(Sooner(places, key, i)) = At(i) - 1
    <2>1. ASSUME NEW i \in places PROVE Cardinality(Sooner(places, key, i)) = At(i) - 1
      <3>1. Sooner(places, key, i) \subseteq places
        BY DEF Sooner
      <3>2. Cardinality(Sooner(places, key, i)) \in Nat
        BY <1>1, <3>1, FS_Subset, FS_CardinalityType
      <3>3. At(i) = Cardinality(Sooner(places, key, i)) + 1
        BY <1>a
      <3> QED BY <3>2, <3>3
    <2> QED BY <2>1
  <1> HIDE DEF At
  <1>5. ASSUME NEW k \in places PROVE Nth(k) \in places /\ At(Nth(k)) = k
    <2>1. PICK i \in places : Cardinality(Sooner(places, key, i)) = k - 1
      BY <1>3, <1>4
    <2>2. Nth(k) \in places /\ Cardinality(Sooner(places, key, Nth(k))) = k - 1
      BY <2>1
    <2> HIDE DEF Nth
    <2>3. At(Nth(k)) - 1 = k - 1 /\ At(Nth(k)) \in 1..C
      BY <2>2, <1>1, <1>3, <1>4
    <2> QED BY <2>2, <2>3, <1>1
  <1> HIDE DEF Nth
  <1>6. ASSUME NEW i \in places PROVE Nth(At(i)) = i
    BY <1>3, <1>5
  <1>7. ByKey(line, key) \in Seq(S) /\ Len(ByKey(line, key)) = C
    <2>1. \A k \in 1..C : line[Nth(k)] \in S
      BY <1>1, <1>5, ElementOfSeq
    <2> QED BY <1>1, <1>2, <2>1
  <1>8. Picked(ByKey(line, key), line, 1..Len(line))
    <2>1. ASSUME NEW k \in 1..C PROVE \E i \in 1..C : ByKey(line, key)[k] = line[i]
      BY <1>1, <1>2, <1>5
    <2>2. ASSUME NEW i \in 1..C PROVE \E k \in 1..C : ByKey(line, key)[k] = line[i]
      BY <1>1, <1>2, <1>3, <1>6
    <2> QED BY <2>1, <2>2, <1>7 DEF Picked
  <1>9. ASSUME line # <<>>, \A i \in 1..Len(line) : key[i] <= key[Len(line)]
        PROVE  ByKey(line, key)[Len(line)] = line[Len(line)]
    <2>0. C \in places
      BY <1>1, <1>9, EmptySeq
    <2>1. PICK i \in places : At(i) = C
      BY <1>3, <2>0
    <2>2. i = C
      <3>1. SUFFICES ASSUME i # C PROVE FALSE
        OBVIOUS
      <3>2. <<i, C>> \in R
        BY <1>1, <1>9, <2>0, <3>1 DEF InKeyOrder
      <3>3. At(i) < At(C)
        BY <1>1, <1>a, <2>0, <3>2, RankOrder DEF At
      <3>4. At(C) \in 1..C
        BY <1>1, <1>3, <2>0
      <3> QED BY <2>1, <3>3, <3>4, <1>1
    <2> QED BY <1>2, <1>6, <2>0, <2>1, <2>2
  <1> QED BY <1>7, <1>8, <1>9

----------------------------------------------------------------------------
(* The caps' first pass.                                                   *)

\* What the pass has when it has come to the state i.
Passed(S, line, excess, kept, p, i) ==
  /\ p \in [stay : Seq(S), excess : Int]
  /\ Len(p.stay) = i - (excess - p.excess)
  /\ p.excess <= excess /\ (excess >= 0 => p.excess >= 0)
  /\ \A j \in 1..Len(p.stay) : \E l \in 1..i : p.stay[j] = line[l]
  /\ excess <= 0 => p.excess = excess /\ \A j \in 1..Len(p.stay) : p.stay[j] = line[j]
  /\ i >= 1 => Len(p.stay) >= 1 /\ p.stay[1] = line[1]
  /\ i >= 1 /\ (i = Len(line) \/ line[i].id = kept) => p.stay[Len(p.stay)] = line[i]
  /\ i = Len(line) /\ i >= 2 /\ line[i - 1].id = kept =>
       Len(p.stay) >= 2 /\ p.stay[Len(p.stay) - 1] = line[i - 1]

\* What repeat_at takes is neither the first nor the last of the line.
LEMMA RepeatIsInside ==
  ASSUME NEW S, NEW line \in Seq(S), NEW stay \in Seq(S), NEW i \in 1..Len(line),
         RepeatAt(stay \o SubSeq(line, i, Len(line)), Len(stay) + 1)
  PROVE  Len(stay) >= 1 /\ i < Len(line)
  <1>1. Len(line) \in Nat /\ Len(stay) \in Nat
    BY LenProperties
  <1>2. \A j \in i..Len(line) : line[j] \in S
    BY <1>1, ElementOfSeq
  <1>3. SubSeq(line, i, Len(line)) \in Seq(S) /\ Len(SubSeq(line, i, Len(line))) = Len(line) - i + 1
    BY <1>1, <1>2, SubSeqProperties
  <1>4. Len(stay \o SubSeq(line, i, Len(line))) = Len(stay) + (Len(line) - i + 1)
    BY <1>3, ConcatProperties
  <1>5. 1 < Len(stay) + 1 /\ Len(stay) + 1 < Len(stay \o SubSeq(line, i, Len(line)))
    BY DEF RepeatAt
  <1> QED BY <1>1, <1>4, <1>5

\* The caps' first pass at one state: what Passed says of it stays so.
LEMMA PassByPasses ==
  ASSUME NEW S, NEW line \in Seq(S), NEW excess \in Int, NEW kept, NEW p,
         NEW i \in 1..Len(line), Passed(S, line, excess, kept, p, i - 1)
  PROVE  Passed(S, line, excess, kept, PassBy(line, kept, p, i), i)
  <1> DEFINE q == PassBy(line, kept, p, i)
             Drops == /\ p.excess > 0 /\ line[i].id # kept
                      /\ RepeatAt(p.stay \o SubSeq(line, i, Len(line)), Len(p.stay) + 1)
  <1>1. Len(line) \in Nat /\ line[i] \in S /\ i - 1 \in Nat
    BY LenProperties, ElementOfSeq
  <1>2. /\ p \in [stay : Seq(S), excess : Int]
        /\ p.stay \in Seq(S) /\ p.excess \in Int /\ Len(p.stay) \in Nat
    BY LenProperties DEF Passed
  <1> SUFFICES Passed(S, line, excess, kept, q, i)
    OBVIOUS
  <1>3. CASE Drops
    <2>1. q = [p EXCEPT !.excess = @ - 1]
      BY <1>3 DEF PassBy
    <2>2. q \in [stay : Seq(S), excess : Int] /\ q.stay = p.stay /\ q.excess = p.excess - 1
      BY <2>1, <1>2
    <2> HIDE DEF q
    <2>3. Len(p.stay) >= 1 /\ i < Len(line)
      BY <1>2, <1>3, RepeatIsInside
    <2>4. i - 1 >= 1
      BY <1>2, <2>3 DEF Passed
    <2>5. \A j \in 1..Len(p.stay) : \E l \in 1..i : p.stay[j] = line[l]
      <3>1. \A j \in 1..Len(p.stay) : \E l \in 1..(i - 1) : p.stay[j] = line[l]
        BY DEF Passed
      <3>2. 1..(i - 1) \subseteq 1..i
        BY <1>1
      <3> QED BY <3>1, <3>2
    <2>6. Len(p.stay) = i - (excess - q.excess) /\ q.excess <= excess /\ q.excess >= 0 /\ excess > 0
      <3>1. Len(p.stay) = (i - 1) - (excess - p.excess) /\ p.excess <= excess
        BY DEF Passed
      <3>2. p.excess > 0 /\ q.excess = p.excess - 1
        BY <1>3, <2>2
      <3> QED BY <1>1, <1>2, <3>1, <3>2
    <2>7. p.stay[1] = line[1]
      BY <2>4, <1>1 DEF Passed
    <2>8. i # Len(line) /\ line[i].id # kept
      BY <1>1, <1>3, <2>3
    <2>9. excess <= 0 => q.excess = excess /\ \A j \in 1..Len(q.stay) : q.stay[j] = line[j]
      BY <2>6
    <2>10. i >= 1 => Len(q.stay) >= 1 /\ q.stay[1] = line[1]
      BY <2>2, <2>3, <2>7
    <2>11. i >= 1 /\ (i = Len(line) \/ line[i].id = kept) => q.stay[Len(q.stay)] = line[i]
      BY <2>8
    <2>12. i = Len(line) /\ i >= 2 /\ line[i - 1].id = kept =>
             Len(q.stay) >= 2 /\ q.stay[Len(q.stay) - 1] = line[i - 1]
      BY <2>8
    <2> QED BY ONLY <2>2, <2>5, <2>6, <2>9, <2>10, <2>11, <2>12 DEF Passed
  <1>4. CASE ~Drops
    <2>1. q = [p EXCEPT !.stay = Append(@, line[i])]
      BY <1>4 DEF PassBy
    <2> DEFINE L == Len(p.stay)
    <2>2. /\ q.stay \in Seq(S) /\ Len(q.stay) = L + 1
          /\ \A j \in 1..L : q.stay[j] = p.stay[j]
          /\ q.stay[L + 1] = line[i]
      <3>1. q.stay = Append(p.stay, line[i])
        BY <2>1 DEF Passed
      <3> HIDE DEF q
      <3> QED BY <3>1, <1>1, <1>2, AppendProperties
    <2>3. q \in [stay : Seq(S), excess : Int] /\ q.excess = p.excess
      BY <2>1, <2>2, <1>2
    <2> HIDE DEF q
    <2>4. ASSUME NEW j \in 1..(L + 1) PROVE \E l \in 1..i : q.stay[j] = line[l]
      <3>1. CASE j = L + 1
        BY <2>2, <3>1
      <3>2. CASE j # L + 1
        <4>1. j \in 1..L
          BY <1>2, <3>2
        <4>2. PICK l \in 1..(i - 1) : p.stay[j] = line[l]
          BY <4>1 DEF Passed
        <4>3. l \in 1..i
          BY <1>1
        <4> QED BY <2>2, <4>1, <4>2, <4>3
      <3> QED BY <3>1, <3>2
    <2>5. L + 1 = i - (excess - q.excess) /\ q.excess <= excess /\ (excess >= 0 => q.excess >= 0)
                /\ (excess <= 0 => q.excess = excess)
      BY <1>1, <1>2, <2>3 DEF Passed
    <2>6. ASSUME excess <= 0, NEW j \in 1..(L + 1) PROVE q.stay[j] = line[j]
      <3>1. L = i - 1
        <4>1. L = (i - 1) - (excess - p.excess) /\ p.excess <= excess
          BY DEF Passed
        <4>2. L <= i - 1 /\ (i - 1 >= 1 => L >= 1)
          BY <4>1, <1>1, <1>2 DEF Passed
        <4>3. p.excess = excess
          BY <2>6 DEF Passed
        <4> QED BY <4>1, <4>3, <1>1
      <3>2. CASE j = L + 1
        BY <2>2, <3>1, <3>2, <1>1
      <3>3. CASE j # L + 1
        <4>1. j \in 1..L
          BY <1>2, <3>3
        <4>2. p.stay[j] = line[j]
          BY <2>6, <4>1 DEF Passed
        <4> QED BY <2>2, <4>1, <4>2
      <3> QED BY <3>2, <3>3
    <2>7. q.stay[1] = line[1]
      <3>1. CASE L >= 1
        <4>1. i - 1 >= 1
          <5>1. \E l \in 1..(i - 1) : p.stay[1] = line[l]
            BY <3>1, <1>2 DEF Passed
          <5> QED BY <5>1, <1>1
        <4>2. p.stay[1] = line[1]
          BY <4>1 DEF Passed
        <4> QED BY <2>2, <3>1, <4>2, <1>2
      <3>2. CASE L = 0
        <4>1. ~(i - 1 >= 1)
          BY <3>2 DEF Passed
        <4> QED BY <2>2, <3>2, <4>1, <1>1
      <3> QED BY <3>1, <3>2, <1>2
    <2>8. ASSUME i >= 2, line[i - 1].id = kept PROVE L + 1 >= 2 /\ q.stay[L] = line[i - 1]
      <3>1. i - 1 >= 1 /\ L >= 1
        BY <2>8, <1>1 DEF Passed
      <3>2. p.stay[L] = line[i - 1]
        BY <2>8, <3>1 DEF Passed
      <3> QED BY <1>2, <2>2, <3>1, <3>2
    <2>9. excess <= 0 => q.excess = excess /\ \A j \in 1..Len(q.stay) : q.stay[j] = line[j]
      BY <2>2, <2>5, <2>6
    <2>10. i >= 1 => Len(q.stay) >= 1 /\ q.stay[1] = line[1]
      BY <1>2, <2>2, <2>7
    <2>11. i >= 1 /\ (i = Len(line) \/ line[i].id = kept) => q.stay[Len(q.stay)] = line[i]
      BY <2>2
    <2>12. i = Len(line) /\ i >= 2 /\ line[i - 1].id = kept =>
             Len(q.stay) >= 2 /\ q.stay[Len(q.stay) - 1] = line[i - 1]
      <3>1. Len(q.stay) - 1 = L
        BY <1>2, <2>2
      <3> QED BY <2>2, <2>8, <3>1
    <2>13. \A j \in 1..Len(q.stay) : \E l \in 1..i : q.stay[j] = line[l]
      BY <2>2, <2>4
    <2> QED BY ONLY <2>2, <2>3, <2>5, <2>9, <2>10, <2>11, <2>12, <2>13 DEF Passed
  <1> QED BY <1>3, <1>4

\* The pass f, state by state, from nothing to what the pass leaves.
PassRun(line, excess, kept, f) ==
  /\ f[0] = [stay |-> <<>>, excess |-> excess]
  /\ \A i \in 1..Len(line) : f[i] = PassBy(line, kept, f[i - 1], i)
  /\ f[Len(line)].stay = DropRepeats(line, excess, kept)

\* The caps' first pass comes to the end of the line with what Passed says, by induction on the line.
LEMMA DropRepeatsRuns ==
  ASSUME NEW S, NEW line \in Seq(S), NEW excess \in Int, NEW kept
  PROVE  \E f : PassRun(line, excess, kept, f) /\ \A i \in 0..Len(line) : Passed(S, line, excess, kept, f[i], i)
  <1> DEFINE N == Len(line)
             X == [stay : Seq(S), excess : Int]
             First == [stay |-> <<>>, excess |-> excess]
             P(g) == g = [i \in 0..N |-> IF i = 0 THEN First ELSE PassBy(line, kept, g[i - 1], i)]
             f == CHOOSE g : P(g)
             step == [a \in X \X (1..N) |-> PassBy(line, kept, a[1], a[2])]
  <1>1. DropRepeats(line, excess, kept) = f[N].stay
    BY DEF DropRepeats
  <1>2. N \in Nat /\ First \in X
    BY LenProperties, EmptySeq
  <1>3. step \in [X \X (1..N) -> X]
    <2>1. ASSUME NEW x \in X, NEW i \in 1..N PROVE PassBy(line, kept, x, i) \in X
      <3>1. Append(x.stay, line[i]) \in Seq(S)
        BY ElementOfSeq, AppendProperties
      <3> DEFINE a == [x EXCEPT !.excess = @ - 1]
                 b == [x EXCEPT !.stay = Append(@, line[i])]
      <3>2. a \in X
        <4>1. x.excess - 1 \in Int
          OBVIOUS
        <4> QED BY <4>1
      <3>3. b \in X
        BY <3>1
      <3> HIDE DEF X
      <3> QED BY <3>2, <3>3, Zenon DEF PassBy
    <2> QED BY <2>1
  <1>4. \E g : P(g)
    <2>1. PICK h : h \in Recursion(N, X, First, step)
      <3> HIDE DEF step, X, First, N
      <3> QED BY <1>2, <1>3, RecursionExists
    <2>r. h \in [0..N -> X] /\ \A i \in 0..N : h[i] = IF i = 0 THEN First ELSE step[<<h[i - 1], i>>]
      <3> HIDE DEF step, X, First, N
      <3> QED BY <2>1 DEF Recursion
    <2>2. ASSUME NEW i \in 1..N PROVE step[<<h[i - 1], i>>] = PassBy(line, kept, h[i - 1], i)
      <3>1. i - 1 \in 0..N
        BY <1>2
      <3>2. h[i - 1] \in X
        <4> HIDE DEF step, X, First
        <4> QED BY <3>1, <2>r
      <3> HIDE DEF X
      <3> QED BY <3>2
    <2>3. P(h)
      <3> HIDE DEF step, X, First
      <3> QED BY <2>r, <2>2, <1>2
    <2> QED BY <2>3
  <1>5. f = [i \in 0..N |-> IF i = 0 THEN First ELSE PassBy(line, kept, f[i - 1], i)]
    BY <1>4
  <1> HIDE DEF f
  <1> DEFINE T == {i \in 0..N : Passed(S, line, excess, kept, f[i], i)}
  <1>6. 0 \in T
    <2>1. f[0] = First
      BY <1>2, <1>5
    <2>2. Len(First.stay) = 0 /\ First.stay \in Seq(S) /\ First \in X
      BY <1>2, EmptySeq
    <2>3. Passed(S, line, excess, kept, First, 0)
      <3>1. First.excess = excess /\ 1..Len(First.stay) = {}
        BY <2>2
      <3>2. First \in X
        BY <2>2
      <3> HIDE DEF First
      <3> QED BY <2>2, <3>1, <3>2 DEF Passed
    <2> QED BY <1>2, <2>1, <2>3
  <1>7. ASSUME NEW i \in 0..(N - 1), i \in T PROVE i + 1 \in T
    <2>1. i + 1 \in 1..N /\ (i + 1) - 1 = i
      BY <1>2
    <2>2. f[i + 1] = PassBy(line, kept, f[i], i + 1)
      BY <1>5, <2>1
    <2>3. Passed(S, line, excess, kept, f[i + 1], i + 1)
      <3> DEFINE j == i + 1
      <3>1. Passed(S, line, excess, kept, f[i], j - 1) /\ j \in 1..Len(line)
        BY <1>7, <2>1
      <3> HIDE DEF j
      <3>2. Passed(S, line, excess, kept, PassBy(line, kept, f[i], j), j)
        BY <3>1, PassByPasses
      <3> QED BY <2>2, <3>2 DEF j
    <2> QED BY <2>1, <2>3
  <1>8. T = 0..N
    <2> HIDE DEF T, N
    <2>1. T \in SUBSET (0..N)
      BY DEF T
    <2> QED BY <1>2, <1>6, <1>7, <2>1, IntervalInduction
  <1>9. PassRun(line, excess, kept, f)
    <2>1. 0 \in 0..N /\ \A i \in 1..N : i \in 0..N /\ i # 0
      BY <1>2
    <2>2. f[0] = First /\ \A i \in 1..N : f[i] = PassBy(line, kept, f[i - 1], i)
      <3> HIDE DEF First, N
      <3> QED BY <1>5, <2>1
    <2> QED BY <1>1, <2>2 DEF PassRun
  <1> HIDE DEF f
  <1> QED BY <1>8, <1>9

\* What it has there.
LEMMA DropRepeatsPasses ==
  ASSUME NEW S, NEW line \in Seq(S), NEW excess \in Int, NEW kept
  PROVE  \E p : p.stay = DropRepeats(line, excess, kept) /\ Passed(S, line, excess, kept, p, Len(line))
  <1>1. PICK f : PassRun(line, excess, kept, f) /\ \A i \in 0..Len(line) : Passed(S, line, excess, kept, f[i], i)
    BY DropRepeatsRuns
  <1>2. Len(line) \in 0..Len(line)
    BY LenProperties
  <1>3. f[Len(line)].stay = DropRepeats(line, excess, kept) /\ Passed(S, line, excess, kept, f[Len(line)], Len(line))
    BY <1>1, <1>2 DEF PassRun
  <1> QED BY <1>3

\* What a pass leaves of a line: entries of it, the first and the last among them, and the one
\* before the last if that is the one it keeps.
Left(S, line, left, kept) ==
  /\ left \in Seq(S)
  /\ Len(left) <= Len(line)
  /\ \A j \in 1..Len(left) : \E l \in 1..Len(line) : left[j] = line[l]
  /\ line # <<>> => left # <<>> /\ left[Len(left)] = line[Len(line)]
  /\ Len(line) >= 2 /\ line[Len(line) - 1].id = kept =>
       Len(left) >= 2 /\ left[Len(left) - 1] = line[Len(line) - 1]

\* What the caps' first pass does: the first, the last and the state kept before it stay, no more than
\* excess go, and none if there is no excess (cap_history's and join_line's repeats).
LEMMA DropRepeatsFacts ==
  ASSUME NEW S, NEW line \in Seq(S), NEW excess \in Int, NEW kept
  PROVE  /\ Left(S, line, DropRepeats(line, excess, kept), kept)
         /\ line # <<>> => DropRepeats(line, excess, kept)[1] = line[1]
         /\ excess >= 0 => Len(DropRepeats(line, excess, kept)) >= Len(line) - excess
         /\ excess <= 0 => DropRepeats(line, excess, kept) = line
  <1> DEFINE d == DropRepeats(line, excess, kept)
  <1>1. PICK p : p.stay = d /\ Passed(S, line, excess, kept, p, Len(line))
    BY DropRepeatsPasses
  <1> HIDE DEF d
  <1>2. Len(line) \in Nat /\ (line # <<>> => Len(line) >= 1)
    BY LenProperties, EmptySeq
  <1>3. d \in Seq(S) /\ p.excess \in Int /\ Len(d) \in Nat
    BY <1>1, LenProperties DEF Passed
  <1>4. Len(d) = Len(line) - (excess - p.excess) /\ p.excess <= excess /\ (excess >= 0 => p.excess >= 0)
    BY <1>1 DEF Passed
  <1>5. Len(d) <= Len(line) /\ (excess >= 0 => Len(d) >= Len(line) - excess)
    BY <1>2, <1>3, <1>4
  <1>6. ASSUME excess <= 0 PROVE d = line
    <2>1. p.excess = excess /\ \A j \in 1..Len(d) : d[j] = line[j]
      BY <1>1, <1>6 DEF Passed
    <2>2. Len(d) = Len(line)
      BY <1>2, <1>3, <1>4, <2>1
    <2> QED BY <1>3, <2>1, <2>2, SeqEqual
  <1>7. ASSUME line # <<>> PROVE d # <<>> /\ d[1] = line[1] /\ d[Len(d)] = line[Len(line)]
    <2>1. Len(d) >= 1 /\ d[1] = line[1] /\ d[Len(d)] = line[Len(line)]
      BY <1>1, <1>2, <1>7 DEF Passed
    <2> QED BY <2>1, EmptySeq
  <1>8. ASSUME Len(line) >= 2, line[Len(line) - 1].id = kept
        PROVE  Len(d) >= 2 /\ d[Len(d) - 1] = line[Len(line) - 1]
    BY <1>1, <1>8 DEF Passed
  <1>9. \A j \in 1..Len(d) : \E l \in 1..Len(line) : d[j] = line[l]
    BY <1>1 DEF Passed
  <1>10. Left(S, line, d, kept)
    BY <1>3, <1>5, <1>7, <1>8, <1>9 DEF Left
  <1> QED BY <1>5, <1>6, <1>7, <1>10 DEF d

----------------------------------------------------------------------------
(* States, and what records one.                                           *)

\* The states of those edits and labels: an id is of the edit and the label it ends in.
StatesOf(E, L) ==
  {s \in [edit : E, label : L, id : Seq(E \X L)] : s.id # <<>> /\ Last(s.id) = <<s.edit, s.label>>}

\* A line has a state at least.
Lines(S) == {line \in Seq(S) : line # <<>>}

\* The entries of a line, its first, its last, and the last one's edit.
LEMMA LineFacts ==
  ASSUME NEW S, NEW line \in Lines(S)
  PROVE  /\ line \in Seq(S) /\ line # <<>>
         /\ Len(line) \in Nat \ {0} /\ DOMAIN line = 1..Len(line)
         /\ \A i \in 1..Len(line) : line[i] \in S
         /\ Last(line) = line[Len(line)] /\ Last(line) \in S /\ line[1] \in S
         /\ LastEdit(line) \in Edits(line)
  <1>1. line \in Seq(S) /\ line # <<>>
    BY DEF Lines
  <1>2. Len(line) \in Nat \ {0} /\ DOMAIN line = 1..Len(line)
    BY <1>1, EmptySeq, LenProperties
  <1>3. \A i \in 1..Len(line) : line[i] \in S
    BY <1>1, ElementOfSeq
  <1>4. Last(line) = line[Len(line)] /\ Last(line) \in S
    BY <1>1, LastOfSeq
  <1>5. 1 \in 1..Len(line) /\ Len(line) \in 1..Len(line)
    BY <1>2
  <1>6. LastEdit(line) \in Edits(line)
    BY <1>2, <1>4, <1>5 DEF LastEdit, Edits
  <1> QED BY <1>1, <1>2, <1>3, <1>4, <1>5, <1>6

\* States of one id have one edit and one label: the id is a hash of both (state_id).
LEMMA IdTells ==
  ASSUME NEW E, NEW L, NEW s \in StatesOf(E, L), NEW t \in StatesOf(E, L), s.id = t.id
  PROVE  s.edit = t.edit /\ s.label = t.label
  <1>1. <<s.edit, s.label>> = <<t.edit, t.label>>
    BY DEF StatesOf
  <1> QED BY <1>1

\* A state made of a parent's id, an edit and a label has them.
LEMMA StateFacts ==
  ASSUME NEW E, NEW L, NEW parent \in Seq(E \X L), NEW edit \in E, NEW label \in L
  PROVE  /\ State(parent, edit, label) \in StatesOf(E, L)
         /\ State(parent, edit, label).edit = edit
         /\ State(parent, edit, label).label = label
  <1> DEFINE s == State(parent, edit, label)
             id == Append(parent, <<edit, label>>)
  <1>1. s = [edit |-> edit, label |-> label, id |-> id]
    BY DEF State, StateId
  <1>2. id \in Seq(E \X L) /\ id # <<>> /\ Len(id) = Len(parent) + 1 /\ id[Len(parent) + 1] = <<edit, label>>
    BY AppendProperties
  <1> HIDE DEF id, s
  <1>3. Last(id) = <<edit, label>>
    BY <1>2, LastOfSeq
  <1> QED BY <1>1, <1>2, <1>3 DEF StatesOf, s

\* The parts of a state.
LEMMA IdOfState ==
  ASSUME NEW E, NEW L, NEW s \in StatesOf(E, L)
  PROVE  s.id \in Seq(E \X L) /\ s.edit \in E /\ s.label \in L
  BY DEF StatesOf

\* cap_history leaves a line, within the cap.
LEMMA CapHistoryFacts ==
  ASSUME NEW S, NEW line \in Lines(S)
  PROVE  CapHistory(line) \in Lines(S) /\ Len(CapHistory(line)) <= History + 1
  <1> DEFINE once == DropRepeats(line, Len(line) - (History + 1), ZeroId)
             extra == Len(once) - (History + 1)
             cut == <<once[1]>> \o SubSeq(once, 2 + extra, Len(once))
  <1>1. History \in Nat \ {0}
    BY HistoryAssumption
  <1>2. line \in Seq(S) /\ line # <<>> /\ Len(line) \in Nat
    BY LineFacts
  <1>3. once \in Lines(S)
    <2>1. Left(S, line, once, ZeroId)
      BY <1>1, <1>2, DropRepeatsFacts
    <2> QED BY <1>2, <2>1 DEF Left, Lines
  <1>4. CapHistory(line) = IF extra > 0 THEN cut ELSE once
    BY DEF CapHistory
  <1> HIDE DEF once
  <1>5. once \in Seq(S) /\ Len(once) \in Nat \ {0} /\ once[1] \in S
    BY <1>3, LineFacts
  <1>6. ASSUME extra > 0 PROVE cut \in Lines(S) /\ Len(cut) = History + 1
    <2>1. \A i \in (2 + extra)..Len(once) : once[i] \in S
      BY <1>1, <1>3, <1>5, <1>6, LineFacts
    <2>2. /\ SubSeq(once, 2 + extra, Len(once)) \in Seq(S)
          /\ Len(SubSeq(once, 2 + extra, Len(once))) = History
      BY <1>1, <1>5, <1>6, <2>1, SubSeqProperties
    <2>3. <<once[1]>> \in Seq(S) /\ Len(<<once[1]>>) = 1
      BY <1>5
    <2>4. cut \in Seq(S) /\ Len(cut) = 1 + History
      BY <2>2, <2>3, ConcatProperties
    <2> HIDE DEF cut
    <2>5. cut # <<>>
      BY <1>1, <2>4, EmptySeq
    <2> QED BY <1>1, <2>4, <2>5 DEF Lines
  <1>7. ASSUME ~(extra > 0) PROVE Len(once) <= History + 1
    BY <1>1, <1>5, <1>7
  <1> HIDE DEF cut, extra
  <1> QED BY <1>1, <1>3, <1>4, <1>6, <1>7

\* A recorded edit leaves a line, within the cap (record_as).
LEMMA RecordedFacts ==
  ASSUME NEW E, NEW L, Plain \in L, NEW line \in Lines(StatesOf(E, L)), NEW edit \in E
  PROVE  Recorded(line, edit) \in Lines(StatesOf(E, L)) /\ Len(Recorded(line, edit)) <= History + 1
  <1> DEFINE s == State(Last(line).id, edit, Plain)
             S == StatesOf(E, L)
  <1>1. Last(line) \in S /\ line \in Seq(S)
    BY LineFacts
  <1>2. s \in S
    BY <1>1, IdOfState, StateFacts
  <1> HIDE DEF s, S
  <1>3. Append(line, s) \in Lines(S)
    BY <1>1, <1>2, AppendProperties DEF Lines
  <1> QED BY <1>3, CapHistoryFacts DEF Recorded, s, S

----------------------------------------------------------------------------
(* The join's cap.                                                         *)

\* The first of a set of places is the least of them, and is 0 only where there is none (position).
LEMMA FirstOfFacts ==
  ASSUME NEW T \in SUBSET (Nat \ {0})
  PROVE  /\ FirstOf(T) \in Nat
         /\ FirstOf(T) = 0 <=> T = {}
         /\ T # {} => FirstOf(T) \in T /\ \A j \in T : FirstOf(T) <= j
  <1>1. ASSUME T # {} PROVE FirstOf(T) \in T /\ \A j \in T : FirstOf(T) <= j
    <2>1. PICK n \in T : TRUE
      BY <1>1
    <2>2. \E i \in T : \A j \in T : i <= j
      BY <2>1, LeastNat
    <2> QED BY <1>1, <2>2 DEF FirstOf
  <1> QED BY <1>1 DEF FirstOf

\* The kinds the cap takes.
Turns == {CapTurn[t] : t \in DOMAIN CapTurn}

\* What the second of the join's cap's passes does: of a list within the cap it takes nothing, it leaves
\* no fewer than a full line, and the last stays, with the state kept before it, if its kind has no turn.
LEMMA DropInTurnFacts ==
  ASSUME NEW S, NEW list \in Seq(S), NEW kept
  PROVE  /\ DropInTurn(list, kept) \in Seq(S)
         /\ Len(DropInTurn(list, kept)) <= Len(list)
         /\ \A j \in 1..Len(DropInTurn(list, kept)) : \E l \in 1..Len(list) : DropInTurn(list, kept)[j] = list[l]
         /\ Len(list) <= History + 1 =>
              Len(DropInTurn(list, kept)) = Len(list) /\ Picked(DropInTurn(list, kept), list, 1..Len(list))
         /\ Len(list) > History + 1 => Len(DropInTurn(list, kept)) >= History + 1
         /\ list # <<>> /\ list[Len(list)].kind \notin Turns => Left(S, list, DropInTurn(list, kept), kept)
  <1> DEFINE N == Len(list) - (History + 1)
             Turn(i) == FirstOf({t \in DOMAIN CapTurn : CapTurn[t] = list[i].kind})
             May(i) == Turn(i) # 0 /\ list[i].id # kept
             may == {i \in 1..Len(list) : May(i)}
             key == [i \in 1..Len(list) |-> Turn(i)]
             gone == {i \in may : Cardinality(Sooner(may, key, i)) < N}
             stay == (1..Len(list)) \ gone
             D == DropInTurn(list, kept)
  <1>1. History \in Nat \ {0} /\ Len(list) \in Nat /\ DOMAIN list = 1..Len(list) /\ N \in Int
    BY HistoryAssumption, LenProperties
  <1>2. D = Those(list, stay)
    <2>1. \A i \in 1..Len(list) :
            {j \in DOMAIN list : May(j) /\ (Turn(j) < Turn(i) \/ (Turn(j) = Turn(i) /\ j < i))}
              = Sooner(may, key, i)
      <3> HIDE DEF Turn
      <3> QED BY <1>1 DEF Sooner
    <2>2. {i \in DOMAIN list :
             /\ May(i)
             /\ Cardinality({j \in DOMAIN list :
                               May(j) /\ (Turn(j) < Turn(i) \/ (Turn(j) = Turn(i) /\ j < i))}) < N} = gone
      <3> HIDE DEF May, Turn, N, key
      <3> QED BY <1>1, <2>1
    <2> QED BY <1>1, <2>2 DEF DropInTurn
  <1>3. ASSUME NEW i \in 1..Len(list)
        PROVE  key[i] \in Int /\ (list[i].kind \notin Turns => i \notin may) /\ (list[i].id = kept => i \notin may)
    <2>1. {t \in DOMAIN CapTurn : CapTurn[t] = list[i].kind} \in SUBSET (Nat \ {0})
      <3>1. DOMAIN CapTurn \subseteq Nat \ {0}
        BY DEF CapTurn
      <3> QED BY <3>1
    <2>2. Turn(i) \in Nat /\ (list[i].kind \notin Turns => Turn(i) = 0)
      BY <2>1, FirstOfFacts DEF Turns
    <2> HIDE DEF Turn
    <2> QED BY <2>2
  <1> HIDE DEF key, May
  <1>4. IsFiniteSet(may) /\ may \subseteq 1..Len(list) /\ may \in SUBSET Int
    <2>1. IsFiniteSet(1..Len(list))
      BY <1>1, FS_Interval
    <2>2. may \subseteq 1..Len(list)
      OBVIOUS
    <2> HIDE DEF may
    <2>3. IsFiniteSet(may)
      BY <2>1, <2>2, FS_Subset
    <2> QED BY <2>2, <2>3
  <1> HIDE DEF may
  <1>5. IsFiniteSet(gone) /\ (N <= 0 => gone = {}) /\ (N > 0 => Cardinality(gone) <= N) /\ Cardinality(gone) \in Nat
    <2> DEFINE R == InKeyOrder(may, key)
               At(i) == Rank(may, R, i)
    <2>1. Orders(R, may) /\ \A i \in may : At(i) = Cardinality(Sooner(may, key, i)) + 1
      BY <1>3, <1>4, InKeyOrderOrders
    <2>2. Places(may, R, Cardinality(may)) /\ Cardinality(may) \in Nat
      BY <1>4, <2>1, RankIsPlace
    <2>3. \A i \in may : At(i) \in Nat \ {0}
      BY <2>2 DEF Places
    <2> HIDE DEF At
    <2>4. \A i \in gone : At(i) \in 1..N
      <3>1. ASSUME NEW i \in gone PROVE At(i) \in 1..N
        <4>1. Cardinality(Sooner(may, key, i)) < N /\ i \in may
          OBVIOUS
        <4>2. At(i) = Cardinality(Sooner(may, key, i)) + 1
          BY <2>1, <4>1
        <4>3. Cardinality(Sooner(may, key, i)) \in Nat
          <5>1. Sooner(may, key, i) \subseteq may
            BY DEF Sooner
          <5> QED BY <5>1, <1>4, FS_Subset, FS_CardinalityType
        <4> HIDE DEF N, gone
        <4> QED BY <4>1, <4>2, <4>3, <1>1
      <3> QED BY <3>1
    <2>5. \A i, j \in gone : At(i) = At(j) => i = j
      BY <2>2 DEF Places, At
    <2> HIDE DEF gone
    <2>6. CASE N <= 0
      <3>1. gone = {}
        BY <1>1, <2>4, <2>6
      <3> QED BY <3>1, <2>6, <1>1, FS_EmptySet
    <2>7. CASE N > 0
      <3> DEFINE place == [i \in gone |-> At(i)]
      <3>1. place \in Injection(gone, 1..N)
        BY <2>4, <2>5 DEF Injection, IsInjective
      <3>2. IsFiniteSet(1..N) /\ Cardinality(1..N) = N
        BY <1>1, <2>7, FS_Interval
      <3> HIDE DEF place, N
      <3>3. IsFiniteSet(gone) /\ Cardinality(gone) <= N
        BY <3>1, <3>2, FS_Injection
      <3> QED BY <3>3, <2>7, <1>1, FS_CardinalityType
    <2> QED BY <2>6, <2>7, <1>1
  <1>6. gone \subseteq may
    OBVIOUS
  <1>7. /\ Cardinality(stay) = Len(list) - Cardinality(gone)
        /\ stay \in SUBSET (1..Len(list))
    <2> HIDE DEF gone
    <2>1. IsFiniteSet(1..Len(list)) /\ Cardinality(1..Len(list)) = Len(list)
      BY <1>1, FS_Interval
    <2>2. (1..Len(list)) \cap gone = gone
      BY <1>4, <1>6
    <2>3. Cardinality((1..Len(list)) \ gone) = Cardinality(1..Len(list)) - Cardinality((1..Len(list)) \cap gone)
      BY <2>1, FS_Difference
    <2> QED BY <2>1, <2>2, <2>3
  <1>8. /\ D \in Seq(S) /\ Len(D) = Cardinality(stay) /\ Picked(D, list, stay)
        /\ Len(list) \in stay =>
              /\ Cardinality(stay) > 0
              /\ D[Cardinality(stay)] = list[Len(list)]
              /\ Len(list) - 1 \in stay =>
                   /\ Cardinality(stay) > 1
                   /\ D[Cardinality(stay) - 1] = list[Len(list) - 1]
    <2> HIDE DEF stay, D
    <2> QED BY <1>2, <1>7, ThoseFacts
  <1> HIDE DEF gone, D
  <1>9. Len(D) <= Len(list)
    BY <1>1, <1>5, <1>7, <1>8
  <1>10. \A j \in 1..Len(D) : \E l \in 1..Len(list) : D[j] = list[l]
    BY <1>8 DEF Picked
  <1>11. ASSUME Len(list) <= History + 1 PROVE Len(D) = Len(list) /\ Picked(D, list, 1..Len(list))
    <2>1. gone = {} /\ stay = 1..Len(list)
      BY <1>1, <1>5, <1>11
    <2>2. Cardinality(gone) = 0
      BY <2>1, FS_EmptySet
    <2> QED BY <1>1, <1>7, <1>8, <2>1, <2>2
  <1>12. ASSUME Len(list) > History + 1 PROVE Len(D) >= History + 1
    BY <1>1, <1>5, <1>7, <1>8, <1>12
  <1>13. ASSUME list # <<>>, list[Len(list)].kind \notin Turns PROVE Left(S, list, D, kept)
    <2>1. Len(list) \in stay
      <3>1. Len(list) \in 1..Len(list)
        BY <1>1, <1>13, EmptySeq
      <3> QED BY <1>3, <1>6, <1>13, <3>1
    <2>2. D # <<>> /\ D[Len(D)] = list[Len(list)]
      BY <1>7, <1>8, <2>1, EmptySeq
    <2>3. ASSUME Len(list) >= 2, list[Len(list) - 1].id = kept
          PROVE  Len(D) >= 2 /\ D[Len(D) - 1] = list[Len(list) - 1]
      <3>1. Len(list) - 1 \in 1..Len(list)
        BY <1>1, <2>3
      <3>2. Len(list) - 1 \in stay
        BY <1>3, <1>6, <2>3, <3>1
      <3>3. Cardinality(stay) \in Nat
        BY <1>8, LenProperties
      <3> QED BY <1>8, <2>1, <3>2, <3>3
    <2> QED BY <1>8, <1>9, <1>10, <2>2, <2>3 DEF Left
  <1> QED BY <1>8, <1>9, <1>10, <1>11, <1>12, <1>13 DEF D

\* What two passes leave, one after the other, is what one may.
LEMMA LeftOfLeft ==
  ASSUME NEW S, NEW line \in Seq(S), NEW kept, NEW a, NEW b, Left(S, line, a, kept), Left(S, a, b, kept)
  PROVE  Left(S, line, b, kept)
  <1>1. b \in Seq(S) /\ a \in Seq(S) /\ Len(a) \in Nat /\ Len(b) \in Nat /\ Len(line) \in Nat
    BY LenProperties DEF Left
  <1>2. Len(b) <= Len(line)
    BY <1>1 DEF Left
  <1>3. ASSUME NEW j \in 1..Len(b) PROVE \E l \in 1..Len(line) : b[j] = line[l]
    <2>1. PICK k \in 1..Len(a) : b[j] = a[k]
      BY DEF Left
    <2> QED BY <2>1 DEF Left
  <1>4. line # <<>> => b # <<>> /\ b[Len(b)] = line[Len(line)]
    BY DEF Left
  <1>5. ASSUME Len(line) >= 2, line[Len(line) - 1].id = kept
        PROVE  Len(b) >= 2 /\ b[Len(b) - 1] = line[Len(line) - 1]
    <2>1. Len(a) >= 2 /\ a[Len(a) - 1] = line[Len(line) - 1]
      BY <1>5 DEF Left
    <2>2. a[Len(a) - 1].id = kept
      BY <1>5, <2>1
    <2>3. Len(b) >= 2 /\ b[Len(b) - 1] = a[Len(a) - 1]
      BY <2>1, <2>2 DEF Left
    <2> QED BY <2>1, <2>3
  <1> QED BY <1>1, <1>2, <1>3, <1>4, <1>5 DEF Left

\* What the join's cap does, by both its passes.
LEMMA CapJoinFacts ==
  ASSUME NEW S, NEW list \in Seq(S), list # <<>>, NEW kept
  PROVE  /\ CapJoin(list, kept) \in Seq(S) /\ CapJoin(list, kept) # <<>>
         /\ \A j \in 1..Len(CapJoin(list, kept)) : \E l \in 1..Len(list) : CapJoin(list, kept)[j] = list[l]
         /\ Len(list) <= History + 1 =>
              Len(CapJoin(list, kept)) = Len(list) /\ Picked(CapJoin(list, kept), list, 1..Len(list))
         /\ Len(list) > History + 1 => Len(CapJoin(list, kept)) >= History + 1
         /\ list[Len(list)].kind \notin Turns => Left(S, list, CapJoin(list, kept), kept)
  <1> DEFINE N == Len(list) - (History + 1)
             once == DropRepeats(list, N, kept)
             C == CapJoin(list, kept)
  <1>1. History \in Nat \ {0} /\ Len(list) \in Nat \ {0} /\ N \in Int
    BY HistoryAssumption, EmptySeq
  <1>2. C = DropInTurn(once, kept)
    BY DEF CapJoin
  <1>3. /\ Left(S, list, once, kept)
        /\ N >= 0 => Len(once) >= Len(list) - N
        /\ N <= 0 => once = list
    BY <1>1, DropRepeatsFacts
  <1> HIDE DEF once, C
  <1>4. once \in Seq(S) /\ once # <<>> /\ Len(once) \in Nat \ {0} /\ once[Len(once)] = list[Len(list)]
    BY <1>3, EmptySeq DEF Left
  <1>5. /\ C \in Seq(S)
        /\ \A j \in 1..Len(C) : \E l \in 1..Len(once) : C[j] = once[l]
        /\ Len(once) <= History + 1 => Len(C) = Len(once) /\ Picked(C, once, 1..Len(once))
        /\ Len(once) > History + 1 => Len(C) >= History + 1
        /\ once[Len(once)].kind \notin Turns => Left(S, once, C, kept)
    BY <1>2, <1>4, DropInTurnFacts
  <1>6. Len(C) \in Nat /\ Len(C) >= 1
    BY <1>1, <1>4, <1>5, LenProperties
  <1>7. C # <<>>
    BY <1>6, EmptySeq
  <1>8. ASSUME NEW j \in 1..Len(C) PROVE \E l \in 1..Len(list) : C[j] = list[l]
    <2>1. PICK k \in 1..Len(once) : C[j] = once[k]
      BY <1>5
    <2> QED BY <1>3, <2>1 DEF Left
  <1>9. ASSUME Len(list) <= History + 1 PROVE Len(C) = Len(list) /\ Picked(C, list, 1..Len(list))
    BY <1>1, <1>3, <1>5, <1>9
  <1>10. ASSUME Len(list) > History + 1 PROVE Len(C) >= History + 1
    BY <1>1, <1>3, <1>4, <1>5, <1>10
  <1>11. ASSUME list[Len(list)].kind \notin Turns PROVE Left(S, list, C, kept)
    BY <1>3, <1>4, <1>5, <1>11, LeftOfLeft
  <1> QED BY <1>5, <1>7, <1>8, <1>9, <1>10, <1>11 DEF C

----------------------------------------------------------------------------
(* The older copy's states walked.                                         *)

\* The edits of a line with a state more.
LEMMA EditsAppend ==
  ASSUME NEW S, NEW line \in Seq(S), NEW s \in S
  PROVE  Edits(Append(line, s)) = Edits(line) \cup {s.edit}
  <1> DEFINE more == Append(line, s)
  <1>1. Len(line) \in Nat /\ DOMAIN line = 1..Len(line)
    BY LenProperties
  <1>2. /\ more \in Seq(S) /\ Len(more) = Len(line) + 1
        /\ \A i \in 1..Len(line) : more[i] = line[i]
        /\ more[Len(line) + 1] = s
    BY AppendProperties
  <1>3. DOMAIN more = 1..(Len(line) + 1)
    BY <1>2, LenProperties
  <1> HIDE DEF more
  <1>4. ASSUME NEW i \in DOMAIN more PROVE more[i].edit \in Edits(line) \cup {s.edit}
    <2>1. i \in 1..Len(line) \/ i = Len(line) + 1
      BY <1>1, <1>3
    <2> QED BY <1>1, <1>2, <2>1 DEF Edits
  <1>5. ASSUME NEW i \in DOMAIN line PROVE line[i].edit \in Edits(more)
    <2>1. i \in DOMAIN more /\ more[i] = line[i]
      BY <1>1, <1>2, <1>3
    <2> QED BY <2>1 DEF Edits
  <1>6. s.edit \in Edits(more)
    <2>1. Len(line) + 1 \in DOMAIN more
      BY <1>1, <1>3
    <2> QED BY <1>2, <2>1 DEF Edits
  <1>7. Edits(more) = Edits(line) \cup {s.edit}
    BY <1>4, <1>5, <1>6 DEF Edits
  <1> QED BY <1>7 DEF more

\* The edits of two lines, one after the other.
LEMMA EditsConcat ==
  ASSUME NEW S, NEW line \in Seq(S), NEW tail \in Seq(S)
  PROVE  Edits(line \o tail) = Edits(line) \cup Edits(tail)
  <1> DEFINE more == line \o tail
  <1>1. Len(line) \in Nat /\ DOMAIN line = 1..Len(line) /\ Len(tail) \in Nat /\ DOMAIN tail = 1..Len(tail)
    BY LenProperties
  <1>2. /\ more \in Seq(S) /\ Len(more) = Len(line) + Len(tail)
        /\ \A i \in 1..(Len(line) + Len(tail)) : more[i] = IF i <= Len(line) THEN line[i] ELSE tail[i - Len(line)]
    BY ConcatProperties
  <1>3. DOMAIN more = 1..(Len(line) + Len(tail))
    BY <1>2, LenProperties
  <1> HIDE DEF more
  <1>4. ASSUME NEW i \in DOMAIN more PROVE more[i].edit \in Edits(line) \cup Edits(tail)
    <2>1. CASE i <= Len(line)
      BY <1>1, <1>2, <1>3, <2>1 DEF Edits
    <2>2. CASE ~(i <= Len(line))
      <3>1. i - Len(line) \in DOMAIN tail /\ more[i] = tail[i - Len(line)]
        BY <1>1, <1>2, <1>3, <2>2
      <3> QED BY <3>1 DEF Edits
    <2> QED BY <2>1, <2>2
  <1>5. ASSUME NEW i \in DOMAIN line PROVE line[i].edit \in Edits(more)
    <2>1. i \in DOMAIN more /\ more[i] = line[i]
      BY <1>1, <1>2, <1>3
    <2> QED BY <2>1 DEF Edits
  <1>6. ASSUME NEW i \in DOMAIN tail PROVE tail[i].edit \in Edits(more)
    <2>1. Len(line) + i \in DOMAIN more /\ more[Len(line) + i] = tail[i]
      <3>1. Len(line) + i \in 1..(Len(line) + Len(tail)) /\ ~(Len(line) + i <= Len(line)) /\ (Len(line) + i) - Len(line) = i
        BY <1>1
      <3> QED BY <1>2, <1>3, <3>1
    <2> QED BY <2>1 DEF Edits
  <1>7. Edits(more) = Edits(line) \cup Edits(tail)
    BY <1>4, <1>5, <1>6 DEF Edits
  <1> QED BY <1>7 DEF more

\* The place of a state by its id or by its content is one of the line's, with that id or that content;
\* and a line with the id has a place for it (position_by_id, position_by_content).
LEMMA ByIdFacts ==
  ASSUME NEW S, NEW line \in Seq(S), NEW s
  PROVE  /\ ById(line, s) \in 0..Len(line) /\ ByContent(line, s) \in 0..Len(line)
         /\ ById(line, s) # 0 => ById(line, s) \in 1..Len(line) /\ line[ById(line, s)].id = s.id
         /\ ByContent(line, s) # 0 =>
              /\ ByContent(line, s) \in 1..Len(line)
              /\ line[ByContent(line, s)].edit = s.edit /\ line[ByContent(line, s)].label = s.label
         /\ (\E i \in 1..Len(line) : line[i].id = s.id) => ById(line, s) # 0
  <1> DEFINE T == {i \in DOMAIN line : line[i].id = s.id}
             U == {i \in DOMAIN line : line[i].edit = s.edit /\ line[i].label = s.label}
  <1>1. Len(line) \in Nat /\ DOMAIN line = 1..Len(line)
    BY LenProperties
  <1>2. /\ FirstOf(T) \in Nat /\ (FirstOf(T) = 0 <=> T = {}) /\ (T # {} => FirstOf(T) \in T)
        /\ FirstOf(U) \in Nat /\ (FirstOf(U) = 0 <=> U = {}) /\ (U # {} => FirstOf(U) \in U)
    <2>1. T \in SUBSET (Nat \ {0}) /\ U \in SUBSET (Nat \ {0})
      BY <1>1
    <2> HIDE DEF T, U
    <2> QED BY <2>1, FirstOfFacts
  <1>3. ById(line, s) = FirstOf(T) /\ ByContent(line, s) = FirstOf(U)
    BY DEF ById, ByContent
  <1>4. \A i \in T : i \in 1..Len(line) /\ line[i].id = s.id
    BY <1>1
  <1>5. \A i \in U : i \in 1..Len(line) /\ line[i].edit = s.edit /\ line[i].label = s.label
    BY <1>1
  <1>6. (\E i \in 1..Len(line) : line[i].id = s.id) => T # {}
    BY <1>1
  <1> HIDE DEF T, U
  <1>7. ById(line, s) # 0 => ById(line, s) \in 1..Len(line) /\ line[ById(line, s)].id = s.id
    BY <1>2, <1>3, <1>4
  <1>8. ByContent(line, s) # 0 =>
          /\ ByContent(line, s) \in 1..Len(line)
          /\ line[ByContent(line, s)].edit = s.edit /\ line[ByContent(line, s)].label = s.label
    BY <1>2, <1>3, <1>5
  <1>9. ById(line, s) \in 0..Len(line) /\ ByContent(line, s) \in 0..Len(line)
    BY <1>1, <1>2, <1>3, <1>7, <1>8
  <1> QED BY <1>2, <1>3, <1>6, <1>7, <1>8, <1>9

\* A capped-away state led to a state of the newer copy, and is not the older copy's current (rule ii).
LEMMA LedToFacts ==
  ASSUME NEW S, NEW newer \in Lines(S), NEW older \in Lines(S), NEW k \in CappedAway(newer, older)
  PROVE  LedTo(newer, older, k) \in 1..Len(newer) /\ k \in 2..(Len(older) - 1)
  <1> DEFINE T == {m \in (k + 1)..Len(older) : ById(newer, older[m]) # 0}
  <1>1. Len(older) \in Nat /\ newer \in Seq(S)
    BY LineFacts
  <1>2. k \in 2..(Len(older) - 1) /\ \E m \in (k + 1)..Len(older) : ById(newer, older[m]) # 0
    BY DEF CappedAway
  <1>3. T \in SUBSET (Nat \ {0}) /\ T # {}
    BY <1>1, <1>2
  <1>4. FirstOf(T) \in T
    <2> HIDE DEF T
    <2> QED BY <1>3, FirstOfFacts
  <1>5. LedTo(newer, older, k) = ById(newer, older[FirstOf(T)])
    BY DEF LedTo
  <1>6. ById(newer, older[FirstOf(T)]) # 0
    BY <1>4
  <1> HIDE DEF T
  <1> QED BY <1>1, <1>2, <1>5, <1>6, ByIdFacts

\* What a walk of states S is, that has newer beside it.
Walks(S, newer) ==
  [fork : Nat, walking : BOOLEAN, shared : SUBSET Nat, own : Seq(S), capped : Seq([before : 1..Len(newer), state : S])]

\* The edits that the newer copy and the walk have.
Had(newer, w) == Edits(newer) \cup Edits(w.own) \cup {w.capped[i].state.edit : i \in DOMAIN w.capped}

\* Where a state stood is said, or it is the last of the older copy's own.
Placed(newer, w, s) == Said(newer, s) \/ (w.own # <<>> /\ Last(w.own) = s)

\* Of the walk at the older copy's state k: no edit up to there is lost, and its current is placed.
Walked(S, newer, older, w, k) ==
  /\ w \in Walks(S, newer)
  /\ \A j \in 1..Len(older) : j <= k \/ j = 1 => older[j].edit \in Had(newer, w)
  /\ k <= 1 => Placed(newer, w, older[1])
  /\ k = Len(older) => Placed(newer, w, older[k])

\* A state found in the newer copy by id or by content is said there.
LEMMA SaidFacts ==
  ASSUME NEW S, NEW line \in Lines(S), NEW s, ById(line, s) # 0 \/ ByContent(line, s) # 0
  PROVE  Said(line, s)
  <1>1. CASE ById(line, s) # 0
    BY <1>1 DEF Said
  <1>2. CASE ByContent(line, s) # 0
    <2>1. /\ ByContent(line, s) \in 1..Len(line)
          /\ line[ByContent(line, s)].edit = s.edit /\ line[ByContent(line, s)].label = s.label
      BY <1>2, LineFacts, ByIdFacts
    <2>2. ByContent(line, s) \in DOMAIN line
      BY <2>1, LineFacts
    <2> QED BY <2>1, <2>2 DEF Said
  <1> QED BY <1>1, <1>2

\* A state found in the newer copy by id or by content has its edit there.
LEMMA FoundEdit ==
  ASSUME NEW E, NEW L, NEW line \in Lines(StatesOf(E, L)), NEW s \in StatesOf(E, L),
         ById(line, s) # 0 \/ ByContent(line, s) # 0
  PROVE  s.edit \in Edits(line)
  <1> DEFINE S == StatesOf(E, L)
  <1>1. line \in Seq(S) /\ DOMAIN line = 1..Len(line) /\ \A i \in 1..Len(line) : line[i] \in S
    BY LineFacts
  <1>2. CASE ById(line, s) # 0
    <2>1. ById(line, s) \in 1..Len(line) /\ line[ById(line, s)].id = s.id
      BY <1>1, <1>2, ByIdFacts
    <2>2. line[ById(line, s)].edit = s.edit
      BY <1>1, <2>1, IdTells
    <2> QED BY <1>1, <2>1, <2>2 DEF Edits
  <1>3. CASE ByContent(line, s) # 0
    <2>1. ByContent(line, s) \in 1..Len(line) /\ line[ByContent(line, s)].edit = s.edit
      BY <1>1, <1>3, ByIdFacts
    <2> QED BY <1>1, <2>1 DEF Edits
  <1> QED BY <1>2, <1>3

\* A state met has a place in the newer copy ...
Finds(newer, older, w, k, q) ==
  /\ older[k].edit \in Edits(newer)
  /\ k = Len(older) => Said(newer, older[k])
  /\ \/ q = w
     \/ \E i \in Nat : q = [w EXCEPT !.shared = @ \cup {i}, !.fork = IF i > @ THEN i ELSE @]

\* ... or is brought back to one, and is not the current one ...
Brings(newer, older, w, k, q) ==
  /\ k # Len(older)
  /\ \E b \in 1..Len(newer) : q = [w EXCEPT !.capped = Append(@, [before |-> b, state |-> older[k]])]

\* ... or is the older copy's own.
Owns(older, w, k, q) == q = [w EXCEPT !.walking = FALSE, !.own = Append(@, older[k])]

MetAs(newer, older, w, k, q) ==
  Finds(newer, older, w, k, q) \/ Brings(newer, older, w, k, q) \/ Owns(older, w, k, q)

\* The walk at a state does one of the three: its arms are rules i to iv of join_line.
LEMMA MetCases ==
  ASSUME NEW E, NEW L, NEW newer \in Lines(StatesOf(E, L)), NEW older \in Lines(StatesOf(E, L)),
         NEW capped, capped = CappedAway(newer, older),
         NEW w \in Walks(StatesOf(E, L), newer), NEW k \in 2..Len(older)
  PROVE  MetAs(newer, older, w, k, Met(newer, older, capped, w, k))
  <1> DEFINE S == StatesOf(E, L)
             s == older[k]
             here == ById(newer, s)
             stands == s.edit \in Edits(newer)
             Shares(i) == [w EXCEPT !.shared = @ \cup {i}, !.fork = IF i > @ THEN i ELSE @]
             q == Met(newer, older, capped, w, k)
  <1>1. newer \in Seq(S) /\ s \in S /\ k # 1 /\ Len(older) \in Nat
    BY LineFacts
  <1>2. CASE here # 0
    <2>1. q = Shares(here)
      BY <1>1, <1>2 DEF Met
    <2>2. here \in Nat /\ stands /\ Said(newer, s)
      BY <1>1, <1>2, ByIdFacts, FoundEdit, SaidFacts
    <2> QED BY <2>1, <2>2 DEF MetAs, Finds
  <1>3. CASE here = 0 /\ k \in capped
    <2>1. k # Len(older) /\ LedTo(newer, older, k) \in 1..Len(newer)
      BY <1>1, <1>3, LedToFacts
    <2>2. q = IF stands THEN w
              ELSE [w EXCEPT !.capped = Append(@, [before |-> LedTo(newer, older, k), state |-> s])]
      BY <1>1, <1>3 DEF Met
    <2>3. CASE stands
      <3>1. q = w
        BY <2>2, <2>3
      <3> QED BY <2>1, <2>3, <3>1 DEF MetAs, Finds
    <2>4. CASE ~stands
      <3>1. q = [w EXCEPT !.capped = Append(@, [before |-> LedTo(newer, older, k), state |-> s])]
        BY <2>2, <2>4
      <3> QED BY <2>1, <3>1 DEF MetAs, Brings
    <2> QED BY <2>3, <2>4
  <1>4. CASE here = 0 /\ k \notin capped /\ k < Len(older) /\ IsReconciled(s) /\ stands
    <2>1. q = w
      BY <1>1, <1>4 DEF Met
    <2> QED BY <1>1, <1>4, <2>1 DEF MetAs, Finds
  <1>5. CASE here = 0 /\ k \notin capped /\ ~(k < Len(older) /\ IsReconciled(s) /\ stands)
    <2>1. CASE w.walking /\ Matches(newer, older, w.fork, k)
      <3>1. q = Shares(ByContent(newer, s))
        BY <1>1, <1>5, <2>1 DEF Met
      <3>2. ByContent(newer, s) > w.fork /\ w.fork \in Nat /\ ByContent(newer, s) \in Nat
        <4>1. ByContent(newer, s) \in 0..Len(newer)
          BY <1>1, ByIdFacts
        <4> QED BY <2>1, <4>1 DEF Matches, Walks
      <3>3. ByContent(newer, s) # 0
        BY <3>2
      <3>4. stands /\ Said(newer, s)
        BY <1>1, <3>3, FoundEdit, SaidFacts
      <3> QED BY <3>1, <3>2, <3>4 DEF MetAs, Finds
    <2>2. CASE ~(w.walking /\ Matches(newer, older, w.fork, k))
      <3>1. q = [w EXCEPT !.walking = FALSE, !.own = Append(@, s)]
        BY <1>1, <1>5, <2>2 DEF Met
      <3> QED BY <3>1 DEF MetAs, Owns
    <2> QED BY <2>1, <2>2
  <1> QED BY <1>2, <1>3, <1>4, <1>5

\* What the walk becomes by each of the three.
LEMMA MetAsWalks ==
  ASSUME NEW S, NEW newer, NEW older \in Lines(S), NEW w \in Walks(S, newer), NEW k \in 1..Len(older),
         NEW q, MetAs(newer, older, w, k, q)
  PROVE  /\ q \in Walks(S, newer)
         /\ \/ Finds(newer, older, w, k, q) /\ q.own = w.own /\ q.capped = w.capped
            \/ /\ k # Len(older) /\ q.own = w.own
               /\ \E b \in 1..Len(newer) : q.capped = Append(w.capped, [before |-> b, state |-> older[k]])
            \/ q.own = Append(w.own, older[k]) /\ q.capped = w.capped
  <1> DEFINE s == older[k]
             B == [before : 1..Len(newer), state : S]
  <1>1. s \in S /\ Len(older) \in Nat \ {0}
    BY LineFacts
  <1>2. /\ w.own \in Seq(S) /\ w.capped \in Seq(B)
        /\ w.shared \in SUBSET Nat /\ w.fork \in Nat
    BY DEF Walks
  <1> HIDE DEF B, s
  <1>3. CASE Finds(newer, older, w, k, q)
    <2>1. CASE q = w
      BY <1>3, <2>1
    <2>2. ASSUME NEW i \in Nat, q = [w EXCEPT !.shared = @ \cup {i}, !.fork = IF i > @ THEN i ELSE @]
          PROVE  q \in Walks(S, newer) /\ q.own = w.own /\ q.capped = w.capped
      <3>1. w.shared \cup {i} \in SUBSET Nat /\ (IF i > w.fork THEN i ELSE w.fork) \in Nat
        BY <1>2
      <3> QED BY <2>2, <3>1 DEF Walks
    <2>3. q = w \/ \E i \in Nat : q = [w EXCEPT !.shared = @ \cup {i}, !.fork = IF i > @ THEN i ELSE @]
      BY <1>3 DEF Finds
    <2>4. q \in Walks(S, newer) /\ q.own = w.own /\ q.capped = w.capped
      BY <2>1, <2>2, <2>3
    <2> QED BY <1>3, <2>4
  <1>4. CASE Brings(newer, older, w, k, q)
    <2>1. PICK b \in 1..Len(newer) : q = [w EXCEPT !.capped = Append(@, [before |-> b, state |-> s])]
      BY <1>4 DEF Brings, s
    <2> DEFINE x == [before |-> b, state |-> s]
               c == Append(w.capped, x)
    <2>2. x \in B
      BY <1>1 DEF B
    <2> HIDE DEF x
    <2>3. c \in Seq(B)
      BY <1>2, <2>2, AppendProperties
    <2>4. q = [w EXCEPT !.capped = c]
      BY <2>1 DEF x
    <2> HIDE DEF c
    <2>5. q \in Walks(S, newer) /\ q.own = w.own /\ q.capped = c
      BY <2>3, <2>4 DEF Walks, B
    <2>6. c = Append(w.capped, [before |-> b, state |-> older[k]]) /\ k # Len(older)
      BY <1>4 DEF c, x, s, Brings
    <2> QED BY <2>5, <2>6
  <1>5. CASE Owns(older, w, k, q)
    <2> DEFINE o == Append(w.own, s)
    <2>1. o \in Seq(S)
      BY <1>1, <1>2, AppendProperties
    <2>2. q = [w EXCEPT !.walking = FALSE, !.own = o]
      BY <1>5 DEF Owns, s
    <2> HIDE DEF o
    <2>3. q \in Walks(S, newer) /\ q.own = o /\ q.capped = w.capped
      BY <2>1, <2>2 DEF Walks
    <2>4. o = Append(w.own, older[k])
      BY DEF o, s
    <2> QED BY <2>3, <2>4
  <1> QED BY <1>3, <1>4, <1>5 DEF MetAs

\* The walk goes on from a state to the next with what Walked says: a state is left out of the older
\* copy's own only if its edit is found in the newer copy, or is brought back.
LEMMA MetWalks ==
  ASSUME NEW E, NEW L, NEW newer \in Lines(StatesOf(E, L)), NEW older \in Lines(StatesOf(E, L)),
         NEW capped, capped = CappedAway(newer, older), NEW w, NEW k \in 1..Len(older),
         Walked(StatesOf(E, L), newer, older, w, k - 1)
  PROVE  Walked(StatesOf(E, L), newer, older, Met(newer, older, capped, w, k), k)
  <1> DEFINE S == StatesOf(E, L)
             s == older[k]
             q == Met(newer, older, capped, w, k)
  <1>1. s \in S /\ Len(older) \in Nat \ {0} /\ w \in Walks(S, newer)
    BY LineFacts DEF Walked
  <1>2. \A j \in 1..Len(older) : j <= k - 1 \/ j = 1 => older[j].edit \in Had(newer, w)
    BY DEF Walked
  <1>3. CASE k = 1
    <2>1. q = w
      BY <1>3, Zenon DEF Met
    <2>2. Placed(newer, w, older[1])
      BY <1>3 DEF Walked
    <2>3. \A j \in 1..Len(older) : j <= k \/ j = 1 => older[j].edit \in Had(newer, w)
      BY <1>2, <1>3
    <2> HIDE DEF q, S
    <2>4. Walked(S, newer, older, w, k)
      BY <1>1, <1>3, <2>2, <2>3 DEF Walked
    <2> QED BY <2>1, <2>4 DEF q, S
  <1>4. CASE k # 1
    <2>0. k \in 2..Len(older)
      BY <1>1, <1>4
    <2>1. /\ w.own \in Seq(S) /\ w.capped \in Seq([before : 1..Len(newer), state : S])
          /\ w.shared \in SUBSET Nat /\ w.fork \in Nat
      BY <1>1 DEF Walks
    <2>a. SUFFICES /\ q \in Walks(S, newer)
                   /\ Had(newer, w) \subseteq Had(newer, q)
                   /\ s.edit \in Had(newer, q)
                   /\ k = Len(older) => Placed(newer, q, s)
      <3>1. ASSUME NEW j \in 1..Len(older), j <= k \/ j = 1 PROVE older[j].edit \in Had(newer, q)
        <4>1. CASE j = k
          BY <2>a, <4>1
        <4>2. CASE j # k
          <5>1. j <= k - 1 \/ j = 1
            BY <1>1, <3>1, <4>2
          <5> QED BY <1>2, <2>a, <5>1
        <4> QED BY <4>1, <4>2
      <3>2. ~(k <= 1)
        BY <2>0
      <3> HIDE DEF q, S
      <3>3. Walked(S, newer, older, q, k)
        BY <2>a, <3>1, <3>2 DEF Walked
      <3> QED BY <3>3 DEF q, S
    <2>2. MetAs(newer, older, w, k, q)
      BY <1>1, <2>0, MetCases
    <2> HIDE DEF q, S
    <2>3. /\ q \in Walks(S, newer)
          /\ \/ Finds(newer, older, w, k, q) /\ q.own = w.own /\ q.capped = w.capped
             \/ /\ k # Len(older) /\ q.own = w.own
                /\ \E b \in 1..Len(newer) : q.capped = Append(w.capped, [before |-> b, state |-> older[k]])
             \/ q.own = Append(w.own, older[k]) /\ q.capped = w.capped
      BY <1>1, <2>2, MetAsWalks DEF S
    <2>4. CASE Finds(newer, older, w, k, q) /\ q.own = w.own /\ q.capped = w.capped
      <3>1. Had(newer, q) = Had(newer, w)
        BY <2>4 DEF Had
      <3> QED BY <2>3, <2>4, <3>1 DEF Had, Placed, Finds
    <2>5. ASSUME k # Len(older), q.own = w.own, NEW b \in 1..Len(newer),
                 q.capped = Append(w.capped, [before |-> b, state |-> older[k]])
          PROVE  Had(newer, w) \subseteq Had(newer, q) /\ s.edit \in Had(newer, q)
      <3> DEFINE x == [before |-> b, state |-> s]
                 B == [before : 1..Len(newer), state : S]
                 c == Append(w.capped, x)
                 n == Len(w.capped)
      <3>1. x \in B /\ x.state = s
        BY <1>1
      <3>c. q.capped = c
        BY <2>5
      <3> HIDE DEF x, B
      <3>2. w.capped \in Seq(B)
        BY <2>1 DEF B
      <3>3. c \in Seq(B) /\ Len(c) = n + 1 /\ (\A i \in 1..n : c[i] = w.capped[i]) /\ c[n + 1] = x
        BY <3>1, <3>2, AppendProperties
      <3>4. n \in Nat /\ DOMAIN w.capped = 1..n /\ DOMAIN c = 1..(n + 1)
        BY <3>2, <3>3, LenProperties
      <3> HIDE DEF c
      <3>7. ASSUME NEW i \in DOMAIN w.capped PROVE \E l \in DOMAIN c : w.capped[i].state.edit = c[l].state.edit
        <4>1. i \in DOMAIN c /\ c[i] = w.capped[i]
          BY <3>3, <3>4
        <4> QED BY <4>1
      <3>8. \E l \in DOMAIN c : s.edit = c[l].state.edit
        <4>1. n + 1 \in DOMAIN c
          BY <3>4
        <4> QED BY <3>1, <3>3, <4>1
      <3>9. {w.capped[i].state.edit : i \in DOMAIN w.capped} \subseteq {c[l].state.edit : l \in DOMAIN c}
        BY <3>7
      <3>10. s.edit \in {c[l].state.edit : l \in DOMAIN c}
        BY <3>8
      <3>11. q.own = w.own
        BY <2>5
      <3> HIDE DEF s
      <3> QED BY <3>c, <3>9, <3>10, <3>11 DEF Had
    <2>6. CASE q.own = Append(w.own, older[k]) /\ q.capped = w.capped
      <3> DEFINE o == Append(w.own, s)
      <3>1. o \in Seq(S) /\ o # <<>> /\ Len(o) = Len(w.own) + 1 /\ o[Len(w.own) + 1] = s
        BY <1>1, <2>1, AppendProperties
      <3>2. Edits(o) = Edits(w.own) \cup {s.edit}
        BY <1>1, <2>1, EditsAppend
      <3>3. q.own = o
        BY <2>6
      <3> HIDE DEF o, s
      <3>4. Last(o) = s
        BY <3>1, LastOfSeq
      <3> QED BY <2>3, <2>6, <3>1, <3>2, <3>3, <3>4 DEF Had, Placed
    <2> QED BY <2>3, <2>4, <2>5, <2>6
  <1> QED BY <1>3, <1>4

\* What the walk begins with.
WalkFirst(newer, older, first) ==
  [fork |-> first, walking |-> first # 0, shared |-> {first} \ {0},
   own |-> IF first = 0 THEN <<older[1]>> ELSE <<>>, capped |-> <<>>]

\* The walk f, state by state.
WalkRun(newer, older, f) ==
  /\ f[0] = WalkFirst(newer, older, FirstShared(newer, older))
  /\ \A k \in 1..Len(older) : f[k] = Met(newer, older, CappedAway(newer, older), f[k - 1], k)
  /\ f[Len(older)] = Walk(newer, older)

\* The walk comes to the older copy's current with what Walked says, by induction on its states: no edit
\* of the older copy is lost by it, and where its current stood is said or it is the last of its own.
LEMMA WalkRuns ==
  ASSUME NEW E, NEW L, NEW newer \in Lines(StatesOf(E, L)), NEW older \in Lines(StatesOf(E, L))
  PROVE  \E f : WalkRun(newer, older, f) /\ \A k \in 0..Len(older) : Walked(StatesOf(E, L), newer, older, f[k], k)
  <1> DEFINE S == StatesOf(E, L)
             N == Len(older)
             X == Walks(S, newer)
             first == FirstShared(newer, older)
             capped == CappedAway(newer, older)
             First == [fork |-> first, walking |-> first # 0, shared |-> {first} \ {0},
                       own |-> IF first = 0 THEN <<older[1]>> ELSE <<>>, capped |-> <<>>]
             P(g) == g = [k \in 0..N |-> IF k = 0 THEN First ELSE Met(newer, older, capped, g[k - 1], k)]
             f == CHOOSE g : P(g)
             step == [a \in X \X (1..N) |-> Met(newer, older, capped, a[1], a[2])]
  <1>1. Walk(newer, older) = f[N]
    BY DEF Walk, WalkFrom
  <1>2. /\ N \in Nat \ {0} /\ older[1] \in S /\ newer \in Seq(S)
        /\ first \in Nat
        /\ first # 0 => ById(newer, older[1]) # 0 \/ ByContent(newer, older[1]) # 0
    BY LineFacts, ByIdFacts DEF FirstShared
  <1> HIDE DEF first, capped, f
  <1>3. First \in X /\ Placed(newer, First, older[1]) /\ older[1].edit \in Had(newer, First)
    <2>1. CASE first = 0
      <3> DEFINE o == <<older[1]>>
      <3>1. o \in Seq(S) /\ Len(o) = 1 /\ o[1] = older[1] /\ o # <<>>
        BY <1>2
      <3>2. Last(o) = older[1] /\ older[1].edit \in Edits(o)
        <4> HIDE DEF o
        <4>1. 1 \in DOMAIN o
          BY <3>1, LenProperties
        <4> QED BY <3>1, <4>1, LastOfSeq DEF Edits
      <3>3. First = [fork |-> first, walking |-> first # 0, shared |-> {first} \ {0}, own |-> o, capped |-> <<>>]
        BY <2>1
      <3>4. /\ {first} \ {0} \in SUBSET Nat /\ (first # 0) \in BOOLEAN
            /\ <<>> \in Seq([before : 1..Len(newer), state : S])
        BY <1>2, EmptySeq
      <3> HIDE DEF o, First, S
      <3>5. First \in X /\ First.own = o
        BY <1>2, <3>1, <3>3, <3>4 DEF Walks
      <3> QED BY <3>1, <3>2, <3>5 DEF Placed, Had
    <2>2. CASE first # 0
      <3>1. First = [fork |-> first, walking |-> first # 0, shared |-> {first} \ {0}, own |-> <<>>, capped |-> <<>>]
        BY <2>2
      <3>2. /\ {first} \ {0} \in SUBSET Nat /\ (first # 0) \in BOOLEAN
            /\ <<>> \in Seq([before : 1..Len(newer), state : S]) /\ <<>> \in Seq(S)
        BY <1>2, EmptySeq
      <3>3. Said(newer, older[1]) /\ older[1].edit \in Edits(newer)
        BY <1>2, <2>2, SaidFacts, FoundEdit
      <3> HIDE DEF First, S
      <3>4. First \in X
        BY <1>2, <3>1, <3>2 DEF Walks
      <3> QED BY <3>3, <3>4 DEF Placed, Had
    <2> QED BY <2>1, <2>2
  <1>4. step \in [X \X (1..N) -> X]
    <2>1. ASSUME NEW x \in X, NEW k \in 1..N PROVE Met(newer, older, capped, x, k) \in X
      <3>1. CASE k = 1
        BY <3>1, Zenon DEF Met
      <3>2. CASE k # 1
        <4>1. k \in 2..N
          BY <1>2, <3>2
        <4>2. MetAs(newer, older, x, k, Met(newer, older, capped, x, k))
          BY <4>1, MetCases DEF capped
        <4> QED BY <4>1, <4>2, MetAsWalks
      <3> QED BY <3>1, <3>2
    <2> HIDE DEF X, N
    <2> QED BY <2>1
  <1> HIDE DEF First, S
  <1>5. \E g : P(g)
    <2>1. PICK h : h \in Recursion(N, X, First, step)
      <3>1. N \in Nat /\ First \in X
        BY <1>2, <1>3
      <3> HIDE DEF step, X, N
      <3> QED BY <3>1, <1>4, RecursionExists
    <2>2. h \in [0..N -> X] /\ \A k \in 0..N : h[k] = IF k = 0 THEN First ELSE step[<<h[k - 1], k>>]
      <3> HIDE DEF step, X, N
      <3> QED BY <2>1 DEF Recursion
    <2>3. ASSUME NEW k \in 1..N PROVE step[<<h[k - 1], k>>] = Met(newer, older, capped, h[k - 1], k)
      <3>1. k - 1 \in 0..N
        BY <1>2
      <3> HIDE DEF X
      <3>2. h[k - 1] \in X
        <4> HIDE DEF step
        <4> QED BY <3>1, <2>2
      <3> QED BY <3>2
    <2>4. \A k \in 0..N : h[k] = IF k = 0 THEN First ELSE Met(newer, older, capped, h[k - 1], k)
      <3>1. N \in Nat
        BY <1>2
      <3>2. ASSUME NEW k \in 0..N, k # 0 PROVE k \in 1..N
        BY <3>1, <3>2
      <3> HIDE DEF step, X, N
      <3> QED BY <2>2, <2>3, <3>2
    <2>5. P(h)
      <3> HIDE DEF step, X, N
      <3> QED BY <2>2, <2>4
    <2> QED BY <2>5
  <1>6. f = [k \in 0..N |-> IF k = 0 THEN First ELSE Met(newer, older, capped, f[k - 1], k)]
    BY <1>5 DEF f
  <1> DEFINE T == {k \in 0..N : Walked(S, newer, older, f[k], k)}
  <1>7. 0 \in T
    <2>1. f[0] = First
      BY <1>2, <1>6
    <2>2. Walked(S, newer, older, First, 0)
      BY <1>2, <1>3 DEF Walked
    <2> QED BY <1>2, <2>1, <2>2
  <1>8. ASSUME NEW i \in 0..(N - 1), i \in T PROVE i + 1 \in T
    <2> DEFINE k == i + 1
    <2>1. k \in 1..N /\ k - 1 = i /\ k \in 0..N
      BY <1>2
    <2> HIDE DEF k
    <2>2. Walked(S, newer, older, f[i], k - 1)
      BY <1>8, <2>1
    <2>3. Walked(S, newer, older, Met(newer, older, capped, f[i], k), k)
      BY <2>1, <2>2, MetWalks DEF capped, S
    <2>4. f[k] = Met(newer, older, capped, f[i], k)
      <3>1. k # 0
        BY <2>1
      <3> QED BY <1>6, <2>1, <3>1
    <2>5. k \in T
      BY <2>1, <2>3, <2>4
    <2> QED BY <2>5 DEF k
  <1>9. T = 0..N
    <2>1. T \in SUBSET (0..N)
      OBVIOUS
    <2> HIDE DEF T, N
    <2> QED BY <1>2, <1>7, <1>8, <2>1, IntervalInduction
  <1>10. WalkRun(newer, older, f)
    <2>1. 0 \in 0..N /\ \A k \in 1..N : k \in 0..N /\ k # 0
      BY <1>2
    <2>2. f[0] = First /\ \A k \in 1..N : f[k] = Met(newer, older, capped, f[k - 1], k)
      <3> HIDE DEF N
      <3> QED BY <1>6, <2>1
    <2>3. First = WalkFirst(newer, older, first)
      BY DEF First, WalkFirst
    <2> QED BY <1>1, <2>2, <2>3 DEF WalkRun, first, capped
  <1>11. \A k \in 0..N : Walked(S, newer, older, f[k], k)
    <2> HIDE DEF N
    <2> QED BY <1>9
  <1> HIDE DEF f
  <1> QED BY <1>10, <1>11 DEF S

\* What it has there.
LEMMA WalkWalks ==
  ASSUME NEW E, NEW L, NEW newer \in Lines(StatesOf(E, L)), NEW older \in Lines(StatesOf(E, L))
  PROVE  Walked(StatesOf(E, L), newer, older, Walk(newer, older), Len(older))
  <1> DEFINE S == StatesOf(E, L)
  <1>1. PICK f : WalkRun(newer, older, f) /\ \A k \in 0..Len(older) : Walked(S, newer, older, f[k], k)
    BY WalkRuns
  <1>2. Len(older) \in 0..Len(older)
    BY LineFacts
  <1> HIDE DEF S
  <1>3. Walked(S, newer, older, f[Len(older)], Len(older))
    BY <1>1, <1>2
  <1>4. f[Len(older)] = Walk(newer, older)
    BY <1>1 DEF WalkRun
  <1> QED BY <1>3, <1>4 DEF S

----------------------------------------------------------------------------
(* The entries of a join, before its cap.                                  *)

EntryKinds == {"first", "shared", "newer own", "older own", "older current", "capped away", "reconciled", "stood"}

\* States, each with what it is to the join.
EntriesOf(E, L) ==
  {x \in [edit : E, label : L, id : Seq(E \X L), kind : EntryKinds] : x.id # <<>> /\ Last(x.id) = <<x.edit, x.label>>}

\* A state with what it is to the join is an entry, with the state's parts.
LEMMA AsFacts ==
  ASSUME NEW E, NEW L, NEW s \in StatesOf(E, L), NEW kind \in EntryKinds
  PROVE  /\ As(kind, s) \in EntriesOf(E, L)
         /\ As(kind, s).edit = s.edit /\ As(kind, s).id = s.id /\ As(kind, s).label = s.label
         /\ As(kind, s).kind = kind
  <1>1. s.edit \in E /\ s.label \in L /\ s.id \in Seq(E \X L) /\ s.id # <<>> /\ Last(s.id) = <<s.edit, s.label>>
    BY DEF StatesOf
  <1> QED BY <1>1 DEF As, EntriesOf

\* Two sequences with the same edits place by place have the same edits.
LEMMA EditsSame ==
  ASSUME NEW S, NEW T, NEW line \in Seq(S), NEW other \in Seq(T), Len(other) = Len(line),
         \A i \in 1..Len(line) : other[i].edit = line[i].edit
  PROVE  Edits(other) = Edits(line)
  <1>1. DOMAIN line = 1..Len(line) /\ DOMAIN other = 1..Len(line)
    BY LenProperties
  <1> QED BY <1>1 DEF Edits

\* A line's entries rearranged have its edits.
LEMMA PickedEdits ==
  ASSUME NEW S, NEW T, NEW line \in Seq(S), NEW other \in Seq(T), Picked(other, line, 1..Len(line))
  PROVE  Edits(other) = Edits(line)
  <1>1. DOMAIN line = 1..Len(line) /\ DOMAIN other = 1..Len(other)
    BY LenProperties
  <1>2. \A k \in 1..Len(other) : other[k].edit \in Edits(line)
    BY <1>1 DEF Picked, Edits
  <1>3. \A i \in 1..Len(line) : line[i].edit \in Edits(other)
    BY <1>1 DEF Picked, Edits
  <1>4. Edits(other) \subseteq Edits(line)
    BY <1>1, <1>2 DEF Edits
  <1>5. Edits(line) \subseteq Edits(other)
    BY <1>1, <1>3 DEF Edits
  <1> QED BY <1>4, <1>5

\* The states of one kind as entries.
LEMMA AsAllFacts ==
  ASSUME NEW E, NEW L, NEW line \in Seq(StatesOf(E, L)), NEW kind \in EntryKinds
  PROVE  /\ AsAll(kind, line) \in Seq(EntriesOf(E, L))
         /\ Len(AsAll(kind, line)) = Len(line)
         /\ \A i \in 1..Len(line) : AsAll(kind, line)[i] = As(kind, line[i])
         /\ Edits(AsAll(kind, line)) = Edits(line)
  <1> DEFINE all == AsAll(kind, line)
  <1>1. Len(line) \in Nat /\ DOMAIN line = 1..Len(line)
    BY LenProperties
  <1>2. \A i \in 1..Len(line) : As(kind, line[i]) \in EntriesOf(E, L) /\ As(kind, line[i]).edit = line[i].edit
    BY ElementOfSeq, AsFacts
  <1>3. all = [i \in 1..Len(line) |-> As(kind, line[i])]
    BY <1>1 DEF AsAll
  <1> HIDE DEF all
  <1>4. all \in Seq(EntriesOf(E, L)) /\ Len(all) = Len(line) /\ \A i \in 1..Len(line) : all[i] = As(kind, line[i])
    BY <1>1, <1>2, <1>3
  <1>5. Edits(all) = Edits(line)
    BY <1>2, <1>4, EditsSame
  <1> QED BY <1>4, <1>5 DEF all

\* The newer copy's states as entries, each of its kind: its edits, its length and its current.
LEMMA KindsFacts ==
  ASSUME NEW E, NEW L, NEW newer \in Lines(StatesOf(E, L)), NEW shared
  PROVE  /\ Kinds(newer, shared) \in Lines(EntriesOf(E, L))
         /\ Len(Kinds(newer, shared)) = Len(newer)
         /\ \A i \in 1..Len(newer) : \E kind \in EntryKinds : Kinds(newer, shared)[i] = As(kind, newer[i])
         /\ Edits(Kinds(newer, shared)) = Edits(newer)
         /\ LastEdit(Kinds(newer, shared)) = LastEdit(newer)
  <1> DEFINE kind(i) == IF i = 1 THEN "first" ELSE IF i \in shared THEN "shared" ELSE "newer own"
             all == Kinds(newer, shared)
             n == Len(newer)
  <1>1. newer \in Seq(StatesOf(E, L)) /\ n \in Nat \ {0} /\ DOMAIN newer = 1..n /\ Last(newer) = newer[n]
    BY LineFacts
  <1>2. \A i \in 1..n : kind(i) \in EntryKinds
    <2>1. "first" \in EntryKinds /\ "shared" \in EntryKinds /\ "newer own" \in EntryKinds
      BY DEF EntryKinds
    <2>2. ASSUME NEW i \in 1..n PROVE kind(i) \in EntryKinds
      <3>1. kind(i) = "first" \/ kind(i) = "shared" \/ kind(i) = "newer own"
        BY Zenon
      <3> HIDE DEF kind
      <3> QED BY <2>1, <3>1, Zenon
    <2> QED BY <2>2
  <1>3. all = [i \in 1..n |-> As(kind(i), newer[i])]
    BY <1>1 DEF Kinds
  <1> HIDE DEF all, kind
  <1>4. \A i \in 1..n : As(kind(i), newer[i]) \in EntriesOf(E, L) /\ As(kind(i), newer[i]).edit = newer[i].edit
    BY <1>1, <1>2, ElementOfSeq, AsFacts
  <1>5. all \in Seq(EntriesOf(E, L)) /\ Len(all) = n /\ \A i \in 1..n : all[i] = As(kind(i), newer[i])
    BY <1>1, <1>3, <1>4
  <1>6. Edits(all) = Edits(newer)
    BY <1>1, <1>4, <1>5, EditsSame
  <1>7. all # <<>>
    BY <1>1, <1>5, EmptySeq
  <1>8. Last(all) = all[n] /\ n \in 1..n
    BY <1>1, <1>5, <1>7, LastOfSeq
  <1>9. LastEdit(all) = LastEdit(newer)
    BY <1>1, <1>4, <1>5, <1>8 DEF LastEdit
  <1>10. \A i \in 1..n : \E k \in EntryKinds : all[i] = As(k, newer[i])
    BY <1>2, <1>5
  <1> QED BY <1>5, <1>6, <1>7, <1>9, <1>10 DEF all, Lines

\* What capped-away states have of edits, and the sequences of them that a line of n states may get.
BackEdits(capped) == {capped[i].state.edit : i \in DOMAIN capped}
Backs(S, n) == Seq([before : 1..n, state : S])

\* The capped-away states brought back before the states they led to: all of both, and the newer copy's
\* current still the last.
LEMMA BroughtBackFacts ==
  ASSUME NEW E, NEW L, NEW list \in Lines(EntriesOf(E, L)), NEW capped \in Backs(StatesOf(E, L), Len(list))
  PROVE  /\ BroughtBack(list, capped) \in Lines(EntriesOf(E, L))
         /\ Len(BroughtBack(list, capped)) = Len(list) + Len(capped)
         /\ Edits(BroughtBack(list, capped)) = Edits(list) \cup BackEdits(capped)
         /\ LastEdit(BroughtBack(list, capped)) = LastEdit(list)
  <1> DEFINE T == EntriesOf(E, L)
             n == Len(list)
             c == Len(capped)
             a(k) == As("capped away", capped[k].state)
             back == [k \in DOMAIN capped |-> a(k)]
             both == back \o list
             key == [i \in 1..(c + n) |-> IF i <= c THEN capped[i].before ELSE i - c]
             B == BroughtBack(list, capped)
  <1>1. list \in Seq(T) /\ n \in Nat \ {0} /\ DOMAIN list = 1..n /\ Last(list) = list[n]
    BY LineFacts
  <1>2. c \in Nat /\ DOMAIN capped = 1..c
    BY LenProperties DEF Backs
  <1>3. ASSUME NEW k \in 1..c
        PROVE  /\ capped[k].before \in 1..n
               /\ a(k) \in T /\ a(k).edit = capped[k].state.edit
    <2>1. capped[k] \in [before : 1..n, state : StatesOf(E, L)]
      BY ElementOfSeq DEF Backs
    <2>2. capped[k].before \in 1..n /\ capped[k].state \in StatesOf(E, L)
      BY <2>1
    <2> DEFINE s == capped[k].state
               kind == "capped away"
    <2>3. kind \in EntryKinds /\ s \in StatesOf(E, L)
      BY <2>2 DEF EntryKinds
    <2>4. a(k) = As(kind, s)
      OBVIOUS
    <2> HIDE DEF kind, a
    <2> QED BY <2>2, <2>3, <2>4, AsFacts
  <1>4. B = ByKey(both, key)
    BY DEF BroughtBack
  <1> HIDE DEF T, B, a
  <1>5. back \in Seq(T) /\ Len(back) = c /\ \A k \in 1..c : back[k].edit = capped[k].state.edit
    BY <1>2, <1>3
  <1>6. Edits(back) = BackEdits(capped)
    <2>1. DOMAIN back = 1..c
      BY <1>2
    <2> HIDE DEF back
    <2> QED BY <1>2, <1>5, <2>1 DEF Edits, BackEdits
  <1> HIDE DEF back
  <1>7. /\ both \in Seq(T) /\ Len(both) = c + n
        /\ \A i \in 1..(c + n) : both[i] = IF i <= c THEN back[i] ELSE list[i - c]
    <2>1. /\ both \in Seq(T) /\ Len(both) = Len(back) + n
          /\ \A i \in 1..(Len(back) + n) : both[i] = IF i <= Len(back) THEN back[i] ELSE list[i - Len(back)]
      BY <1>1, <1>5, ConcatProperties
    <2> QED BY <1>5, <2>1
  <1>8. Edits(both) = Edits(list) \cup BackEdits(capped)
    BY <1>1, <1>5, <1>6, EditsConcat
  <1> HIDE DEF both
  <1>9. \A i \in 1..Len(both) : key[i] \in Int /\ key[i] <= n
    <2>1. ASSUME NEW i \in 1..(c + n) PROVE key[i] \in Int /\ key[i] <= n
      <3>1. CASE i <= c
        <4>1. i \in 1..c
          BY <1>2, <3>1
        <4>2. key[i] = capped[i].before
          BY <3>1
        <4>3. capped[i].before \in 1..n
          BY <1>3, <4>1
        <4> HIDE DEF key
        <4> QED BY <1>1, <4>2, <4>3
      <3>2. CASE ~(i <= c)
        BY <1>1, <1>2, <3>2
      <3> QED BY <3>1, <3>2
    <2> QED BY <1>7, <2>1
  <1>10. key[Len(both)] = n /\ both # <<>> /\ both[Len(both)] = list[n]
    <2>1. c + n \in 1..(c + n) /\ ~(c + n <= c) /\ (c + n) - c = n
      BY <1>1, <1>2
    <2>2. Len(both) > 0
      BY <1>1, <1>2, <1>7
    <2> QED BY <1>7, <2>1, <2>2, EmptySeq
  <1> HIDE DEF key
  <1>11. /\ B \in Seq(T) /\ Len(B) = Len(both) /\ Picked(B, both, 1..Len(both))
         /\ B[Len(both)] = both[Len(both)]
    BY <1>4, <1>7, <1>9, <1>10, ByKeyFacts
  <1>12. B # <<>> /\ Last(B) = list[n]
    <2>1. B # <<>>
      BY <1>1, <1>2, <1>7, <1>11, EmptySeq
    <2> QED BY <2>1, <1>10, <1>11, LastOfSeq
  <1>13. Edits(B) = Edits(both)
    BY <1>7, <1>11, PickedEdits
  <1>14. LastEdit(B) = LastEdit(list)
    BY <1>1, <1>12 DEF LastEdit
  <1>15. Len(B) = n + c
    BY <1>1, <1>2, <1>7, <1>11
  <1> QED BY <1>8, <1>11, <1>12, <1>13, <1>14, <1>15 DEF Lines, B, T

\* The last of two lines, one after the other, is the last of the second.
LEMMA ConcatLast ==
  ASSUME NEW T, NEW list \in Seq(T), NEW tail \in Lines(T)
  PROVE  /\ list \o tail \in Lines(T) /\ Len(list \o tail) = Len(list) + Len(tail)
         /\ Last(list \o tail) = Last(tail)
  <1> DEFINE more == list \o tail
  <1>1. tail \in Seq(T) /\ Len(tail) \in Nat \ {0} /\ Last(tail) = tail[Len(tail)] /\ Len(list) \in Nat
    BY LineFacts, LenProperties
  <1>2. /\ more \in Seq(T) /\ Len(more) = Len(list) + Len(tail)
        /\ \A i \in 1..(Len(list) + Len(tail)) : more[i] = IF i <= Len(list) THEN list[i] ELSE tail[i - Len(list)]
    BY <1>1, ConcatProperties
  <1> HIDE DEF more
  <1>3. more # <<>> /\ Last(more) = more[Len(more)]
    <2>1. Len(more) > 0
      BY <1>1, <1>2
    <2> QED BY <1>2, <2>1, EmptySeq, LastOfSeq
  <1>4. more[Len(list) + Len(tail)] = tail[Len(tail)]
    <2>1. /\ Len(list) + Len(tail) \in 1..(Len(list) + Len(tail)) /\ ~(Len(list) + Len(tail) <= Len(list))
          /\ (Len(list) + Len(tail)) - Len(list) = Len(tail)
      BY <1>1
    <2> QED BY <1>2, <2>1
  <1> QED BY <1>1, <1>2, <1>3, <1>4 DEF Lines, more

\* The list ends in the state, and the edit on top of it, recorded again.
EndsIn(list, s, top) ==
  /\ Len(list) >= 2
  /\ list[Len(list) - 1].id = s.id /\ list[Len(list) - 1].edit = s.edit
  /\ list[Len(list)].edit = top /\ list[Len(list)].kind = "reconciled"

\* The newer copy's edit recorded again, if it is not on top: then the list ends in what was there and it.
LEMMA OnTopFacts ==
  ASSUME NEW E, NEW L, NEW list \in Lines(EntriesOf(E, L)), NEW top \in E, NEW host, Reconciled(host) \in L
  PROVE  /\ OnTop(list, top, host) \in Lines(EntriesOf(E, L))
         /\ Edits(list) \subseteq Edits(OnTop(list, top, host))
         /\ Len(OnTop(list, top, host)) = Len(list) + (IF LastEdit(list) = top THEN 0 ELSE 1)
         /\ \A s \in StatesOf(E, L) :
              LastEdit(list) # top /\ Last(list).id = s.id /\ Last(list).edit = s.edit =>
                EndsIn(OnTop(list, top, host), s, top)
  <1> DEFINE T == EntriesOf(E, L)
             x == As("reconciled", State(Last(list).id, top, Reconciled(host)))
             n == Len(list)
             O == OnTop(list, top, host)
             more == Append(list, x)
  <1>1. list \in Seq(T) /\ n \in Nat \ {0} /\ Last(list) = list[n] /\ Last(list) \in T
    BY LineFacts
  <1>2. x \in T /\ x.edit = top /\ x.kind = "reconciled"
    <2> DEFINE kind == "reconciled"
               r == State(Last(list).id, top, Reconciled(host))
    <2>1. Last(list).id \in Seq(E \X L)
      BY <1>1 DEF EntriesOf
    <2>2. r \in StatesOf(E, L) /\ r.edit = top
      <3> DEFINE id == Last(list).id
                 label == Reconciled(host)
      <3>1. id \in Seq(E \X L) /\ label \in L
        BY <2>1
      <3>2. r = State(id, top, label)
        OBVIOUS
      <3> HIDE DEF id, label, r
      <3> QED BY <3>1, <3>2, StateFacts
    <2>3. kind \in EntryKinds
      BY DEF EntryKinds
    <2> HIDE DEF r, kind
    <2>4. As(kind, r) \in T /\ As(kind, r).edit = r.edit /\ As(kind, r).kind = kind
      BY <2>2, <2>3, AsFacts
    <2> QED BY <2>2, <2>4 DEF r, kind
  <1>3. O = IF LastEdit(list) = top THEN list ELSE more
    BY DEF OnTop, RecordedAgain
  <1> HIDE DEF T, x, O
  <1>4. CASE LastEdit(list) = top
    BY <1>1, <1>3, <1>4 DEF O, T
  <1>5. CASE LastEdit(list) # top
    <2>1. O = more
      BY <1>3, <1>5
    <2>2. /\ more \in Seq(T) /\ more # <<>> /\ Len(more) = n + 1
          /\ \A i \in 1..n : more[i] = list[i]
          /\ more[n + 1] = x
      BY <1>1, <1>2, AppendProperties
    <2>3. Edits(more) = Edits(list) \cup {x.edit}
      BY <1>1, <1>2, EditsAppend
    <2> HIDE DEF more
    <2>4. ASSUME NEW s \in StatesOf(E, L), Last(list).id = s.id, Last(list).edit = s.edit PROVE EndsIn(more, s, top)
      <3>1. Len(more) - 1 = n /\ n \in 1..n /\ Len(more) >= 2
        BY <1>1, <2>2
      <3>2. more[Len(more) - 1] = Last(list) /\ more[Len(more)] = x
        BY <1>1, <2>2, <3>1
      <3> QED BY <1>2, <2>4, <3>1, <3>2 DEF EndsIn
    <2>5. O \in Lines(T) /\ Edits(list) \subseteq Edits(O) /\ Len(O) = n + 1
      BY <2>1, <2>2, <2>3 DEF Lines
    <2> QED BY <1>1, <1>5, <2>1, <2>4, <2>5 DEF O, T
  <1> QED BY <1>4, <1>5

\* The older branch after a list: its current by the kind of it, if it is the last of the branch.
Pushed(list, own, current) ==
  IF own # <<>> /\ Last(own) = current
  THEN list \o AsAll("older own", Front(own)) \o <<As("older current", current)>>
  ELSE list \o AsAll("older own", own)

\* The older branch after a list: all of both, and the older copy's current last if it is the branch's last.
LEMMA PushedFacts ==
  ASSUME NEW E, NEW L, NEW list \in Lines(EntriesOf(E, L)), NEW own \in Seq(StatesOf(E, L)),
         NEW current \in StatesOf(E, L)
  PROVE  /\ Pushed(list, own, current) \in Lines(EntriesOf(E, L))
         /\ Edits(Pushed(list, own, current)) = Edits(list) \cup Edits(own)
         /\ Len(Pushed(list, own, current)) = Len(list) + Len(own)
         /\ LastEdit(Pushed(list, own, current)) = IF own = <<>> THEN LastEdit(list) ELSE LastEdit(own)
         /\ own # <<>> /\ Last(own) = current =>
              Last(Pushed(list, own, current)).id = current.id /\ Last(Pushed(list, own, current)).edit = current.edit
  <1> DEFINE S == StatesOf(E, L)
             T == EntriesOf(E, L)
             P == Pushed(list, own, current)
             all == AsAll("older own", own)
             rest == AsAll("older own", Front(own))
             x == As("older current", current)
  <1>1. list \in Seq(T) /\ Len(list) \in Nat \ {0} /\ Len(own) \in Nat
    BY LineFacts, LenProperties
  <1>k. "older own" \in EntryKinds /\ "older current" \in EntryKinds
    BY DEF EntryKinds
  <1>2. CASE own # <<>> /\ Last(own) = current
    <2>1. /\ Front(own) \in Seq(S) /\ Len(Front(own)) = Len(own) - 1 /\ own[Len(own)] = current
          /\ own = Append(Front(own), current)
      <3>1. Len(own) \in Nat \ {0} /\ own[Len(own)] = current
        BY <1>2, LastOfSeq
      <3>2. \A i \in 1..(Len(own) - 1) : own[i] \in S
        BY <3>1, ElementOfSeq
      <3>3. /\ Front(own) \in Seq(S) /\ Len(Front(own)) = Len(own) - 1
            /\ \A i \in 1..(Len(own) - 1) : Front(own)[i] = own[i]
        <4> DEFINE n == Len(own) - 1
        <4>1. Front(own) = SubSeq(own, 1, n) /\ n \in Nat
          BY <3>1 DEF Front
        <4>2. \A i \in 1..n : own[i] \in S
          BY <3>2
        <4> HIDE DEF S, n
        <4>3. /\ SubSeq(own, 1, n) \in Seq(S) /\ Len(SubSeq(own, 1, n)) = n
              /\ \A i \in 1..n : SubSeq(own, 1, n)[i] = own[i]
          <5>1. /\ SubSeq(own, 1, n) \in Seq(S)
                /\ Len(SubSeq(own, 1, n)) = IF 1 <= n THEN n - 1 + 1 ELSE 0
                /\ \A i \in 1..(n - 1 + 1) : SubSeq(own, 1, n)[i] = own[1 + i - 1]
            BY <4>1, <4>2, SubSeqProperties
          <5> QED BY <4>1, <5>1
        <4> QED BY <4>1, <4>3 DEF n
      <3>4. /\ Append(Front(own), current) \in Seq(S)
            /\ Len(Append(Front(own), current)) = Len(own)
            /\ \A i \in 1..Len(own) : Append(Front(own), current)[i] = own[i]
        <4> DEFINE f == Front(own)
                   more == Append(f, current)
        <4>1. /\ more \in Seq(S) /\ Len(more) = Len(f) + 1
              /\ \A i \in 1..Len(f) : more[i] = f[i]
              /\ more[Len(f) + 1] = current
          BY <3>3, AppendProperties
        <4> HIDE DEF more, f
        <4>2. Len(more) = Len(own) /\ more[Len(own)] = current /\ \A i \in 1..(Len(own) - 1) : more[i] = own[i]
          BY <3>1, <3>3, <4>1 DEF f
        <4>3. \A i \in 1..Len(own) : more[i] = own[i]
          BY <3>1, <4>2
        <4> QED BY <4>1, <4>2, <4>3 DEF more, f
      <3> QED BY <3>1, <3>3, <3>4, SeqEqual
    <2>2. Edits(own) = Edits(Front(own)) \cup {current.edit}
      BY <2>1, EditsAppend
    <2> DEFINE kind == "older own"
               current_kind == "older current"
    <2>3. rest \in Seq(T) /\ Len(rest) = Len(own) - 1 /\ Edits(rest) = Edits(Front(own))
      <3>1. kind \in EntryKinds
        BY <1>k
      <3>2. rest = AsAll(kind, Front(own))
        OBVIOUS
      <3> HIDE DEF kind, rest
      <3> QED BY <2>1, <3>1, <3>2, AsAllFacts
    <2>4. x \in T /\ x.edit = current.edit /\ x.id = current.id
      <3>1. current_kind \in EntryKinds
        BY <1>k
      <3>2. x = As(current_kind, current)
        OBVIOUS
      <3> HIDE DEF current_kind, x
      <3> QED BY <3>1, <3>2, AsFacts
    <2>5. P = (list \o rest) \o <<x>>
      BY <1>2 DEF Pushed
    <2> HIDE DEF P, rest, x, kind, current_kind, T
    <2>6. list \o rest \in Seq(T) /\ Len(list \o rest) = Len(list) + (Len(own) - 1)
      BY <1>1, <2>3, ConcatProperties
    <2>7. Edits(list \o rest) = Edits(list) \cup Edits(Front(own))
      BY <1>1, <2>3, EditsConcat
    <2> DEFINE both == list \o rest
               end == <<x>>
    <2>8. end \in Lines(T) /\ end \in Seq(T) /\ Len(end) = 1 /\ Last(end) = x /\ Edits(end) = {x.edit}
      <3>1. end \in Seq(T) /\ Len(end) = 1 /\ end[1] = x /\ end # <<>> /\ DOMAIN end = 1..1
        BY <2>4
      <3> HIDE DEF end
      <3>2. Edits(end) = {x.edit}
        BY <3>1 DEF Edits
      <3> QED BY <3>1, <3>2, LastOfSeq DEF Lines
    <2> HIDE DEF both, end
    <2>9. P = both \o end /\ both \in Seq(T)
      BY <2>5, <2>6 DEF both, end
    <2>10. P \in Lines(T) /\ Len(P) = Len(both) + 1 /\ Last(P) = x
      <3>1. both \o end \in Lines(T) /\ Len(both \o end) = Len(both) + Len(end) /\ Last(both \o end) = Last(end)
        BY <2>8, <2>9, ConcatLast
      <3> QED BY <2>8, <2>9, <3>1
    <2>11. Edits(P) = Edits(both) \cup {x.edit}
      BY <2>8, <2>9, EditsConcat
    <2>12. Len(P) = Len(list) + Len(own)
      BY <1>1, <2>6, <2>10 DEF both
    <2>13. Edits(P) = Edits(list) \cup Edits(own)
      BY <2>2, <2>4, <2>7, <2>11 DEF both
    <2>14. LastEdit(P) = LastEdit(own)
      BY <1>2, <2>4, <2>10 DEF LastEdit
    <2> QED BY <1>2, <2>4, <2>10, <2>12, <2>13, <2>14 DEF P, T
  <1>3. CASE ~(own # <<>> /\ Last(own) = current)
    <2> DEFINE kind == "older own"
    <2>1. /\ all \in Seq(T) /\ Len(all) = Len(own) /\ Edits(all) = Edits(own)
          /\ \A i \in 1..Len(own) : all[i] = As(kind, own[i])
      <3>1. kind \in EntryKinds
        BY <1>k
      <3>2. all = AsAll(kind, own)
        OBVIOUS
      <3> HIDE DEF kind, all
      <3> QED BY <3>1, <3>2, AsAllFacts
    <2>2. P = list \o all
      BY <1>3 DEF Pushed
    <2>k. kind \in EntryKinds
      BY <1>k
    <2> HIDE DEF P, all, T, kind
    <2>3. Edits(P) = Edits(list) \cup Edits(own) /\ P \in Seq(T) /\ Len(P) = Len(list) + Len(own)
      <3>1. Edits(list \o all) = Edits(list) \cup Edits(all)
        BY <1>1, <2>1, EditsConcat
      <3>2. list \o all \in Seq(T) /\ Len(list \o all) = Len(list) + Len(all)
        BY <1>1, <2>1, ConcatProperties
      <3> QED BY <2>1, <2>2, <3>1, <3>2
    <2>4. P # <<>>
      BY <1>1, <2>3, EmptySeq
    <2>5. LastEdit(P) = IF own = <<>> THEN LastEdit(list) ELSE LastEdit(own)
      <3>1. CASE own = <<>>
        <4>1. Len(all) = 0
          BY <2>1, <3>1
        <4>2. all = <<>>
          BY <2>1, <4>1, EmptySeq
        <4>3. P = list
          BY <1>1, <2>2, <4>2, ConcatEmptySeq
        <4> QED BY <3>1, <4>3
      <3>2. CASE own # <<>>
        <4>1. Len(own) \in Nat \ {0} /\ Last(own) = own[Len(own)] /\ Last(own) \in S
          BY <3>2, LastOfSeq
        <4>2. all # <<>>
          BY <2>1, <4>1, EmptySeq
        <4>3. all \in Lines(T) /\ Last(all) = all[Len(own)]
          BY <2>1, <4>2, LastOfSeq DEF Lines
        <4>4. Last(P) = Last(all)
          BY <1>1, <2>2, <4>3, ConcatLast
        <4>5. Last(all) = As(kind, Last(own))
          BY <2>1, <4>1, <4>3
        <4>7. Last(all).edit = Last(own).edit
          BY <4>1, <4>5, <2>k, AsFacts
        <4> QED BY <3>2, <4>4, <4>7 DEF LastEdit
      <3> QED BY <3>1, <3>2
    <2> QED BY <1>3, <2>3, <2>4, <2>5 DEF Lines, P, T
  <1> QED BY <1>2, <1>3

\* What the older copy's current is to a join: said in the newer copy, or the last of its own.
Stands(own, current, said) == said \/ (own # <<>> /\ Last(own) = current)

\* One more entry, if the newer copy's current is not on top.
Extra(newer, own) == IF (IF own = <<>> THEN LastEdit(newer) ELSE LastEdit(own)) = LastEdit(newer) THEN 0 ELSE 1

\* The older branch pushed and the newer copy's edit put on top: nothing of either goes, and the older
\* copy's current, if it ends the branch with another edit, is the one below.
LEMMA BranchedFacts ==
  ASSUME NEW E, NEW L, NEW list \in Lines(EntriesOf(E, L)), NEW own \in Seq(StatesOf(E, L)),
         NEW current \in StatesOf(E, L), NEW said, Stands(own, current, said),
         NEW top \in E, LastEdit(list) = top, NEW host, Reconciled(host) \in L
  PROVE  /\ Branched(list, own, current, said, top, host) \in Lines(EntriesOf(E, L))
         /\ Edits(list) \cup Edits(own) \subseteq Edits(Branched(list, own, current, said, top, host))
         /\ Len(Branched(list, own, current, said, top, host)) = Len(list) + Len(own) + Extra(list, own)
         /\ own # <<>> /\ Last(own) = current /\ current.edit # top =>
              EndsIn(Branched(list, own, current, said, top, host), current, top)
  <1> DEFINE T == EntriesOf(E, L)
             P == Pushed(list, own, current)
             B == Branched(list, own, current, said, top, host)
  <1>1. B = OnTop(P, top, host)
    <2>1. CASE own # <<>> /\ Last(own) = current
      BY <2>1, Zenon DEF Branched, Pushed
    <2>2. CASE ~(own # <<>> /\ Last(own) = current)
      <3>1. said
        BY <2>2 DEF Stands
      <3> QED BY <2>2, <3>1, Zenon DEF Branched, Pushed
    <2> QED BY <2>1, <2>2
  <1>2. /\ P \in Lines(T)
        /\ Edits(P) = Edits(list) \cup Edits(own)
        /\ Len(P) = Len(list) + Len(own)
        /\ LastEdit(P) = IF own = <<>> THEN LastEdit(list) ELSE LastEdit(own)
        /\ own # <<>> /\ Last(own) = current => Last(P).id = current.id /\ Last(P).edit = current.edit
    BY PushedFacts
  <1> HIDE DEF P, B
  <1>3. /\ B \in Lines(T)
        /\ Edits(P) \subseteq Edits(B)
        /\ Len(B) = Len(P) + (IF LastEdit(P) = top THEN 0 ELSE 1)
        /\ LastEdit(P) # top /\ Last(P).id = current.id /\ Last(P).edit = current.edit => EndsIn(B, current, top)
    BY <1>1, <1>2, OnTopFacts
  <1>4. (IF LastEdit(P) = top THEN 0 ELSE 1) = Extra(list, own)
    BY <1>2 DEF Extra
  <1>5. ASSUME own # <<>>, Last(own) = current, current.edit # top PROVE EndsIn(B, current, top)
    <2>1. LastEdit(P) = current.edit
      BY <1>2, <1>5 DEF LastEdit
    <2> QED BY <1>2, <1>3, <1>5, <2>1
  <1>6. Edits(list) \cup Edits(own) \subseteq Edits(B) /\ Len(B) = Len(list) + Len(own) + Extra(list, own)
    BY <1>2, <1>3, <1>4
  <1> QED BY <1>3, <1>5, <1>6 DEF B

\* Of the capped-away states all are brought back, or the list will be full (join_line's room).
LEMMA RoomFacts ==
  ASSUME NEW S, NEW newer \in Lines(S), NEW own \in Seq(S), NEW current \in S, NEW said,
         Stands(own, current, said), NEW capped \in Backs(S, Len(newer))
  PROVE  /\ Room(newer, own, current, said, capped) \in Backs(S, Len(newer))
         /\ \/ Room(newer, own, current, said, capped) = capped
            \/ Len(newer) + Len(Room(newer, own, current, said, capped)) + Len(own) + Extra(newer, own) >= History + 1
  <1> DEFINE tip == IF own = <<>> THEN LastEdit(newer) ELSE LastEdit(own)
             isOwn == own # <<>> /\ Last(own) = current
             willStand == ~isOwn /\ ~said /\ tip # current.edit
             willReconcile == (IF willStand THEN current.edit ELSE tip) # LastEdit(newer)
             extra == (IF willStand THEN 1 ELSE 0) + (IF willReconcile THEN 1 ELSE 0)
             room == History + 1 - (Len(newer) + Len(own) + extra)
             R == Room(newer, own, current, said, capped)
             c == Len(capped)
             cut == SubSeq(capped, c - room + 1, c)
             B == [before : 1..Len(newer), state : S]
  <1>1. R = IF room <= 0 THEN <<>> ELSE IF c > room THEN cut ELSE capped
    BY DEF Room
  <1>2. extra = Extra(newer, own)
    <2>1. ~willStand
      BY DEF Stands
    <2>2. willReconcile <=> tip # LastEdit(newer)
      BY <2>1
    <2>3. Extra(newer, own) = IF tip = LastEdit(newer) THEN 0 ELSE 1
      BY DEF Extra
    <2> HIDE DEF willStand, willReconcile, tip
    <2> QED BY <2>1, <2>2, <2>3
  <1>3. Extra(newer, own) \in {0, 1}
    BY DEF Extra
  <1> HIDE DEF extra, R
  <1>4. Len(newer) \in Nat /\ Len(own) \in Nat /\ c \in Nat /\ room \in Int /\ capped \in Seq(B) /\ History \in Nat
    BY <1>2, <1>3, LineFacts, LenProperties, HistoryAssumption DEF Backs
  <1>5. CASE room <= 0
    <2>1. R = <<>> /\ <<>> \in Seq(B) /\ Len(<<>>) = 0
      BY <1>1, <1>5, EmptySeq
    <2>2. Len(newer) + 0 + Len(own) + Extra(newer, own) >= History + 1
      BY <1>2, <1>3, <1>4, <1>5
    <2> QED BY <2>1, <2>2 DEF R, Backs
  <1>6. CASE ~(room <= 0) /\ c > room
    <2> DEFINE from == c - room + 1
    <2>1. R = cut
      BY <1>1, <1>6
    <2>2. from \in 1..c /\ c - from + 1 = room
      BY <1>4, <1>6
    <2>3. \A i \in from..c : capped[i] \in B
      <3> HIDE DEF from, B
      <3>1. \A i \in from..c : i \in 1..c
        BY <1>4, <2>2
      <3> QED BY <1>4, <3>1, ElementOfSeq
    <2>4. cut \in Seq(B) /\ Len(cut) = room
      <3> HIDE DEF B, room
      <3>1. SubSeq(capped, from, c) \in Seq(B) /\ Len(SubSeq(capped, from, c)) = IF from <= c THEN c - from + 1 ELSE 0
        <4> HIDE DEF from
        <4> QED BY <1>4, <2>2, <2>3, SubSeqProperties
      <3> HIDE DEF from
      <3>2. Len(SubSeq(capped, from, c)) = room
        BY <1>4, <2>2, <3>1
      <3> QED BY <3>1, <3>2 DEF from
    <2>5. Len(newer) + room + Len(own) + Extra(newer, own) >= History + 1
      BY <1>2, <1>3, <1>4
    <2> HIDE DEF cut, room
    <2> QED BY <2>1, <2>4, <2>5 DEF R, Backs
  <1>7. CASE ~(room <= 0) /\ ~(c > room)
    <2>1. R = capped
      BY <1>1, <1>7
    <2> QED BY <2>1 DEF R
  <1> QED BY <1>5, <1>6, <1>7

\* Before its cap a join has the newer copy's edits, and the older copy's or a full list; and the older
\* copy's current, if its edit is not in the newer copy, below the newer copy's edit.
LEMMA JoinedFacts ==
  ASSUME NEW E, NEW L, NEW newer \in Lines(StatesOf(E, L)), NEW older \in Lines(StatesOf(E, L)),
         NEW w, Walked(StatesOf(E, L), newer, older, w, Len(older)), NEW host, Reconciled(host) \in L,
         NEW said, said = Said(newer, Last(older)),
         NEW back, back = Room(newer, w.own, Last(older), said, w.capped)
  PROVE  /\ Joined(newer, older, w, back, said, host) \in Lines(EntriesOf(E, L))
         /\ Edits(newer) \subseteq Edits(Joined(newer, older, w, back, said, host))
         /\ \/ Edits(older) \subseteq Edits(Joined(newer, older, w, back, said, host))
            \/ Len(Joined(newer, older, w, back, said, host)) >= History + 1
         /\ LastEdit(older) \notin Edits(newer) =>
              EndsIn(Joined(newer, older, w, back, said, host), Last(older), LastEdit(newer))
  <1> DEFINE S == StatesOf(E, L)
             T == EntriesOf(E, L)
             current == Last(older)
             list == Kinds(newer, SharedStates(newer, w.shared))
             brought == BroughtBack(list, back)
             J == Joined(newer, older, w, back, said, host)
             own == w.own
  <1>1. /\ Len(newer) \in Nat \ {0} /\ LastEdit(newer) \in Edits(newer)
        /\ current \in S /\ Len(older) \in Nat \ {0} /\ current = older[Len(older)]
        /\ LastEdit(newer) \in E
    <2>1. Last(newer) \in S
      BY LineFacts
    <2>2. LastEdit(newer) \in E
      BY <2>1, IdOfState DEF LastEdit
    <2> QED BY <2>2, LineFacts
  <1>2. /\ w \in Walks(S, newer) /\ own \in Seq(S) /\ w.capped \in Backs(S, Len(newer))
        /\ Edits(older) \subseteq Had(newer, w)
        /\ Stands(own, current, said)
    <2>1. w \in Walks(S, newer)
      BY DEF Walked
    <2>2. own \in Seq(S) /\ w.capped \in Backs(S, Len(newer))
      BY <2>1 DEF Walks, Backs
    <2>3. Edits(older) \subseteq Had(newer, w)
      <3>1. \A j \in 1..Len(older) : older[j].edit \in Had(newer, w)
        BY <1>1 DEF Walked
      <3>2. DOMAIN older = 1..Len(older)
        BY LineFacts
      <3> QED BY <3>1, <3>2 DEF Edits
    <2>4. Placed(newer, w, current)
      BY <1>1 DEF Walked
    <2> QED BY <2>1, <2>2, <2>3, <2>4 DEF Placed, Stands
  <1>3. /\ list \in Lines(T) /\ Len(list) = Len(newer) /\ Edits(list) = Edits(newer) /\ LastEdit(list) = LastEdit(newer)
    BY KindsFacts
  <1>4. /\ back \in Backs(S, Len(newer))
        /\ back = w.capped \/ Len(newer) + Len(back) + Len(own) + Extra(newer, own) >= History + 1
    BY <1>1, <1>2, RoomFacts
  <1>5. J = IF own = <<>> /\ back = <<>> /\ said THEN list
            ELSE Branched(brought, own, current, said, LastEdit(newer), host)
    BY DEF Joined
  <1>6. back = w.capped => Edits(older) \subseteq Edits(newer) \cup Edits(own) \cup BackEdits(back)
    BY <1>2 DEF Had, BackEdits
  <1>7. ASSUME LastEdit(older) \notin Edits(newer) PROVE ~said /\ current.edit # LastEdit(newer)
    <2>1. current.edit \notin Edits(newer)
      BY <1>7 DEF LastEdit
    <2>2. ById(newer, current) = 0
      BY <1>1, <2>1, FoundEdit
    <2>3. ~(\E i \in DOMAIN newer : newer[i].edit = current.edit)
      BY <2>1 DEF Edits
    <2> QED BY <1>1, <2>1, <2>2, <2>3 DEF Said
  <1> HIDE DEF J, list, current, T
  <1>8. CASE own = <<>> /\ back = <<>> /\ said
    <2>1. J = list
      BY <1>5, <1>8
    <2>2. BackEdits(back) = {} /\ Edits(own) = {} /\ Len(own) = 0 /\ Len(back) = 0 /\ Extra(newer, own) = 0
      <3>1. Edits(<<>>) = {} /\ BackEdits(<<>>) = {}
        <4>1. DOMAIN <<>> = {}
          OBVIOUS
        <4> QED BY <4>1, Zenon DEF Edits, BackEdits
      <3>2. Extra(newer, own) = 0
        BY <1>8 DEF Extra
      <3> QED BY <1>8, <3>1, <3>2, EmptySeq
    <2>3. Edits(older) \subseteq Edits(J) \/ Len(J) >= History + 1
      <3>1. CASE back = w.capped
        BY <1>3, <1>6, <2>1, <2>2, <3>1
      <3>2. CASE Len(newer) + Len(back) + Len(own) + Extra(newer, own) >= History + 1
        BY <1>1, <1>3, <2>1, <2>2, <3>2
      <3> QED BY <1>4, <3>1, <3>2
    <2>4. ~(LastEdit(older) \notin Edits(newer))
      BY <1>7, <1>8
    <2> QED BY <1>3, <2>1, <2>3, <2>4 DEF J, T
  <1>9. CASE ~(own = <<>> /\ back = <<>> /\ said)
    <2>1. J = Branched(brought, own, current, said, LastEdit(newer), host)
      BY <1>5, <1>9
    <2>2. /\ brought \in Lines(T)
          /\ Len(brought) = Len(newer) + Len(back)
          /\ Edits(brought) = Edits(newer) \cup BackEdits(back)
          /\ LastEdit(brought) = LastEdit(newer)
      <3>1. back \in Backs(S, Len(list))
        BY <1>3, <1>4
      <3>2. list \in Lines(EntriesOf(E, L))
        BY <1>3 DEF T
      <3>3. /\ brought \in Lines(EntriesOf(E, L))
            /\ Len(brought) = Len(list) + Len(back)
            /\ Edits(brought) = Edits(list) \cup BackEdits(back)
            /\ LastEdit(brought) = LastEdit(list)
        BY <3>1, <3>2, BroughtBackFacts
      <3> QED BY <1>3, <3>3 DEF T
    <2>3. Extra(brought, own) = Extra(newer, own)
      BY <2>2 DEF Extra
    <2> HIDE DEF brought, own
    <2>4. /\ J \in Lines(T)
          /\ Edits(brought) \cup Edits(own) \subseteq Edits(J)
          /\ Len(J) = Len(brought) + Len(own) + Extra(brought, own)
          /\ own # <<>> /\ Last(own) = current /\ current.edit # LastEdit(newer) => EndsIn(J, current, LastEdit(newer))
      BY <1>1, <1>2, <2>1, <2>2, BranchedFacts DEF T
    <2>5. Edits(older) \subseteq Edits(J) \/ Len(J) >= History + 1
      <3>1. CASE back = w.capped
        BY <1>6, <2>2, <2>4, <3>1
      <3>2. CASE Len(newer) + Len(back) + Len(own) + Extra(newer, own) >= History + 1
        BY <2>2, <2>3, <2>4, <3>2
      <3> QED BY <1>4, <3>1, <3>2
    <2>6. ASSUME LastEdit(older) \notin Edits(newer) PROVE EndsIn(J, current, LastEdit(newer))
      <3>1. ~said /\ current.edit # LastEdit(newer)
        BY <1>7, <2>6
      <3>2. own # <<>> /\ Last(own) = current
        BY <1>2, <3>1 DEF Stands
      <3> QED BY <2>4, <3>1, <3>2
    <2>7. Edits(newer) \subseteq Edits(J)
      BY <2>2, <2>4
    <2> QED BY <2>4, <2>5, <2>6, <2>7 DEF J, T, current
  <1> QED BY <1>8, <1>9
----------------------------------------------------------------------------
(* The line of a join.                                                     *)

\* Without what they are to the join, entries are states: bare leaves their edits and ids.
LEMMA BareFacts ==
  ASSUME NEW E, NEW L, NEW list \in Lines(EntriesOf(E, L))
  PROVE  /\ Bare(list) \in Lines(StatesOf(E, L))
         /\ Len(Bare(list)) = Len(list)
         /\ \A i \in 1..Len(list) : Bare(list)[i].edit = list[i].edit
         /\ Edits(Bare(list)) = Edits(list)
  <1> DEFINE T == EntriesOf(E, L)
             S == StatesOf(E, L)
             n == Len(list)
             B == Bare(list)
             bare(x) == [edit |-> x.edit, label |-> x.label, id |-> x.id]
  <1>1. list \in Seq(T) /\ n \in Nat \ {0} /\ DOMAIN list = 1..n /\ \A i \in 1..n : list[i] \in T
    BY LineFacts
  <1>2. \A x \in T : bare(x) \in S /\ bare(x).edit = x.edit
    BY DEF EntriesOf, StatesOf
  <1>3. B = [i \in 1..n |-> bare(list[i])]
    BY <1>1 DEF Bare
  <1> HIDE DEF B, bare, S, T
  <1>4. B \in Seq(S) /\ Len(B) = n /\ \A i \in 1..n : B[i] = bare(list[i])
    BY <1>1, <1>2, <1>3
  <1>5. \A i \in 1..n : B[i].edit = list[i].edit
    BY <1>1, <1>2, <1>4
  <1>6. Edits(B) = Edits(list)
    BY <1>1, <1>4, <1>5, EditsSame
  <1>7. B # <<>>
    BY <1>1, <1>4, EmptySeq
  <1> QED BY <1>4, <1>5, <1>6, <1>7 DEF B, S, Lines

\* The join's cap leaves a full line, or every edit; and of a list that ends in the older copy's
\* current and the newer copy's edit on top of it, it keeps those two in their places.
LEMMA CappedFacts ==
  ASSUME NEW E, NEW L, NEW list \in Lines(EntriesOf(E, L)), NEW current \in StatesOf(E, L), NEW top
  PROVE  /\ Bare(CapJoin(list, Protected(list, current))) \in Lines(StatesOf(E, L))
         /\ \/ Edits(Bare(CapJoin(list, Protected(list, current)))) = Edits(list)
            \/ Len(Bare(CapJoin(list, Protected(list, current)))) >= History + 1
         /\ Len(list) >= History + 1 => Len(Bare(CapJoin(list, Protected(list, current)))) >= History + 1
         /\ EndsIn(list, current, top) =>
              /\ LastEdit(Bare(CapJoin(list, Protected(list, current)))) = top
              /\ Len(Bare(CapJoin(list, Protected(list, current)))) >= 2
              /\ Bare(CapJoin(list, Protected(list, current)))[Len(Bare(CapJoin(list, Protected(list, current)))) - 1].edit
                   = current.edit
  <1> DEFINE T == EntriesOf(E, L)
             kept == Protected(list, current)
             C == CapJoin(list, kept)
             n == Len(list)
             B == Bare(C)
  <1>1. /\ list \in Seq(T) /\ list # <<>> /\ n \in Nat \ {0} /\ DOMAIN list = 1..n /\ History \in Nat
    BY LineFacts, HistoryAssumption
  <1>2. /\ C \in Seq(T) /\ C # <<>>
        /\ n <= History + 1 => Len(C) = n /\ Picked(C, list, 1..n)
        /\ n > History + 1 => Len(C) >= History + 1
        /\ list[n].kind \notin Turns => Left(T, list, C, kept)
    <2> HIDE DEF kept, T
    <2> QED BY <1>1, CapJoinFacts
  <1>3. C \in Lines(T)
    BY <1>2 DEF Lines
  <1> HIDE DEF C
  <1>4. /\ B \in Lines(StatesOf(E, L)) /\ Len(B) = Len(C) /\ Edits(B) = Edits(C)
        /\ \A i \in 1..Len(C) : B[i].edit = C[i].edit
    BY <1>3, BareFacts
  <1>5. Len(C) \in Nat \ {0} /\ Len(B) \in Nat \ {0} /\ Last(B) = B[Len(B)]
    BY <1>3, <1>4, LineFacts
  <1> HIDE DEF B
  <1>6. Edits(B) = Edits(list) \/ Len(B) >= History + 1
    <2>1. CASE n <= History + 1
      <3>1. Edits(C) = Edits(list)
        BY <1>1, <1>2, <2>1, PickedEdits
      <3> QED BY <1>4, <3>1
    <2>2. CASE n > History + 1
      BY <1>2, <1>4, <2>2
    <2> QED BY <1>1, <2>1, <2>2
  <1>7. n >= History + 1 => Len(B) >= History + 1
    BY <1>1, <1>2, <1>4
  <1>8. ASSUME EndsIn(list, current, top)
        PROVE  LastEdit(B) = top /\ Len(B) >= 2 /\ B[Len(B) - 1].edit = current.edit
    <2> DEFINE reconciled == "reconciled"
    <2>1. /\ n >= 2 /\ list[n - 1].id = current.id /\ list[n - 1].edit = current.edit
          /\ list[n].edit = top /\ list[n].kind = reconciled
      BY <1>8 DEF EndsIn
    <2>2. reconciled \notin Turns
      <3> DEFINE a == "capped away"
                 b == "shared"
                 c == "older own"
                 d == "newer own"
      <3>1. CapTurn = <<a, b, c, d>>
        BY DEF CapTurn
      <3>2. reconciled # a /\ reconciled # b /\ reconciled # c /\ reconciled # d
        OBVIOUS
      <3> HIDE DEF a, b, c, d, reconciled
      <3>3. \A t \in DOMAIN CapTurn : CapTurn[t] # reconciled
        <4>1. DOMAIN <<a, b, c, d>> = 1..4
          OBVIOUS
        <4>2. \A t \in 1..4 : <<a, b, c, d>>[t] # reconciled
          BY <3>2
        <4> QED BY <3>1, <4>1, <4>2
      <3> QED BY <3>3 DEF Turns
    <2> HIDE DEF reconciled
    <2>3. kept = current.id
      <3>1. n - 1 \in 1..n
        BY <1>1, <2>1
      <3>2. ById(list, current) # 0
        BY <1>1, <2>1, <3>1, ByIdFacts
      <3> QED BY <3>2 DEF Protected
    <2> HIDE DEF kept
    <2>4. Left(T, list, C, kept)
      BY <1>2, <2>1, <2>2
    <2>5. Len(C) >= 2 /\ C[Len(C)] = list[n] /\ C[Len(C) - 1] = list[n - 1]
      BY <1>1, <2>1, <2>3, <2>4 DEF Left
    <2>6. Len(C) \in 1..Len(C) /\ Len(C) - 1 \in 1..Len(C)
      BY <1>5, <2>5
    <2>7. B[Len(C)].edit = top /\ B[Len(C) - 1].edit = current.edit
      BY <1>4, <2>1, <2>5, <2>6
    <2> QED BY <1>4, <1>5, <2>5, <2>7 DEF LastEdit
  <1> QED BY <1>4, <1>6, <1>7, <1>8 DEF B, C

\* The newer copy's edit is shown, and the older copy's, if it stands nowhere there, one undo away.
ShowsOlder(joined, newer, older) ==
  \/ LastEdit(older) \in Edits(newer)
  \/ /\ LastEdit(joined) = LastEdit(newer) /\ Len(joined) >= 2
     /\ joined[Len(joined) - 1].edit = LastEdit(older)

\* What join_line promises: a line of states of the two; no edit of the newer copy's gone, and
\* none of the older copy's that the newer has not seen, unless the line is full; and an unseen
\* older current that stands nowhere in the newer copy one undo below the newer copy's.
LEMMA JoinLineFacts ==
  ASSUME NEW E, NEW L, NEW newer \in Lines(StatesOf(E, L)), NEW older \in Lines(StatesOf(E, L)),
         NEW host, Reconciled(host) \in L, NEW seen
  PROVE  /\ JoinLine(newer, older, host, seen) \in Lines(StatesOf(E, L))
         /\ \/ Edits(newer) \subseteq Edits(JoinLine(newer, older, host, seen))
            \/ Len(JoinLine(newer, older, host, seen)) >= History + 1
         /\ ~seen =>
              /\ \/ Edits(older) \subseteq Edits(JoinLine(newer, older, host, seen))
                 \/ Len(JoinLine(newer, older, host, seen)) >= History + 1
              /\ ShowsOlder(JoinLine(newer, older, host, seen), newer, older)
  <1> DEFINE S == StatesOf(E, L)
             T == EntriesOf(E, L)
             current == Last(older)
             w == Walk(newer, older)
             said == Said(newer, current)
             back == Room(newer, w.own, current, said, w.capped)
             list == IF seen THEN Kinds(newer, SharedStates(newer, w.shared))
                     ELSE Joined(newer, older, w, back, said, host)
             J == JoinLine(newer, older, host, seen)
  <1>1. J = Bare(CapJoin(list, Protected(list, current)))
    BY Zenon DEF JoinLine
  <1>2. current \in S
    BY LineFacts
  <1>3. Walked(S, newer, older, w, Len(older))
    BY WalkWalks
  <1> HIDE DEF w, J
  <1>4. CASE seen
    <2>1. list \in Lines(T) /\ Edits(list) = Edits(newer)
      <3>1. list = Kinds(newer, SharedStates(newer, w.shared))
        BY <1>4
      <3> QED BY <3>1, KindsFacts
    <2> HIDE DEF list, current
    <2>2. J \in Lines(S) /\ (Edits(J) = Edits(list) \/ Len(J) >= History + 1)
      BY <1>1, <1>2, <2>1, CappedFacts
    <2> QED BY <1>4, <2>1, <2>2 DEF J
  <1>5. CASE ~seen
    <2>1. /\ list \in Lines(T) /\ Edits(newer) \subseteq Edits(list)
          /\ Edits(older) \subseteq Edits(list) \/ Len(list) >= History + 1
          /\ LastEdit(older) \notin Edits(newer) => EndsIn(list, current, LastEdit(newer))
      <3>1. list = Joined(newer, older, w, back, said, host)
        BY <1>5
      <3> DEFINE G == Joined(newer, older, w, back, said, host)
      <3>2. /\ G \in Lines(T) /\ Edits(newer) \subseteq Edits(G)
            /\ Edits(older) \subseteq Edits(G) \/ Len(G) >= History + 1
            /\ LastEdit(older) \notin Edits(newer) => EndsIn(G, current, LastEdit(newer))
        BY <1>3, JoinedFacts
      <3> HIDE DEF G, list
      <3> QED BY <3>1, <3>2 DEF G
    <2> HIDE DEF list, current
    <2>2. /\ J \in Lines(S)
          /\ Edits(J) = Edits(list) \/ Len(J) >= History + 1
          /\ Len(list) >= History + 1 => Len(J) >= History + 1
          /\ EndsIn(list, current, LastEdit(newer)) =>
               LastEdit(J) = LastEdit(newer) /\ Len(J) >= 2 /\ J[Len(J) - 1].edit = current.edit
      BY <1>1, <1>2, <2>1, CappedFacts
    <2>3. ShowsOlder(J, newer, older)
      BY <2>1, <2>2 DEF ShowsOlder, LastEdit, current
    <2> QED BY <2>1, <2>2, <2>3 DEF J
  <1> QED BY <1>4, <1>5
=============================================================================
