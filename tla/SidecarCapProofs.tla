-------------------------- MODULE SidecarCapProofs --------------------------
(***************************************************************************)
(* What the cap of a join takes (join_line), of every two lines, with      *)
(* every cap: what each entry of the list is to the join, and in which     *)
(* order the cap's two passes take them.                                   *)
(***************************************************************************)
EXTENDS SidecarJoinProofs

----------------------------------------------------------------------------
(* The first pass takes no edit.                                           *)

\* The edit of the line's state l is in what the pass has let stay, or to come.
Holds(line, stay, i, l) ==
  \/ \E j \in 1..Len(stay) : stay[j].edit = line[l].edit
  \/ \E j \in (i + 1)..Len(line) : line[j].edit = line[l].edit

\* A repeat's edit is elsewhere in what stays or is to come (repeat_at).
LEMMA RepeatIsElsewhere ==
  ASSUME NEW S, NEW line \in Seq(S), NEW stay \in Seq(S), NEW i \in 1..Len(line),
         RepeatAt(stay \o SubSeq(line, i, Len(line)), Len(stay) + 1)
  PROVE  Holds(line, stay, i, i)
  <1> DEFINE rest == SubSeq(line, i, Len(line))
             c == stay \o rest
             n == Len(stay) + 1
  <1>1. Len(line) \in Nat /\ Len(stay) \in Nat
    BY LenProperties
  <1>2. \A j \in i..Len(line) : line[j] \in S
    BY <1>1, ElementOfSeq
  <1>3. /\ rest \in Seq(S) /\ Len(rest) = Len(line) - i + 1
        /\ \A j \in 1..(Len(line) - i + 1) : rest[j] = line[i + j - 1]
    BY <1>1, <1>2, SubSeqProperties
  <1> HIDE DEF rest
  <1>4. /\ c \in Seq(S) /\ Len(c) = Len(stay) + Len(rest)
        /\ \A j \in 1..Len(c) : c[j] = IF j <= Len(stay) THEN stay[j] ELSE rest[j - Len(stay)]
    <2>1. /\ c \in Seq(S) /\ Len(c) = Len(stay) + Len(rest)
          /\ \A j \in 1..(Len(stay) + Len(rest)) : c[j] = IF j <= Len(stay) THEN stay[j] ELSE rest[j - Len(stay)]
      BY <1>3, ConcatProperties
    <2> HIDE DEF c
    <2> QED BY <2>1
  <1>5. DOMAIN c = 1..Len(c)
    BY <1>4, LenProperties
  <1>6. RepeatAt(c, n)
    BY DEF rest
  <1> HIDE DEF c
  <1>7. PICK j \in 1..Len(c) : j # n /\ c[j].edit = c[n].edit
    <2>1. n \in Nat /\ n >= 1
      BY <1>1
    <2>2. \A j \in (n + 1)..Len(c) : j \in 1..Len(c) /\ j # n
      BY <1>1, <1>3, <1>4
    <2> HIDE DEF n
    <2> QED BY <1>5, <1>6, <2>2 DEF RepeatAt
  <1>8. c[n] = line[i]
    <2>1. n \in 1..Len(c) /\ ~(n <= Len(stay)) /\ n - Len(stay) = 1 /\ 1 \in 1..(Len(line) - i + 1) /\ i + 1 - 1 = i
      BY <1>1, <1>3, <1>4
    <2> QED BY <1>3, <1>4, <2>1
  <1>9. CASE j <= Len(stay)
    <2>1. c[j] = stay[j] /\ j \in 1..Len(stay)
      BY <1>4, <1>9
    <2> QED BY <1>7, <1>8, <2>1 DEF Holds
  <1>10. CASE j > Len(stay)
    <2> DEFINE k == j - Len(stay)
               l == i + k - 1
    <2>1. k \in 1..(Len(line) - i + 1) /\ l \in (i + 1)..Len(line)
      BY <1>1, <1>3, <1>4, <1>7, <1>10
    <2>2. c[j] = rest[k] /\ rest[k] = line[l]
      BY <1>1, <1>3, <1>4, <1>10, <2>1
    <2> HIDE DEF k, l
    <2> QED BY <1>7, <1>8, <2>1, <2>2 DEF Holds
  <1> QED BY <1>1, <1>4, <1>9, <1>10

\* The pass at one state loses no edit.
LEMMA PassByHolds ==
  ASSUME NEW S, NEW line \in Seq(S), NEW excess \in Int, NEW kept, NEW p, NEW i \in 1..Len(line),
         Passed(S, line, excess, kept, p, i - 1), NEW l \in 1..Len(line), Holds(line, p.stay, i - 1, l)
  PROVE  Holds(line, PassBy(line, kept, p, i).stay, i, l)
  <1> DEFINE q == PassBy(line, kept, p, i)
             Drops == /\ p.excess > 0 /\ line[i].id # kept
                      /\ RepeatAt(p.stay \o SubSeq(line, i, Len(line)), Len(p.stay) + 1)
  <1> SUFFICES Holds(line, q.stay, i, l)
    OBVIOUS
  <1>1. p \in [stay : Seq(S), excess : Int] /\ p.stay \in Seq(S) /\ line[i] \in S /\ Len(line) \in Nat
    BY ElementOfSeq, LenProperties DEF Passed
  <1>2. i = (i - 1) + 1 /\ \A j \in ((i - 1) + 1)..Len(line) : j = i \/ j \in (i + 1)..Len(line)
    BY <1>1
  <1>3. CASE Drops
    <2>1. q = [p EXCEPT !.excess = @ - 1]
      BY <1>3 DEF PassBy
    <2>2. q.stay = p.stay
      BY <1>1, <2>1
    <2>3. Holds(line, p.stay, i, i)
      BY <1>1, <1>3, RepeatIsElsewhere
    <2> QED BY <1>2, <2>2, <2>3 DEF Holds
  <1>4. CASE ~Drops
    <2>1. q = [p EXCEPT !.stay = Append(@, line[i])]
      BY <1>4 DEF PassBy
    <2>2. q.stay = Append(p.stay, line[i])
      BY <1>1, <2>1
    <2>3. /\ Len(q.stay) = Len(p.stay) + 1 /\ Len(p.stay) \in Nat
          /\ \A j \in 1..Len(p.stay) : q.stay[j] = p.stay[j]
          /\ q.stay[Len(p.stay) + 1] = line[i]
      BY <1>1, <2>2, AppendProperties, LenProperties
    <2> HIDE DEF q
    <2>4. \A j \in 1..Len(p.stay) : j \in 1..Len(q.stay)
      BY <2>3
    <2>5. Len(p.stay) + 1 \in 1..Len(q.stay)
      BY <2>3
    <2>6. CASE \E j \in 1..Len(p.stay) : p.stay[j].edit = line[l].edit
      BY <2>3, <2>4, <2>6 DEF Holds
    <2>7. CASE \E j \in ((i - 1) + 1)..Len(line) : line[j].edit = line[l].edit
      BY <1>2, <2>3, <2>5, <2>7 DEF Holds
    <2> QED BY <2>6, <2>7 DEF Holds
  <1> QED BY <1>3, <1>4

\* So every edit of the line is in what the first pass leaves.
LEMMA DropRepeatsHolds ==
  ASSUME NEW S, NEW line \in Seq(S), NEW excess \in Int, NEW kept, NEW l \in 1..Len(line)
  PROVE  \E j \in 1..Len(DropRepeats(line, excess, kept)) : DropRepeats(line, excess, kept)[j].edit = line[l].edit
  <1> DEFINE N == Len(line)
  <1>1. PICK f : PassRun(line, excess, kept, f) /\ \A i \in 0..N : Passed(S, line, excess, kept, f[i], i)
    BY DropRepeatsRuns
  <1>2. N \in Nat
    BY LenProperties
  <1> DEFINE T == {i \in 0..N : Holds(line, f[i].stay, i, l)}
  <1>3. 0 \in T
    BY <1>2 DEF Holds
  <1>4. ASSUME NEW i \in 0..(N - 1), i \in T PROVE i + 1 \in T
    <2> DEFINE k == i + 1
    <2>1. k \in 1..N /\ k - 1 = i /\ i \in 0..N /\ k \in 0..N
      BY <1>2
    <2> HIDE DEF k
    <2>2. Passed(S, line, excess, kept, f[k - 1], k - 1) /\ Holds(line, f[k - 1].stay, k - 1, l)
      BY <1>1, <1>4, <2>1
    <2>3. Holds(line, PassBy(line, kept, f[k - 1], k).stay, k, l)
      BY <2>1, <2>2, PassByHolds
    <2>4. f[k] = PassBy(line, kept, f[k - 1], k)
      BY <1>1, <2>1 DEF PassRun
    <2>5. k \in T
      BY <2>1, <2>3, <2>4
    <2> QED BY <2>5 DEF k
  <1>5. T = 0..N
    <2>1. T \in SUBSET (0..N)
      OBVIOUS
    <2> HIDE DEF T, N
    <2> QED BY <1>2, <1>3, <1>4, <2>1, IntervalInduction
  <1>6. Holds(line, f[N].stay, N, l)
    BY <1>2, <1>5
  <1>7. f[N].stay = DropRepeats(line, excess, kept)
    BY <1>1 DEF PassRun
  <1>8. (N + 1)..N = {}
    BY <1>2
  <1> QED BY <1>6, <1>7, <1>8 DEF Holds

----------------------------------------------------------------------------
(* The second pass takes the kinds in turn.                                *)

\* When the cap takes a kind; 0 of a kind it never takes.
TurnOf(kind) == FirstOf({t \in DOMAIN CapTurn : CapTurn[t] = kind})

\* The places of a list the second pass may take, the order it takes them in, and those it takes.
MayGo(list, kept) == {i \in 1..Len(list) : TurnOf(list[i].kind) # 0 /\ list[i].id # kept}
TurnKey(list) == [i \in 1..Len(list) |-> TurnOf(list[i].kind)]
Gone(list, kept) ==
  {i \in MayGo(list, kept) :
     Cardinality(Sooner(MayGo(list, kept), TurnKey(list), i)) < Len(list) - (History + 1)}

\* Of any kind its turn is a number.
LEMMA TurnIsNat ==
  ASSUME NEW kind
  PROVE  TurnOf(kind) \in Nat
  <1>1. {t \in DOMAIN CapTurn : CapTurn[t] = kind} \in SUBSET (Nat \ {0})
    <2>1. DOMAIN CapTurn \subseteq Nat \ {0}
      BY DEF CapTurn
    <2> QED BY <2>1
  <1> QED BY <1>1, FirstOfFacts DEF TurnOf

\* The second pass leaves the places that are not Gone.
LEMMA DropInTurnIsThose ==
  ASSUME NEW S, NEW list \in Seq(S), NEW kept
  PROVE  DropInTurn(list, kept) = Those(list, (1..Len(list)) \ Gone(list, kept))
  <1> DEFINE N == Len(list) - (History + 1)
             Turn(i) == FirstOf({t \in DOMAIN CapTurn : CapTurn[t] = list[i].kind})
             May(i) == Turn(i) # 0 /\ list[i].id # kept
             may == MayGo(list, kept)
             key == TurnKey(list)
  <1>1. DOMAIN list = 1..Len(list)
    BY LenProperties
  <1>2. \A i \in 1..Len(list) : (i \in may <=> May(i)) /\ key[i] = Turn(i)
    BY DEF MayGo, TurnKey, TurnOf
  <1>3. may \subseteq 1..Len(list)
    BY DEF MayGo
  <1> HIDE DEF may, key
  <1>4. \A i \in 1..Len(list) :
          {j \in DOMAIN list : May(j) /\ (Turn(j) < Turn(i) \/ (Turn(j) = Turn(i) /\ j < i))}
            = Sooner(may, key, i)
    <2> HIDE DEF Turn, May
    <2> QED BY <1>1, <1>2, <1>3 DEF Sooner
  <1>5. {i \in DOMAIN list :
           /\ May(i)
           /\ Cardinality({j \in DOMAIN list :
                             May(j) /\ (Turn(j) < Turn(i) \/ (Turn(j) = Turn(i) /\ j < i))}) < N}
          = Gone(list, kept)
    <2> HIDE DEF May, Turn, N
    <2>1. Gone(list, kept) = {i \in may : Cardinality(Sooner(may, key, i)) < N}
      BY DEF Gone, may, key, N
    <2> QED BY <1>1, <1>2, <1>3, <1>4, <2>1
  <1> QED BY <1>1, <1>5 DEF DropInTurn

\* What it takes has no later turn than what it could take and leaves; and while it leaves any of that,
\* it has taken as many as were too many.
LEMMA GoneFacts ==
  ASSUME NEW S, NEW list \in Seq(S), NEW kept, NEW i \in MayGo(list, kept), i \notin Gone(list, kept)
  PROVE  /\ \A l \in Gone(list, kept) : TurnKey(list)[l] <= TurnKey(list)[i]
         /\ Len(list) > History + 1 => Cardinality(Gone(list, kept)) >= Len(list) - (History + 1)
  <1> DEFINE N == Len(list) - (History + 1)
             may == MayGo(list, kept)
             key == TurnKey(list)
             gone == Gone(list, kept)
             R == InKeyOrder(may, key)
             At(k) == Rank(may, R, k)
  <1>1. History \in Nat \ {0} /\ Len(list) \in Nat /\ N \in Int
    BY HistoryAssumption, LenProperties
  <1>2. may \subseteq 1..Len(list) /\ \A k \in may : key[k] \in Nat
    BY TurnIsNat DEF MayGo, TurnKey
  <1>3. IsFiniteSet(may) /\ may \in SUBSET Int
    <2>1. IsFiniteSet(1..Len(list))
      BY <1>1, FS_Interval
    <2>2. may \subseteq Int
      BY <1>2
    <2> HIDE DEF may
    <2>3. IsFiniteSet(may)
      BY <1>2, <2>1, FS_Subset
    <2> QED BY <2>2, <2>3
  <1>4. gone = {k \in may : Cardinality(Sooner(may, key, k)) < N}
    BY DEF Gone
  <1>c. i \in may /\ i \notin gone
    OBVIOUS
  <1> HIDE DEF may, key, gone, N
  <1>5. Orders(R, may) /\ \A k \in may : At(k) = Cardinality(Sooner(may, key, k)) + 1
    BY <1>2, <1>3, InKeyOrderOrders
  <1>6. Places(may, R, Cardinality(may)) /\ Cardinality(may) \in Nat
    BY <1>3, <1>5, RankIsPlace
  <1>7. /\ \A k \in may : At(k) \in 1..Cardinality(may)
        /\ \A k \in 1..Cardinality(may) : \E l \in may : At(l) = k
    BY <1>6 DEF Places
  <1>8. \A k \in may : Cardinality(Sooner(may, key, k)) = At(k) - 1
    <2>1. ASSUME NEW k \in may PROVE Cardinality(Sooner(may, key, k)) = At(k) - 1
      <3>1. Sooner(may, key, k) \subseteq may
        BY DEF Sooner
      <3>2. Cardinality(Sooner(may, key, k)) \in Nat
        BY <1>3, <3>1, FS_Subset, FS_CardinalityType
      <3>3. At(k) = Cardinality(Sooner(may, key, k)) + 1
        BY <1>5
      <3> HIDE DEF At
      <3> QED BY <3>2, <3>3
    <2> QED BY <2>1
  <1>9. \A l, k \in may : key[l] < key[k] => At(l) < At(k)
    <2>1. ASSUME NEW l \in may, NEW k \in may, key[l] < key[k] PROVE At(l) < At(k)
      <3>1. <<l, k>> \in R
        BY <2>1 DEF InKeyOrder
      <3> QED BY <1>3, <1>5, <3>1, RankOrder
    <2> QED BY <2>1
  <1> HIDE DEF At, R
  <1>10. \A k \in may : k \in gone <=> At(k) - 1 < N
    BY <1>4, <1>8
  <1>11. At(i) - 1 >= N /\ At(i) \in 1..Cardinality(may)
    <2>1. At(i) \in 1..Cardinality(may) /\ ~(At(i) - 1 < N)
      BY <1>7, <1>10, <1>c
    <2> QED BY <1>1, <1>6, <2>1
  <1>12. ASSUME NEW l \in gone PROVE key[l] <= key[i]
    <2>1. l \in may /\ At(l) - 1 < N /\ At(l) \in 1..Cardinality(may)
      BY <1>4, <1>7, <1>10
    <2>2. ~(At(i) < At(l))
      BY <1>1, <1>6, <1>11, <2>1
    <2>3. ~(key[i] < key[l])
      BY <1>9, <1>c, <2>1, <2>2
    <2> QED BY <1>2, <1>c, <2>1, <2>3
  <1>13. ASSUME N > 0 PROVE Cardinality(gone) >= N
    <2> DEFINE place == [k \in gone |-> At(k)]
    <2>1. gone \subseteq may /\ IsFiniteSet(gone)
      BY <1>3, <1>4, FS_Subset
    <2>2. \A k \in gone : At(k) \in 1..N
      BY <1>1, <1>6, <1>7, <1>10, <2>1
    <2>3. \A k \in 1..N : \E l \in gone : At(l) = k
      <3>1. ASSUME NEW k \in 1..N PROVE \E l \in gone : At(l) = k
        <4>1. k \in 1..Cardinality(may) /\ k - 1 < N
          BY <1>1, <1>6, <1>11
        <4>2. PICK l \in may : At(l) = k
          BY <1>7, <4>1
        <4> QED BY <1>10, <4>1, <4>2
      <3> QED BY <3>1
    <2>4. place \in Surjection(gone, 1..N)
      BY <2>2, <2>3 DEF Surjection
    <2> HIDE DEF place
    <2>5. Cardinality(1..N) <= Cardinality(gone)
      BY <2>1, <2>4, FS_Surjection
    <2>6. Cardinality(1..N) = N
      BY <1>1, <1>13, FS_Interval
    <2> QED BY <2>5, <2>6
  <1>14. Len(list) > History + 1 => N > 0
    BY <1>1 DEF N
  <1> QED BY <1>12, <1>13, <1>14 DEF gone, key, N

\* An entry that no cap takes: of the id it keeps, or of a kind without a turn.
Stays(x, kept) == x.id = kept \/ TurnOf(x.kind) = 0

\* Of what is left, all that the cap could have taken has that turn or a later one.
InTurn(left, kept, turn) == \A p \in 1..Len(left) : Stays(left[p], kept) \/ TurnOf(left[p].kind) >= turn

\* While the second pass leaves an entry it could take, it takes none of a later kind; and while it leaves
\* one, it leaves no more than a full line.
LEMMA DropInTurnOrder ==
  ASSUME NEW S, NEW list \in Seq(S), NEW kept
  PROVE  /\ \A l \in 1..Len(list) :
              \/ \E p \in 1..Len(DropInTurn(list, kept)) : DropInTurn(list, kept)[p] = list[l]
              \/ TurnOf(list[l].kind) # 0 /\ InTurn(DropInTurn(list, kept), kept, TurnOf(list[l].kind))
         /\ \/ Len(DropInTurn(list, kept)) <= History + 1
            \/ \A p \in 1..Len(DropInTurn(list, kept)) : Stays(DropInTurn(list, kept)[p], kept)
  <1> DEFINE gone == Gone(list, kept)
             stay == (1..Len(list)) \ gone
             D == DropInTurn(list, kept)
  <1>1. History \in Nat /\ Len(list) \in Nat
    BY HistoryAssumption, LenProperties
  <1>2. /\ gone \subseteq 1..Len(list)
        /\ \A l \in gone : l \in MayGo(list, kept)
    BY DEF Gone, MayGo
  <1>3. D = Those(list, stay)
    BY DropInTurnIsThose
  <1>s. stay \in SUBSET (1..Len(list))
    OBVIOUS
  <1>g. IsFiniteSet(gone) /\ Cardinality(gone) \in Nat /\ Cardinality(stay) = Len(list) - Cardinality(gone)
    <2> HIDE DEF gone
    <2>1. IsFiniteSet(1..Len(list)) /\ Cardinality(1..Len(list)) = Len(list)
      BY <1>1, FS_Interval
    <2>2. IsFiniteSet(gone) /\ (1..Len(list)) \cap gone = gone
      BY <1>2, <2>1, FS_Subset
    <2>3. Cardinality((1..Len(list)) \ gone) = Cardinality(1..Len(list)) - Cardinality((1..Len(list)) \cap gone)
      BY <2>1, FS_Difference
    <2> QED BY <2>1, <2>2, <2>3, FS_CardinalityType
  <1>t. \A l \in 1..Len(list) : l \in stay \/ l \in gone
    OBVIOUS
  <1>u. \A l \in stay : l \in 1..Len(list) /\ l \notin gone
    OBVIOUS
  <1> HIDE DEF stay, D
  <1>4. D \in Seq(S) /\ Len(D) = Cardinality(stay) /\ Picked(D, list, stay)
    BY <1>3, <1>s, ThoseFacts
  <1>5. ASSUME NEW p \in 1..Len(D)
        PROVE  \E i \in stay : D[p] = list[i] /\ (Stays(D[p], kept) \/ i \in MayGo(list, kept))
    <2>1. PICK i \in stay : D[p] = list[i]
      BY <1>4 DEF Picked
    <2> QED BY <1>u, <2>1 DEF Stays, MayGo
  <1>6. ASSUME NEW l \in gone PROVE TurnOf(list[l].kind) # 0 /\ InTurn(D, kept, TurnOf(list[l].kind))
    <2>1. l \in MayGo(list, kept) /\ l \in 1..Len(list) /\ TurnOf(list[l].kind) # 0
      BY <1>2 DEF MayGo
    <2>2. ASSUME NEW p \in 1..Len(D) PROVE Stays(D[p], kept) \/ TurnOf(D[p].kind) >= TurnOf(list[l].kind)
      <3>1. PICK i \in stay : D[p] = list[i] /\ (Stays(D[p], kept) \/ i \in MayGo(list, kept))
        BY <1>5
      <3>2. CASE i \in MayGo(list, kept)
        <4>1. TurnKey(list)[l] <= TurnKey(list)[i]
          BY <1>u, <3>2, GoneFacts
        <4>2. i \in 1..Len(list)
          BY <1>u
        <4>3. TurnKey(list)[l] = TurnOf(list[l].kind) /\ TurnKey(list)[i] = TurnOf(list[i].kind)
          BY <2>1, <4>2 DEF TurnKey
        <4> QED BY <3>1, <4>1, <4>3, TurnIsNat
      <3> QED BY <3>1, <3>2
    <2> QED BY <2>1, <2>2 DEF InTurn
  <1>7. ASSUME NEW l \in stay PROVE \E p \in 1..Len(D) : D[p] = list[l]
    BY <1>4 DEF Picked
  <1>8. ASSUME ~(Len(D) <= History + 1), NEW p \in 1..Len(D) PROVE Stays(D[p], kept)
    <2>1. PICK i \in stay : D[p] = list[i] /\ (Stays(D[p], kept) \/ i \in MayGo(list, kept))
      BY <1>5
    <2>2. CASE i \in MayGo(list, kept)
      <3>1. Len(list) > History + 1
        BY <1>1, <1>4, <1>8, <1>g
      <3>2. Cardinality(gone) >= Len(list) - (History + 1)
        BY <1>u, <2>2, <3>1, GoneFacts
      <3> QED BY <1>1, <1>4, <1>8, <1>g, <3>2
    <2> QED BY <2>1, <2>2
  <1> HIDE DEF gone
  <1> QED BY <1>t, <1>6, <1>7, <1>8 DEF D

\* So of both passes: an edit that goes was of an entry the cap could take, and none that it could take
\* of an earlier kind is left; a line over its cap has nothing left that it could take.
LEMMA CapJoinOrder ==
  ASSUME NEW S, NEW list \in Seq(S), list # <<>>, NEW kept
  PROVE  /\ \A l \in 1..Len(list) :
              \/ list[l].edit \in Edits(CapJoin(list, kept))
              \/ \E m \in 1..Len(list) :
                   /\ list[m].edit = list[l].edit /\ TurnOf(list[m].kind) # 0
                   /\ InTurn(CapJoin(list, kept), kept, TurnOf(list[m].kind))
         /\ \/ Len(CapJoin(list, kept)) <= History + 1
            \/ \A p \in 1..Len(CapJoin(list, kept)) : Stays(CapJoin(list, kept)[p], kept)
  <1> DEFINE N == Len(list) - (History + 1)
             once == DropRepeats(list, N, kept)
             C == CapJoin(list, kept)
  <1>1. N \in Int
    BY HistoryAssumption, LenProperties
  <1>2. C = DropInTurn(once, kept)
    BY DEF CapJoin
  <1>3. /\ once \in Seq(S)
        /\ \A j \in 1..Len(once) : \E l \in 1..Len(list) : once[j] = list[l]
    BY <1>1, DropRepeatsFacts DEF Left
  <1>4. \A l \in 1..Len(list) : \E j \in 1..Len(once) : once[j].edit = list[l].edit
    BY <1>1, DropRepeatsHolds
  <1>5. C \in Seq(S)
    BY CapJoinFacts
  <1> HIDE DEF once, C
  <1>6. /\ \A j \in 1..Len(once) :
             \/ \E p \in 1..Len(C) : C[p] = once[j]
             \/ TurnOf(once[j].kind) # 0 /\ InTurn(C, kept, TurnOf(once[j].kind))
        /\ Len(C) <= History + 1 \/ \A p \in 1..Len(C) : Stays(C[p], kept)
    BY <1>2, <1>3, DropInTurnOrder
  <1>7. ASSUME NEW l \in 1..Len(list)
        PROVE  \/ list[l].edit \in Edits(C)
               \/ \E m \in 1..Len(list) :
                    /\ list[m].edit = list[l].edit /\ TurnOf(list[m].kind) # 0
                    /\ InTurn(C, kept, TurnOf(list[m].kind))
    <2>1. PICK j \in 1..Len(once) : once[j].edit = list[l].edit
      BY <1>4
    <2>2. CASE \E p \in 1..Len(C) : C[p] = once[j]
      <3>1. DOMAIN C = 1..Len(C)
        BY <1>5, LenProperties
      <3> QED BY <2>1, <2>2, <3>1 DEF Edits
    <2>3. CASE TurnOf(once[j].kind) # 0 /\ InTurn(C, kept, TurnOf(once[j].kind))
      <3>1. PICK m \in 1..Len(list) : once[j] = list[m]
        BY <1>3
      <3> QED BY <2>1, <2>3, <3>1
    <2> QED BY <1>6, <2>2, <2>3
  <1> QED BY <1>6, <1>7 DEF C

\* The turns of the kinds (join_line's cap): the first state, the currents recorded and the older copy's
\* current have none.
LEMMA TurnOfKinds ==
  /\ TurnOf("capped away") = 1 /\ TurnOf("shared") = 2 /\ TurnOf("older own") = 3 /\ TurnOf("newer own") = 4
  /\ TurnOf("first") = 0 /\ TurnOf("older current") = 0 /\ TurnOf("reconciled") = 0 /\ TurnOf("stood") = 0
  <1> DEFINE a == "capped away"
             b == "shared"
             c == "older own"
             d == "newer own"
             T(kind) == {t \in DOMAIN CapTurn : CapTurn[t] = kind}
  <1>1. CapTurn = <<a, b, c, d>>
    BY DEF CapTurn
  <1>2. a # b /\ a # c /\ a # d /\ b # c /\ b # d /\ c # d
    OBVIOUS
  <1>3. \A kind \in {"first", "older current", "reconciled", "stood"} :
          kind # a /\ kind # b /\ kind # c /\ kind # d
    OBVIOUS
  <1> SUFFICES /\ TurnOf(a) = 1 /\ TurnOf(b) = 2 /\ TurnOf(c) = 3 /\ TurnOf(d) = 4
               /\ \A kind \in {"first", "older current", "reconciled", "stood"} : TurnOf(kind) = 0
    BY Zenon
  <1> HIDE DEF a, b, c, d
  <1>4. /\ DOMAIN CapTurn = 1..4
        /\ CapTurn[1] = a /\ CapTurn[2] = b /\ CapTurn[3] = c /\ CapTurn[4] = d
    BY <1>1
  <1>5. T(a) = {1} /\ T(b) = {2} /\ T(c) = {3} /\ T(d) = {4}
    BY <1>2, <1>4
  <1>6. ASSUME NEW kind, kind # a, kind # b, kind # c, kind # d PROVE T(kind) = {}
    BY <1>4, <1>6
  <1>7. ASSUME NEW n \in Nat \ {0} PROVE FirstOf({n}) = n
    BY FirstOfFacts
  <1>8. ASSUME NEW kind PROVE TurnOf(kind) = FirstOf(T(kind))
    BY DEF TurnOf
  <1>9. FirstOf({}) = 0
    BY DEF FirstOf
  <1> HIDE DEF T
  <1>10. TurnOf(a) = 1 /\ TurnOf(b) = 2 /\ TurnOf(c) = 3 /\ TurnOf(d) = 4
    BY <1>5, <1>7, <1>8
  <1>11. \A kind \in {"first", "older current", "reconciled", "stood"} : TurnOf(kind) = 0
    BY <1>3, <1>6, <1>8, <1>9
  <1> QED BY <1>10, <1>11

----------------------------------------------------------------------------
(* What the walk takes each of the older copy's states for.                *)

\* Two states of one content.
Alike(s, t) == s.edit = t.edit /\ s.label = t.label

\* The walk finds the older copy's state k at a place of the newer copy, by its id if that has one ...
SharesAt(newer, older, w, k, q) ==
  /\ q.own = w.own /\ q.capped = w.capped
  /\ \E i \in 1..Len(newer) :
       /\ q.shared = w.shared \cup {i} /\ Alike(newer[i], older[k])
       /\ ById(newer, older[k]) # 0 => i = ById(newer, older[k])

\* ... or leaves it, for it was capped away or its edit stands ...
Leaves(newer, older, w, k, q) ==
  /\ q = w /\ ById(newer, older[k]) = 0
  /\ k \in CappedAway(newer, older) \/ older[k].edit \in Edits(newer)

\* ... or brings it back ...
BringsBack(newer, older, w, k, q) ==
  /\ ById(newer, older[k]) = 0 /\ k \in CappedAway(newer, older)
  /\ q.own = w.own /\ q.shared = w.shared
  /\ q.capped = Append(w.capped, [before |-> LedTo(newer, older, k), state |-> older[k]])

\* ... or takes it for the older copy's own.
TakesAsOwn(newer, older, w, k, q) ==
  /\ ById(newer, older[k]) = 0
  /\ q.own = Append(w.own, older[k]) /\ q.shared = w.shared /\ q.capped = w.capped

\* The walk at a state does one of the four.
LEMMA MetExactly ==
  ASSUME NEW E, NEW L, NEW newer \in Lines(StatesOf(E, L)), NEW older \in Lines(StatesOf(E, L)),
         NEW w \in Walks(StatesOf(E, L), newer), NEW k \in 2..Len(older),
         NEW q, q = Met(newer, older, CappedAway(newer, older), w, k)
  PROVE  \/ SharesAt(newer, older, w, k, q) \/ Leaves(newer, older, w, k, q)
         \/ BringsBack(newer, older, w, k, q) \/ TakesAsOwn(newer, older, w, k, q)
  <1> DEFINE S == StatesOf(E, L)
             s == older[k]
             capped == CappedAway(newer, older)
             here == ById(newer, s)
             stands == s.edit \in Edits(newer)
             Shares(i) == [w EXCEPT !.shared = @ \cup {i}, !.fork = IF i > @ THEN i ELSE @]
  <1>1. /\ newer \in Seq(S) /\ s \in S /\ k # 1 /\ Len(older) \in Nat
        /\ \A i \in 1..Len(newer) : newer[i] \in S
    BY LineFacts
  <1>2. ASSUME NEW i \in 1..Len(newer), Alike(newer[i], s), here # 0 => i = here, q = Shares(i)
        PROVE  SharesAt(newer, older, w, k, q)
    <2>1. q.own = w.own /\ q.capped = w.capped /\ q.shared = w.shared \cup {i}
      BY <1>2 DEF Walks
    <2> QED BY <1>2, <2>1 DEF SharesAt
  <1>3. CASE here # 0
    <2>1. q = Shares(here)
      BY <1>1, <1>3 DEF Met
    <2>2. here \in 1..Len(newer) /\ newer[here].id = s.id
      BY <1>1, <1>3, ByIdFacts
    <2>3. Alike(newer[here], s)
      BY <1>1, <2>2, IdTells DEF Alike
    <2> HIDE DEF Shares, here
    <2> QED BY <1>2, <2>1, <2>2, <2>3
  <1>4. CASE here = 0 /\ k \in capped
    <2>1. q = IF stands THEN w
              ELSE [w EXCEPT !.capped = Append(@, [before |-> LedTo(newer, older, k), state |-> s])]
      BY <1>1, <1>4 DEF Met
    <2>2. CASE stands
      <3>1. q = w
        BY <2>1, <2>2
      <3> QED BY <1>4, <3>1 DEF Leaves
    <2>3. CASE ~stands
      <3> DEFINE more == Append(w.capped, [before |-> LedTo(newer, older, k), state |-> s])
      <3>1. q = [w EXCEPT !.capped = more]
        BY <2>1, <2>3
      <3>2. q.own = w.own /\ q.shared = w.shared /\ q.capped = more
        <4> HIDE DEF more
        <4> QED BY <3>1 DEF Walks
      <3> QED BY <1>4, <3>2 DEF BringsBack
    <2> QED BY <2>2, <2>3
  <1>5. CASE here = 0 /\ k \notin capped /\ k < Len(older) /\ IsReconciled(s) /\ stands
    <2>1. q = w
      BY <1>1, <1>5 DEF Met
    <2> QED BY <1>5, <2>1 DEF Leaves
  <1>6. CASE here = 0 /\ k \notin capped /\ ~(k < Len(older) /\ IsReconciled(s) /\ stands)
    <2>1. CASE w.walking /\ Matches(newer, older, w.fork, k)
      <3>1. q = Shares(ByContent(newer, s))
        BY <1>1, <1>6, <2>1 DEF Met
      <3>2. ByContent(newer, s) # 0
        <4>1. ByContent(newer, s) \in 0..Len(newer) /\ w.fork \in Nat
          BY <1>1, ByIdFacts DEF Walks
        <4> QED BY <2>1, <4>1 DEF Matches
      <3>3. ByContent(newer, s) \in 1..Len(newer) /\ Alike(newer[ByContent(newer, s)], s)
        BY <1>1, <3>2, ByIdFacts DEF Alike
      <3> HIDE DEF Shares, here
      <3> QED BY <1>2, <1>6, <3>1, <3>3
    <2>2. CASE ~(w.walking /\ Matches(newer, older, w.fork, k))
      <3> DEFINE more == Append(w.own, s)
      <3>1. q = [w EXCEPT !.walking = FALSE, !.own = more]
        BY <1>1, <1>6, <2>2 DEF Met
      <3>2. q.own = more /\ q.shared = w.shared /\ q.capped = w.capped
        <4> HIDE DEF more
        <4> QED BY <3>1 DEF Walks
      <3> QED BY <1>6, <3>2 DEF TakesAsOwn
    <2> QED BY <2>1, <2>2
  <1> QED BY <1>3, <1>4, <1>5, <1>6

\* Of the walk at the older copy's state k: what it found are states of the older copy's content, each
\* one found by its id among them; what it took as the older copy's own has no id of the newer copy's;
\* what it brought back was capped away; and what has an edit of its own and was not is its own.
Taken(newer, older, w, k) ==
  /\ \A i \in w.shared : i \in 1..Len(newer) /\ \E j \in 1..Len(older) : Alike(newer[i], older[j])
  /\ \A j \in 1..Len(older) :
       (j <= k \/ j = 1) /\ ById(newer, older[j]) # 0 => ById(newer, older[j]) \in w.shared
  /\ \A i \in 1..Len(w.own) : \E j \in 1..Len(older) : w.own[i] = older[j] /\ ById(newer, older[j]) = 0
  /\ \A i \in 1..Len(w.capped) : \E j \in CappedAway(newer, older) : w.capped[i].state = older[j]
  /\ \A j \in 1..Len(older) :
       (j <= k \/ j = 1) /\ older[j].edit \notin Edits(newer) /\ j \notin CappedAway(newer, older) =>
         \E i \in 1..Len(w.own) : w.own[i] = older[j]

\* A sequence with one more: its old entries where they were, and the new one.
LEMMA OneMore ==
  ASSUME NEW S, NEW line \in Seq(S), NEW s \in S, NEW more, more = Append(line, s)
  PROVE  /\ \A i \in 1..Len(more) : (i \in 1..Len(line) /\ more[i] = line[i]) \/ more[i] = s
         /\ \A i \in 1..Len(line) : i \in 1..Len(more) /\ more[i] = line[i]
         /\ \E i \in 1..Len(more) : more[i] = s
  <1>1. /\ Len(more) = Len(line) + 1 /\ Len(line) \in Nat
        /\ \A i \in 1..Len(line) : more[i] = line[i]
        /\ more[Len(line) + 1] = s
    BY AppendProperties, LenProperties
  <1>2. Len(line) + 1 \in 1..Len(more)
    BY <1>1
  <1>3. \A i \in 1..Len(more) : i \in 1..Len(line) \/ i = Len(line) + 1
    BY <1>1
  <1>4. \A i \in 1..Len(line) : i \in 1..Len(more)
    BY <1>1
  <1> QED BY <1>1, <1>2, <1>3, <1>4

\* The walk goes on from a state to the next with what Taken says.
LEMMA MetTakes ==
  ASSUME NEW E, NEW L, NEW newer \in Lines(StatesOf(E, L)), NEW older \in Lines(StatesOf(E, L)),
         NEW w \in Walks(StatesOf(E, L), newer), NEW k \in 1..Len(older), Taken(newer, older, w, k - 1),
         NEW q, q = Met(newer, older, CappedAway(newer, older), w, k)
  PROVE  Taken(newer, older, q, k)
  <1> DEFINE S == StatesOf(E, L)
             s == older[k]
  <1>1. s \in S /\ Len(older) \in Nat \ {0}
    BY LineFacts
  <1>2. CASE k = 1
    <2>1. q = w
      BY <1>2, Zenon DEF Met
    <2>2. \A j \in 1..Len(older) : (j <= k \/ j = 1) => (j <= k - 1 \/ j = 1)
      BY <1>2
    <2> QED BY <2>1, <2>2 DEF Taken
  <1>3. CASE k # 1
    <2>0. k \in 2..Len(older)
      BY <1>1, <1>3
    <2>1. \A j \in 1..Len(older) : (j <= k \/ j = 1) => (j <= k - 1 \/ j = 1) \/ j = k
      BY <1>1
    <2>2. w.own \in Seq(S) /\ w.capped \in Seq([before : 1..Len(newer), state : S])
      BY DEF Walks
    <2>3. \/ SharesAt(newer, older, w, k, q) \/ Leaves(newer, older, w, k, q)
          \/ BringsBack(newer, older, w, k, q) \/ TakesAsOwn(newer, older, w, k, q)
      BY <2>0, MetExactly
    <2>4. CASE SharesAt(newer, older, w, k, q)
      <3>1. PICK i \in 1..Len(newer) :
              /\ q.shared = w.shared \cup {i} /\ Alike(newer[i], s)
              /\ ById(newer, s) # 0 => i = ById(newer, s)
        BY <2>4 DEF SharesAt
      <3>2. q.own = w.own /\ q.capped = w.capped
        BY <2>4 DEF SharesAt
      <3>3. s.edit \in Edits(newer)
        <4>1. i \in DOMAIN newer /\ newer[i].edit = s.edit
          BY <3>1, LineFacts DEF Alike
        <4> QED BY <4>1 DEF Edits
      <3>4. \A j \in q.shared : j \in 1..Len(newer) /\ \E l \in 1..Len(older) : Alike(newer[j], older[l])
        BY <3>1 DEF Taken
      <3>5. \A j \in 1..Len(older) :
              (j <= k \/ j = 1) /\ ById(newer, older[j]) # 0 => ById(newer, older[j]) \in q.shared
        BY <2>1, <3>1 DEF Taken
      <3> QED BY <2>1, <3>2, <3>3, <3>4, <3>5 DEF Taken
    <2>5. CASE Leaves(newer, older, w, k, q)
      BY <2>1, <2>5 DEF Taken, Leaves
    <2>6. CASE BringsBack(newer, older, w, k, q)
      <3> DEFINE x == [before |-> LedTo(newer, older, k), state |-> s]
                 B == [before : 1..Len(newer), state : S]
      <3>1. /\ q.own = w.own /\ q.shared = w.shared /\ q.capped = Append(w.capped, x)
            /\ k \in CappedAway(newer, older) /\ ById(newer, s) = 0
        BY <2>6 DEF BringsBack
      <3>2. x \in B /\ x.state = s
        <4>1. LedTo(newer, older, k) \in 1..Len(newer)
          BY <3>1, LedToFacts
        <4> QED BY <1>1, <4>1
      <3>5. w.capped \in Seq(B)
        BY <2>2
      <3> HIDE DEF x, B
      <3>3. \A i \in 1..Len(q.capped) : (i \in 1..Len(w.capped) /\ q.capped[i] = w.capped[i]) \/ q.capped[i] = x
        BY <3>1, <3>2, <3>5, OneMore
      <3>4. \A i \in 1..Len(q.capped) : \E j \in CappedAway(newer, older) : q.capped[i].state = older[j]
        <4>1. ASSUME NEW i \in 1..Len(q.capped)
              PROVE  \E j \in CappedAway(newer, older) : q.capped[i].state = older[j]
          <5>1. CASE i \in 1..Len(w.capped) /\ q.capped[i] = w.capped[i]
            <6>1. \E j \in CappedAway(newer, older) : w.capped[i].state = older[j]
              BY <5>1 DEF Taken
            <6> QED BY <5>1, <6>1
          <5>2. CASE q.capped[i] = x
            BY <3>1, <3>2, <5>2
          <5> QED BY <3>3, <5>1, <5>2
        <4> QED BY <4>1
      <3> QED BY <2>1, <3>1, <3>4 DEF Taken
    <2>7. CASE TakesAsOwn(newer, older, w, k, q)
      <3>1. /\ q.own = Append(w.own, s) /\ q.shared = w.shared /\ q.capped = w.capped
            /\ ById(newer, s) = 0
        BY <2>7 DEF TakesAsOwn
      <3>2. /\ \A i \in 1..Len(q.own) : (i \in 1..Len(w.own) /\ q.own[i] = w.own[i]) \/ q.own[i] = s
            /\ \A i \in 1..Len(w.own) : i \in 1..Len(q.own) /\ q.own[i] = w.own[i]
            /\ \E i \in 1..Len(q.own) : q.own[i] = s
        BY <1>1, <2>2, <3>1, OneMore
      <3>3. \A i \in 1..Len(q.own) : \E j \in 1..Len(older) : q.own[i] = older[j] /\ ById(newer, older[j]) = 0
        <4>1. ASSUME NEW i \in 1..Len(q.own)
              PROVE  \E j \in 1..Len(older) : q.own[i] = older[j] /\ ById(newer, older[j]) = 0
          <5>1. CASE i \in 1..Len(w.own) /\ q.own[i] = w.own[i]
            <6>1. \E j \in 1..Len(older) : w.own[i] = older[j] /\ ById(newer, older[j]) = 0
              BY <5>1 DEF Taken
            <6> QED BY <5>1, <6>1
          <5>2. CASE q.own[i] = s
            BY <3>1, <5>2
          <5> QED BY <3>2, <5>1, <5>2
        <4> QED BY <4>1
      <3>4. \A j \in 1..Len(older) :
              (j <= k \/ j = 1) /\ older[j].edit \notin Edits(newer) /\ j \notin CappedAway(newer, older) =>
                \E i \in 1..Len(q.own) : q.own[i] = older[j]
        <4>1. ASSUME NEW j \in 1..Len(older), j <= k \/ j = 1, older[j].edit \notin Edits(newer),
                     j \notin CappedAway(newer, older)
              PROVE  \E i \in 1..Len(q.own) : q.own[i] = older[j]
          <5>1. CASE j = k
            BY <3>2, <5>1
          <5>2. CASE j <= k - 1 \/ j = 1
            <6>1. PICK i \in 1..Len(w.own) : w.own[i] = older[j]
              BY <4>1, <5>2 DEF Taken
            <6> QED BY <3>2, <6>1
          <5> QED BY <2>1, <4>1, <5>1, <5>2
        <4> QED BY <4>1
      <3> QED BY <2>1, <3>1, <3>3, <3>4 DEF Taken
    <2> QED BY <2>3, <2>4, <2>5, <2>6, <2>7
  <1> QED BY <1>2, <1>3

\* The walk takes each state of the older copy for what it is, by induction on its states.
LEMMA WalkTakes ==
  ASSUME NEW E, NEW L, NEW newer \in Lines(StatesOf(E, L)), NEW older \in Lines(StatesOf(E, L))
  PROVE  Taken(newer, older, Walk(newer, older), Len(older))
  <1> DEFINE S == StatesOf(E, L)
             N == Len(older)
  <1>1. PICK f : WalkRun(newer, older, f) /\ \A k \in 0..N : Walked(S, newer, older, f[k], k)
    BY WalkRuns
  <1>2. N \in Nat \ {0} /\ older[1] \in S /\ newer \in Seq(S) /\ \A i \in 1..Len(newer) : newer[i] \in S
    BY LineFacts
  <1> DEFINE T == {k \in 0..N : Taken(newer, older, f[k], k)}
  <1>3. 0 \in T
    <2> DEFINE first == FirstShared(newer, older)
               w == WalkFirst(newer, older, first)
               nothing == <<>>
    <2>1. f[0] = w
      BY <1>1 DEF WalkRun
    <2>2. /\ w.shared = {first} \ {0} /\ w.capped = nothing
          /\ w.own = IF first = 0 THEN <<older[1]>> ELSE nothing
      BY DEF WalkFirst
    <2>3. Len(nothing) = 0 /\ 1..0 = {}
      BY EmptySeq
    <2>4. /\ first # 0 => first \in 1..Len(newer) /\ Alike(newer[first], older[1])
          /\ first = 0 => ById(newer, older[1]) = 0
          /\ ById(newer, older[1]) # 0 => first = ById(newer, older[1])
      <3>1. CASE ById(newer, older[1]) # 0
        <4>1. first = ById(newer, older[1])
          BY <3>1 DEF FirstShared
        <4>2. first \in 1..Len(newer) /\ newer[first].id = older[1].id
          BY <1>2, <3>1, <4>1, ByIdFacts
        <4>3. Alike(newer[first], older[1])
          BY <1>2, <4>2, IdTells DEF Alike
        <4> QED BY <3>1, <4>1, <4>2, <4>3
      <3>2. CASE ById(newer, older[1]) = 0
        <4>1. first = ByContent(newer, older[1])
          BY <3>2 DEF FirstShared
        <4>2. first # 0 => first \in 1..Len(newer) /\ Alike(newer[first], older[1])
          BY <1>2, <4>1, ByIdFacts DEF Alike
        <4> QED BY <3>2, <4>2
      <3> QED BY <3>1, <3>2
    <2>5. first # 0 => older[1].edit \in Edits(newer)
      <3>1. first # 0 => first \in DOMAIN newer /\ newer[first].edit = older[1].edit
        BY <2>4, LineFacts DEF Alike
      <3> QED BY <3>1 DEF Edits
    <2>6. \A j \in 1..Len(older) : (j <= 0 \/ j = 1) => j = 1
      BY <1>2
    <2>7. 1 \in 1..Len(older)
      BY <1>2
    <2>8. first = 0 => Len(w.own) = 1 /\ w.own[1] = older[1] /\ 1 \in 1..Len(w.own)
      <3> DEFINE one == <<older[1]>>
      <3>1. Len(one) = 1 /\ one[1] = older[1] /\ 1 \in 1..1
        OBVIOUS
      <3>2. first = 0 => w.own = one
        BY <2>2
      <3> HIDE DEF one, w, first
      <3> QED BY <3>1, <3>2
    <2> HIDE DEF first, w, nothing
    <2>9. \A i \in 1..Len(w.own) : w.own[i] = older[1] /\ first = 0
      <3>1. CASE first = 0
        BY <2>8, <3>1
      <3>2. CASE first # 0
        BY <2>2, <2>3, <3>2
      <3> QED BY <3>1, <3>2
    <2>10. \A i \in w.shared : i = first /\ first # 0
      BY <2>2
    <2>11. first # 0 => first \in w.shared
      BY <2>2
    <2>12. 1..Len(w.capped) = {}
      BY <2>2, <2>3
    <2>13. Taken(newer, older, w, 0)
      <3>1. \A i \in w.shared : i \in 1..Len(newer) /\ \E j \in 1..Len(older) : Alike(newer[i], older[j])
        BY <2>4, <2>7, <2>10
      <3>2. \A j \in 1..Len(older) :
              (j <= 0 \/ j = 1) /\ ById(newer, older[j]) # 0 => ById(newer, older[j]) \in w.shared
        BY <2>4, <2>6, <2>11
      <3>3. \A i \in 1..Len(w.own) : \E j \in 1..Len(older) : w.own[i] = older[j] /\ ById(newer, older[j]) = 0
        BY <2>4, <2>7, <2>9
      <3>4. \A j \in 1..Len(older) :
              (j <= 0 \/ j = 1) /\ older[j].edit \notin Edits(newer) => \E i \in 1..Len(w.own) : w.own[i] = older[j]
        BY <2>5, <2>6, <2>8
      <3> QED BY <2>12, <3>1, <3>2, <3>3, <3>4 DEF Taken
    <2>14. Taken(newer, older, f[0], 0) /\ 0 \in 0..N
      BY <1>2, <2>1, <2>13
    <2> QED BY <2>14
  <1>4. ASSUME NEW i \in 0..(N - 1), i \in T PROVE i + 1 \in T
    <2> DEFINE k == i + 1
    <2>1. k \in 1..N /\ k - 1 = i /\ i \in 0..N /\ k \in 0..N
      BY <1>2
    <2> HIDE DEF k
    <2>2. Taken(newer, older, f[k - 1], k - 1) /\ f[k - 1] \in Walks(S, newer)
      BY <1>1, <1>4, <2>1 DEF Walked
    <2>3. f[k] = Met(newer, older, CappedAway(newer, older), f[k - 1], k)
      BY <1>1, <2>1 DEF WalkRun
    <2>4. Taken(newer, older, f[k], k)
      BY <2>1, <2>2, <2>3, MetTakes
    <2>5. k \in T
      BY <2>1, <2>4
    <2> QED BY <2>5 DEF k
  <1>5. T = 0..N
    <2>1. T \in SUBSET (0..N)
      OBVIOUS
    <2> HIDE DEF T, N
    <2> QED BY <1>2, <1>3, <1>4, <2>1, IntervalInduction
  <1>6. Taken(newer, older, f[N], N)
    BY <1>2, <1>5
  <1>7. f[N] = Walk(newer, older)
    BY <1>1 DEF WalkRun
  <1> QED BY <1>6, <1>7

----------------------------------------------------------------------------
(* What each entry of a join is, before its cap.                           *)

\* An entry of the newer copy's: its first state, one both have, or its own.
OfNewer(newer, shared, x) ==
  \/ x = As("first", newer[1])
  \/ \E j \in 2..Len(newer) : j \in shared /\ x = As("shared", newer[j])
  \/ \E j \in 2..Len(newer) : j \notin shared /\ x = As("newer own", newer[j])

\* An entry of the older copy's: brought back, its own, or its current.
OfOlder(newer, older, x) ==
  \/ \E k \in CappedAway(newer, older) : x = As("capped away", older[k])
  \/ \E j \in 1..Len(older) : ById(newer, older[j]) = 0 /\ x = As("older own", older[j])
  \/ x = As("older current", Last(older))

\* The newer copy's current recorded again, the last of the list.
OnTopOf(list, top, x) == x = Last(list) /\ x.kind = "reconciled" /\ x.edit = top

\* An entry of the list, or one of the capped-away states brought back to it.
BroughtFrom(list, capped, x) ==
  \/ \E i \in 1..Len(list) : x = list[i]
  \/ \E k \in 1..Len(capped) : x = As("capped away", capped[k].state)

\* An entry of the list, or one of the older copy's own, or its current.
PushedFrom(list, own, current, x) ==
  \/ \E i \in 1..Len(list) : x = list[i]
  \/ \E i \in 1..Len(own) : x = As("older own", own[i])
  \/ x = As("older current", current)

\* The newer copy's states are of the three kinds.
LEMMA KindsEntries ==
  ASSUME NEW E, NEW L, NEW newer \in Lines(StatesOf(E, L)), NEW shared
  PROVE  \A p \in 1..Len(Kinds(newer, shared)) : OfNewer(newer, shared, Kinds(newer, shared)[p])
  <1>1. Len(Kinds(newer, shared)) = Len(newer) /\ DOMAIN newer = 1..Len(newer) /\ Len(newer) \in Nat
    BY KindsFacts, LineFacts
  <1>2. ASSUME NEW p \in 1..Len(newer) PROVE OfNewer(newer, shared, Kinds(newer, shared)[p])
    <2> DEFINE x == Kinds(newer, shared)[p]
    <2>1. x = As(IF p = 1 THEN "first" ELSE IF p \in shared THEN "shared" ELSE "newer own", newer[p])
      BY <1>1 DEF Kinds
    <2> HIDE DEF x
    <2>2. CASE p = 1
      BY <2>1, <2>2, Zenon DEF OfNewer, x
    <2>3. CASE p # 1 /\ p \in shared
      <3>1. x = As("shared", newer[p])
        BY <2>1, <2>3, Zenon
      <3>2. p \in 2..Len(newer)
        BY <1>1, <2>3
      <3> QED BY <2>3, <3>1, <3>2, Zenon DEF OfNewer, x
    <2>4. CASE p # 1 /\ p \notin shared
      <3>1. x = As("newer own", newer[p])
        BY <2>1, <2>4, Zenon
      <3>2. p \in 2..Len(newer)
        BY <1>1, <2>4
      <3> QED BY <2>4, <3>1, <3>2, Zenon DEF OfNewer, x
    <2> QED BY <2>2, <2>3, <2>4
  <1> QED BY <1>1, <1>2

\* The entries of a sequence before another, of both.
LEMMA ConcatEntries ==
  ASSUME NEW S, NEW a \in Seq(S), NEW b \in Seq(S)
  PROVE  \A p \in 1..Len(a \o b) :
           (\E i \in 1..Len(a) : (a \o b)[p] = a[i]) \/ (\E i \in 1..Len(b) : (a \o b)[p] = b[i])
  <1> DEFINE c == a \o b
  <1>1. /\ c \in Seq(S) /\ Len(c) = Len(a) + Len(b) /\ Len(a) \in Nat /\ Len(b) \in Nat
        /\ \A i \in 1..(Len(a) + Len(b)) : c[i] = IF i <= Len(a) THEN a[i] ELSE b[i - Len(a)]
    BY ConcatProperties, LenProperties
  <1> HIDE DEF c
  <1>2. ASSUME NEW p \in 1..Len(c)
        PROVE  (\E i \in 1..Len(a) : c[p] = a[i]) \/ (\E i \in 1..Len(b) : c[p] = b[i])
    <2>1. CASE p <= Len(a)
      <3>1. p \in 1..Len(a) /\ c[p] = a[p]
        BY <1>1, <2>1
      <3> QED BY <3>1
    <2>2. CASE ~(p <= Len(a))
      <3>1. p - Len(a) \in 1..Len(b) /\ c[p] = b[p - Len(a)]
        BY <1>1, <2>2
      <3> QED BY <3>1
    <2> QED BY <2>1, <2>2
  <1> QED BY <1>2 DEF c

\* What is brought back is of the capped-away states, and the rest was there.
LEMMA BroughtBackEntries ==
  ASSUME NEW E, NEW L, NEW list \in Lines(EntriesOf(E, L)), NEW capped \in Backs(StatesOf(E, L), Len(list))
  PROVE  \A p \in 1..Len(BroughtBack(list, capped)) : BroughtFrom(list, capped, BroughtBack(list, capped)[p])
  <1> DEFINE T == EntriesOf(E, L)
             n == Len(list)
             c == Len(capped)
             a(k) == As("capped away", capped[k].state)
             back == [k \in DOMAIN capped |-> a(k)]
             both == back \o list
             key == [i \in 1..(c + n) |-> IF i <= c THEN capped[i].before ELSE i - c]
             B == BroughtBack(list, capped)
  <1>1. list \in Seq(T) /\ n \in Nat \ {0}
    BY LineFacts
  <1>2. c \in Nat /\ DOMAIN capped = 1..c
    BY LenProperties DEF Backs
  <1>3. ASSUME NEW k \in 1..c PROVE capped[k].before \in 1..n /\ a(k) \in T
    <2>1. capped[k] \in [before : 1..n, state : StatesOf(E, L)]
      BY ElementOfSeq DEF Backs
    <2>2. capped[k].before \in 1..n /\ capped[k].state \in StatesOf(E, L)
      BY <2>1
    <2> DEFINE s == capped[k].state
               kind == "capped away"
    <2>3. kind \in EntryKinds /\ s \in StatesOf(E, L)
      BY <2>2 DEF EntryKinds
    <2>4. a(k) = As(kind, s)
      OBVIOUS
    <2> HIDE DEF kind, a
    <2> QED BY <2>2, <2>3, <2>4, AsFacts
  <1>4. B = ByKey(both, key)
    BY DEF BroughtBack
  <1> HIDE DEF T, B, a
  <1>5. back \in Seq(T) /\ Len(back) = c /\ \A k \in 1..c : back[k] = a(k)
    BY <1>2, <1>3
  <1> HIDE DEF back
  <1>6. both \in Seq(T) /\ Len(both) = c + n
    <2>1. both \in Seq(T) /\ Len(both) = Len(back) + n
      BY <1>1, <1>5, ConcatProperties
    <2> QED BY <1>5, <2>1
  <1>7. \A q \in 1..Len(both) : (\E i \in 1..c : both[q] = back[i]) \/ (\E i \in 1..n : both[q] = list[i])
    BY <1>1, <1>5, ConcatEntries
  <1> HIDE DEF both
  <1>8. \A i \in 1..Len(both) : key[i] \in Int
    <2>1. ASSUME NEW i \in 1..(c + n) PROVE key[i] \in Int
      <3>1. CASE i <= c
        <4>1. i \in 1..c
          BY <1>2, <3>1
        <4>2. key[i] = capped[i].before
          BY <3>1
        <4>3. capped[i].before \in 1..n
          BY <1>3, <4>1
        <4> HIDE DEF key
        <4> QED BY <1>1, <4>2, <4>3
      <3>2. CASE ~(i <= c)
        BY <1>1, <1>2, <3>2
      <3> QED BY <3>1, <3>2
    <2> QED BY <1>6, <2>1
  <1> HIDE DEF key
  <1>9. Picked(B, both, 1..Len(both))
    BY <1>4, <1>6, <1>8, ByKeyFacts
  <1>10. ASSUME NEW p \in 1..Len(B) PROVE (\E k \in 1..c : B[p] = a(k)) \/ (\E i \in 1..n : B[p] = list[i])
    <2>1. PICK q \in 1..Len(both) : B[p] = both[q]
      BY <1>9 DEF Picked
    <2> QED BY <1>5, <1>7, <2>1
  <1>11. \A p \in 1..Len(B) : (\E i \in 1..n : B[p] = list[i]) \/ (\E k \in 1..c : B[p] = a(k))
    BY <1>10
  <1> QED BY <1>11, Zenon DEF a, B, BroughtFrom

\* What is pushed is the older copy's own, its current by that kind if it is the last of them.
LEMMA PushedEntries ==
  ASSUME NEW E, NEW L, NEW list \in Lines(EntriesOf(E, L)), NEW own \in Seq(StatesOf(E, L)),
         NEW current \in StatesOf(E, L)
  PROVE  \A p \in 1..Len(Pushed(list, own, current)) :
           PushedFrom(list, own, current, Pushed(list, own, current)[p])
  <1> DEFINE S == StatesOf(E, L)
             T == EntriesOf(E, L)
             P == Pushed(list, own, current)
             kind == "older own"
             current_kind == "older current"
             all == AsAll(kind, own)
             rest == AsAll(kind, Front(own))
             x == As(current_kind, current)
  <1>1. list \in Seq(T)
    BY LineFacts
  <1>2. kind \in EntryKinds /\ current_kind \in EntryKinds
    BY DEF EntryKinds
  <1>3. P = IF own # <<>> /\ Last(own) = current THEN list \o rest \o <<x>> ELSE list \o all
    BY DEF Pushed
  <1>4. x \in T
    BY <1>2, AsFacts
  <1>5. all \in Seq(T) /\ Len(all) = Len(own) /\ \A i \in 1..Len(own) : all[i] = As(kind, own[i])
    BY <1>2, AsAllFacts
  <1> SUFFICES \A p \in 1..Len(P) :
                 \/ \E i \in 1..Len(list) : P[p] = list[i]
                 \/ \E i \in 1..Len(own) : P[p] = As(kind, own[i])
                 \/ P[p] = x
    BY Zenon DEF PushedFrom
  <1> HIDE DEF P, kind, current_kind, x, all
  <1>6. CASE own # <<>> /\ Last(own) = current
    <2> DEFINE f == Front(own)
    <2>1. /\ f \in Seq(S) /\ Len(f) = Len(own) - 1 /\ Len(own) \in Nat \ {0}
          /\ \A i \in 1..(Len(own) - 1) : f[i] = own[i]
      <3> DEFINE n == Len(own) - 1
      <3>1. Len(own) \in Nat \ {0}
        BY <1>6, LastOfSeq
      <3>2. f = SubSeq(own, 1, n) /\ n \in Nat
        BY <3>1 DEF Front
      <3>3. \A i \in 1..n : own[i] \in S
        <4>1. \A i \in 1..n : i \in 1..Len(own)
          BY <3>1
        <4> HIDE DEF n
        <4> QED BY <4>1, ElementOfSeq
      <3> HIDE DEF S, n
      <3>4. /\ SubSeq(own, 1, n) \in Seq(S)
            /\ Len(SubSeq(own, 1, n)) = IF 1 <= n THEN n - 1 + 1 ELSE 0
            /\ \A i \in 1..(n - 1 + 1) : SubSeq(own, 1, n)[i] = own[1 + i - 1]
        <4>1. own \in Seq(S)
          BY DEF S
        <4> QED BY <3>2, <3>3, <4>1, SubSeqProperties
      <3>5. /\ SubSeq(own, 1, n) \in Seq(S) /\ Len(SubSeq(own, 1, n)) = n
            /\ \A i \in 1..n : SubSeq(own, 1, n)[i] = own[i]
        BY <3>2, <3>4
      <3> QED BY <3>1, <3>2, <3>5 DEF n
    <2> HIDE DEF f
    <2>2. rest \in Seq(T) /\ Len(rest) = Len(own) - 1 /\ \A i \in 1..(Len(own) - 1) : rest[i] = As(kind, own[i])
      <3>1. rest = AsAll(kind, f)
        BY DEF f
      <3> HIDE DEF rest
      <3>2. /\ AsAll(kind, f) \in Seq(T) /\ Len(AsAll(kind, f)) = Len(f)
            /\ \A i \in 1..Len(f) : AsAll(kind, f)[i] = As(kind, f[i])
        BY <1>2, <2>1, AsAllFacts
      <3> HIDE DEF T
      <3>3. rest \in Seq(T) /\ Len(rest) = Len(f) /\ \A i \in 1..Len(f) : rest[i] = As(kind, f[i])
        BY <3>1, <3>2, Zenon
      <3> QED BY <2>1, <3>3
    <2> HIDE DEF rest, S, T
    <2> DEFINE both == list \o rest
               one == <<x>>
    <2>3. both \in Seq(T) /\ one \in Seq(T) /\ Len(one) = 1 /\ one[1] = x
      BY <1>1, <1>4, <2>2, ConcatProperties
    <2>4. P = both \o one
      BY <1>3, <1>6
    <2>5. \A q \in 1..Len(both) : (\E i \in 1..Len(list) : both[q] = list[i]) \/ (\E i \in 1..Len(rest) : both[q] = rest[i])
      BY <1>1, <2>2, ConcatEntries
    <2> HIDE DEF both, one
    <2>6. \A q \in 1..Len(P) : (\E i \in 1..Len(both) : P[q] = both[i]) \/ (\E i \in 1..Len(one) : P[q] = one[i])
      <3> DEFINE c == both \o one
      <3>1. \A q \in 1..Len(c) : (\E i \in 1..Len(both) : c[q] = both[i]) \/ (\E i \in 1..Len(one) : c[q] = one[i])
        BY <2>3, ConcatEntries
      <3>2. P = c
        BY <2>4
      <3> HIDE DEF c
      <3> QED BY <3>1, <3>2
    <2>7. \A i \in 1..Len(one) : one[i] = x
      BY <2>3
    <2>8. \A i \in 1..Len(rest) : i \in 1..Len(own) /\ rest[i] = As(kind, own[i])
      BY <2>1, <2>2
    <2>9. ASSUME NEW q \in 1..Len(P)
          PROVE  \/ \E i \in 1..Len(list) : P[q] = list[i]
                 \/ \E i \in 1..Len(own) : P[q] = As(kind, own[i])
                 \/ P[q] = x
      <3>1. CASE \E i \in 1..Len(both) : P[q] = both[i]
        <4>1. PICK j \in 1..Len(both) : P[q] = both[j]
          BY <3>1
        <4>2. CASE \E i \in 1..Len(list) : both[j] = list[i]
          BY <4>1, <4>2, Zenon
        <4>3. CASE \E i \in 1..Len(rest) : both[j] = rest[i]
          BY <2>8, <4>1, <4>3, Zenon
        <4> QED BY <2>5, <4>2, <4>3
      <3>2. CASE \E i \in 1..Len(one) : P[q] = one[i]
        BY <2>7, <3>2, Zenon
      <3> QED BY <2>6, <3>1, <3>2, Zenon
    <2> QED BY <2>9
  <1>7. CASE ~(own # <<>> /\ Last(own) = current)
    <2>1. P = list \o all
      BY <1>3, <1>7
    <2>2. \A q \in 1..Len(P) : (\E i \in 1..Len(list) : P[q] = list[i]) \/ (\E i \in 1..Len(all) : P[q] = all[i])
      BY <1>1, <1>5, <2>1, ConcatEntries
    <2> QED BY <1>5, <2>2
  <1> QED BY <1>6, <1>7

\* What is recorded on top is the last, with the newer copy's edit.
LEMMA OnTopEntries ==
  ASSUME NEW E, NEW L, NEW list \in Lines(EntriesOf(E, L)), NEW top \in E, NEW host, Reconciled(host) \in L
  PROVE  \A p \in 1..Len(OnTop(list, top, host)) :
           \/ \E i \in 1..Len(list) : OnTop(list, top, host)[p] = list[i]
           \/ OnTopOf(OnTop(list, top, host), top, OnTop(list, top, host)[p])
  <1> DEFINE T == EntriesOf(E, L)
             kind == "reconciled"
             r == State(Last(list).id, top, Reconciled(host))
             x == As(kind, r)
             O == OnTop(list, top, host)
  <1>1. list \in Seq(T) /\ Len(list) \in Nat \ {0} /\ Last(list) \in T
    BY LineFacts
  <1>2. r \in StatesOf(E, L) /\ r.edit = top
    <2> DEFINE id == Last(list).id
               label == Reconciled(host)
    <2>1. id \in Seq(E \X L) /\ label \in L
      BY <1>1 DEF EntriesOf
    <2>2. r = State(id, top, label)
      OBVIOUS
    <2> HIDE DEF id, label, r
    <2> QED BY <2>1, <2>2, StateFacts
  <1>3. kind \in EntryKinds
    BY DEF EntryKinds
  <1>4. O = IF LastEdit(list) = top THEN list ELSE Append(list, x)
    BY DEF OnTop, RecordedAgain
  <1> SUFFICES \A p \in 1..Len(O) :
        (\E i \in 1..Len(list) : O[p] = list[i]) \/ (O[p] = Last(O) /\ O[p].kind = kind /\ O[p].edit = top)
    BY Zenon DEF OnTopOf
  <1> HIDE DEF O, r, kind
  <1>5. x \in T /\ x.edit = top /\ x.kind = kind
    BY <1>2, <1>3, AsFacts
  <1> HIDE DEF x, T
  <1>6. CASE LastEdit(list) = top
    BY <1>4, <1>6
  <1>7. CASE LastEdit(list) # top
    <2>1. O = Append(list, x)
      BY <1>4, <1>7
    <2>2. /\ O \in Seq(T) /\ O # <<>> /\ Len(O) = Len(list) + 1
          /\ \A i \in 1..Len(list) : O[i] = list[i]
          /\ O[Len(list) + 1] = x
      BY <1>1, <1>5, <2>1, AppendProperties
    <2>3. Last(O) = x
      BY <2>2, LastOfSeq
    <2>4. \A p \in 1..Len(O) : p \in 1..Len(list) \/ p = Len(list) + 1
      BY <1>1, <2>2
    <2> QED BY <1>5, <2>2, <2>3, <2>4
  <1> QED BY <1>6, <1>7

\* What there is room for is of the capped-away states.
LEMMA RoomEntries ==
  ASSUME NEW B, NEW newer, NEW own, NEW current, NEW said, NEW capped \in Seq(B),
         Len(newer) \in Nat, Len(own) \in Nat
  PROVE  \A k \in 1..Len(Room(newer, own, current, said, capped)) :
           \E i \in 1..Len(capped) : Room(newer, own, current, said, capped)[k] = capped[i]
  <1> DEFINE tip == IF own = <<>> THEN LastEdit(newer) ELSE LastEdit(own)
             isOwn == own # <<>> /\ Last(own) = current
             willStand == ~isOwn /\ ~said /\ tip # current.edit
             willReconcile == (IF willStand THEN current.edit ELSE tip) # LastEdit(newer)
             extra == (IF willStand THEN 1 ELSE 0) + (IF willReconcile THEN 1 ELSE 0)
             room == History + 1 - (Len(newer) + Len(own) + extra)
             R == Room(newer, own, current, said, capped)
             c == Len(capped)
             cut == SubSeq(capped, c - room + 1, c)
  <1>1. R = IF room <= 0 THEN <<>> ELSE IF c > room THEN cut ELSE capped
    BY DEF Room
  <1>2. extra \in Nat
    <2>1. (IF willStand THEN 1 ELSE 0) \in Nat /\ (IF willReconcile THEN 1 ELSE 0) \in Nat
      OBVIOUS
    <2> HIDE DEF willStand, willReconcile
    <2> QED BY <2>1
  <1> HIDE DEF extra, R
  <1>3. room \in Int /\ c \in Nat
    BY <1>2, HistoryAssumption, LenProperties
  <1> HIDE DEF room
  <1> SUFFICES ASSUME NEW k \in 1..Len(R) PROVE \E i \in 1..Len(capped) : R[k] = capped[i]
    BY DEF R
  <1>4. CASE room <= 0
    <2>1. Len(R) = 0
      BY <1>1, <1>4, EmptySeq
    <2> QED BY <2>1
  <1>5. CASE ~(room <= 0) /\ c > room
    <2> DEFINE from == c - room + 1
    <2>1. R = SubSeq(capped, from, c)
      BY <1>1, <1>5
    <2>2. from \in 1..c /\ c - from + 1 = room
      BY <1>3, <1>5
    <2>3. \A i \in from..c : i \in 1..c /\ capped[i] \in B
      <3>1. \A i \in from..c : i \in 1..c
        BY <1>3, <2>2
      <3> HIDE DEF from
      <3> QED BY <3>1, ElementOfSeq
    <2> HIDE DEF from
    <2>4. /\ Len(SubSeq(capped, from, c)) = IF from <= c THEN c - from + 1 ELSE 0
          /\ \A i \in 1..(c - from + 1) : SubSeq(capped, from, c)[i] = capped[from + i - 1]
      BY <1>3, <2>2, <2>3, SubSeqProperties
    <2>5. k \in 1..(c - from + 1) /\ from + k - 1 \in 1..c
      BY <1>3, <2>1, <2>2, <2>4
    <2>6. R[k] = capped[from + k - 1]
      BY <2>1, <2>4, <2>5
    <2> QED BY <2>5, <2>6
  <1>6. CASE ~(room <= 0) /\ ~(c > room)
    <2>1. R = capped
      BY <1>1, <1>6
    <2> QED BY <2>1
  <1> QED BY <1>4, <1>5, <1>6

\* Before its cap a join has entries of the newer copy's and of the older copy's, and the newer copy's
\* edit recorded again on top, if it is; and it has all that is the older copy's own.
LEMMA JoinedEntries ==
  ASSUME NEW E, NEW L, NEW newer \in Lines(StatesOf(E, L)), NEW older \in Lines(StatesOf(E, L)),
         NEW w, w = Walk(newer, older), NEW host, Reconciled(host) \in L,
         NEW said, said = Said(newer, Last(older)),
         NEW back, back = Room(newer, w.own, Last(older), said, w.capped),
         NEW J, J = Joined(newer, older, w, back, said, host)
  PROVE  /\ \A p \in 1..Len(J) :
              \/ OfNewer(newer, SharedStates(newer, w.shared), J[p]) \/ OfOlder(newer, older, J[p])
              \/ OnTopOf(J, LastEdit(newer), J[p])
         /\ \A i \in 1..Len(w.own) : w.own[i].edit \in Edits(J)
  <1> DEFINE S == StatesOf(E, L)
             T == EntriesOf(E, L)
             current == Last(older)
             both == SharedStates(newer, w.shared)
             list == Kinds(newer, both)
             brought == BroughtBack(list, back)
             own == w.own
             top == LastEdit(newer)
             P == Pushed(brought, own, current)
  <1>1. /\ Len(newer) \in Nat \ {0} /\ current \in S /\ top \in E /\ Len(older) \in Nat \ {0}
        /\ current = older[Len(older)]
    <2>1. Last(newer) \in S
      BY LineFacts
    <2>2. LastEdit(newer) \in E
      BY <2>1, IdOfState DEF LastEdit
    <2> QED BY <2>2, LineFacts
  <1>2. Walked(S, newer, older, w, Len(older)) /\ Taken(newer, older, w, Len(older))
    BY WalkWalks, WalkTakes
  <1>3. /\ own \in Seq(S) /\ w.capped \in Backs(S, Len(newer)) /\ Stands(own, current, said)
        /\ Len(own) \in Nat
    <2>1. w \in Walks(S, newer) /\ Placed(newer, w, current)
      BY <1>1, <1>2 DEF Walked
    <2>2. own \in Seq(S) /\ w.capped \in Backs(S, Len(newer))
      BY <2>1 DEF Walks, Backs
    <2> QED BY <2>1, <2>2, LenProperties DEF Placed, Stands
  <1>4. /\ list \in Lines(T) /\ Len(list) = Len(newer) /\ LastEdit(list) = top
        /\ \A p \in 1..Len(list) : OfNewer(newer, both, list[p])
    BY KindsFacts, KindsEntries
  <1>5. /\ back \in Backs(S, Len(newer))
        /\ \A k \in 1..Len(back) : \E i \in 1..Len(w.capped) : back[k] = w.capped[i]
    <2>1. back \in Backs(S, Len(newer))
      BY <1>1, <1>3, RoomFacts
    <2>2. w.capped \in Seq([before : 1..Len(newer), state : S])
      BY <1>3 DEF Backs
    <2>3. \A k \in 1..Len(back) : \E i \in 1..Len(w.capped) : back[k] = w.capped[i]
      <3> DEFINE c == w.capped
                 B == [before : 1..Len(newer), state : S]
                 R == Room(newer, own, current, said, c)
      <3>1. c \in Seq(B) /\ Len(newer) \in Nat /\ Len(own) \in Nat /\ back = R
        BY <1>1, <1>3, <2>2
      <3> HIDE DEF c, B
      <3>2. \A k \in 1..Len(R) : \E i \in 1..Len(c) : R[k] = c[i]
        BY <3>1, RoomEntries
      <3> HIDE DEF R
      <3> QED BY <3>1, <3>2 DEF c
    <2> QED BY <2>1, <2>3
  <1>6. J = IF own = <<>> /\ back = <<>> /\ said THEN list
            ELSE Branched(brought, own, current, said, top, host)
    BY DEF Joined
  <1> HIDE DEF list, current, T, both, top
  <1>7. CASE own = <<>> /\ back = <<>> /\ said
    <2>1. J = list
      BY <1>6, <1>7
    <2>2. Len(own) = 0
      BY <1>7, EmptySeq
    <2>3. \A i \in 1..Len(own) : FALSE
      BY <2>2
    <2> QED BY <1>4, <2>1, <2>3 DEF both
  <1>8. CASE ~(own = <<>> /\ back = <<>> /\ said)
    <2>1. J = Branched(brought, own, current, said, top, host)
      BY <1>6, <1>8
    <2>2. /\ brought \in Lines(T) /\ LastEdit(brought) = top
          /\ \A p \in 1..Len(brought) : BroughtFrom(list, back, brought[p])
      <3>1. back \in Backs(S, Len(list)) /\ list \in Lines(EntriesOf(E, L))
        BY <1>4, <1>5 DEF T
      <3>2. brought \in Lines(EntriesOf(E, L)) /\ LastEdit(brought) = LastEdit(list)
        BY <3>1, BroughtBackFacts
      <3>3. \A p \in 1..Len(brought) : BroughtFrom(list, back, brought[p])
        BY <3>1, BroughtBackEntries
      <3> QED BY <1>4, <3>2, <3>3 DEF T
    <2>3. J = OnTop(P, top, host)
      <3>1. CASE own # <<>> /\ Last(own) = current
        BY <2>1, <3>1, Zenon DEF Branched, Pushed
      <3>2. CASE ~(own # <<>> /\ Last(own) = current)
        <4>1. said
          BY <1>3, <3>2 DEF Stands
        <4> QED BY <2>1, <3>2, <4>1, Zenon DEF Branched, Pushed
      <3> QED BY <3>1, <3>2
    <2>p. \A p \in 1..Len(brought) : OfNewer(newer, both, brought[p]) \/ OfOlder(newer, older, brought[p])
      <3>1. ASSUME NEW p \in 1..Len(brought)
            PROVE  OfNewer(newer, both, brought[p]) \/ OfOlder(newer, older, brought[p])
        <4>1. CASE \E i \in 1..Len(list) : brought[p] = list[i]
          BY <1>4, <4>1, Zenon
        <4>2. CASE \E k \in 1..Len(back) : brought[p] = As("capped away", back[k].state)
          <5>1. PICK k \in 1..Len(back) : brought[p] = As("capped away", back[k].state)
            BY <4>2
          <5>2. PICK i \in 1..Len(w.capped) : back[k] = w.capped[i]
            BY <1>5
          <5>3. PICK j \in CappedAway(newer, older) : w.capped[i].state = older[j]
            BY <1>2 DEF Taken
          <5>4. brought[p] = As("capped away", older[j])
            BY <5>1, <5>2, <5>3
          <5> QED BY <5>4 DEF OfOlder
        <4> QED BY <2>2, <4>1, <4>2, Zenon DEF BroughtFrom
      <3> QED BY <3>1
    <2> HIDE DEF brought, own
    <2> HIDE DEF P
    <2>4. /\ P \in Lines(T) /\ Edits(P) = Edits(brought) \cup Edits(own)
          /\ \A p \in 1..Len(P) : PushedFrom(brought, own, current, P[p])
      <3>1. brought \in Lines(EntriesOf(E, L)) /\ own \in Seq(StatesOf(E, L)) /\ current \in StatesOf(E, L)
        BY <1>1, <1>3, <2>2 DEF T
      <3>2. Pushed(brought, own, current) \in Lines(EntriesOf(E, L))
        BY <3>1, PushedFacts
      <3>3. Edits(Pushed(brought, own, current)) = Edits(brought) \cup Edits(own)
        BY <3>1, PushedFacts
      <3>4. \A p \in 1..Len(Pushed(brought, own, current)) :
               PushedFrom(brought, own, current, Pushed(brought, own, current)[p])
        BY <3>1, PushedEntries
      <3>5. P = Pushed(brought, own, current)
        BY DEF P
      <3> QED BY <3>2, <3>3, <3>4, <3>5 DEF T
    <2>5. /\ Edits(P) \subseteq Edits(J)
          /\ \A p \in 1..Len(J) : (\E i \in 1..Len(P) : J[p] = P[i]) \/ OnTopOf(J, top, J[p])
      <3> DEFINE O == OnTop(P, top, host)
      <3>1. P \in Lines(EntriesOf(E, L)) /\ top \in E
        BY <1>1, <2>4 DEF T
      <3>2. Edits(P) \subseteq Edits(O)
        BY <3>1, OnTopFacts
      <3>3. \A p \in 1..Len(O) : (\E i \in 1..Len(P) : O[p] = P[i]) \/ OnTopOf(O, top, O[p])
        BY <3>1, OnTopEntries
      <3> HIDE DEF O
      <3>4. J = O
        BY <2>3 DEF O
      <3> QED BY <3>2, <3>3, <3>4
    <2>6. ASSUME NEW p \in 1..Len(P) PROVE OfNewer(newer, both, P[p]) \/ OfOlder(newer, older, P[p])
      <3>1. CASE \E i \in 1..Len(brought) : P[p] = brought[i]
        BY <2>p, <3>1, Zenon
      <3>2. CASE \E i \in 1..Len(own) : P[p] = As("older own", own[i])
        <4>1. PICK i \in 1..Len(own) : P[p] = As("older own", own[i])
          BY <3>2
        <4>2. PICK j \in 1..Len(older) : own[i] = older[j] /\ ById(newer, older[j]) = 0
          BY <1>2 DEF Taken, own
        <4>3. P[p] = As("older own", older[j])
          BY <4>1, <4>2
        <4> QED BY <4>2, <4>3 DEF OfOlder
      <3>3. CASE P[p] = As("older current", current)
        BY <3>3, Zenon DEF OfOlder, current
      <3> QED BY <2>4, <3>1, <3>2, <3>3, Zenon DEF PushedFrom
    <2>7. \A p \in 1..Len(J) : OfNewer(newer, both, J[p]) \/ OfOlder(newer, older, J[p]) \/ OnTopOf(J, top, J[p])
      <3>1. ASSUME NEW p \in 1..Len(J)
            PROVE  OfNewer(newer, both, J[p]) \/ OfOlder(newer, older, J[p]) \/ OnTopOf(J, top, J[p])
        <4>1. CASE \E i \in 1..Len(P) : J[p] = P[i]
          <5>1. PICK i \in 1..Len(P) : J[p] = P[i]
            BY <4>1
          <5>2. OfNewer(newer, both, P[i]) \/ OfOlder(newer, older, P[i])
            BY <2>6
          <5> QED BY <5>1, <5>2
        <4> QED BY <2>5, <4>1
      <3> QED BY <3>1
    <2>8. \A i \in 1..Len(own) : own[i].edit \in Edits(J)
      <3>1. DOMAIN own = 1..Len(own)
        BY <1>3, LenProperties
      <3>2. \A i \in 1..Len(own) : own[i].edit \in Edits(own)
        BY <3>1 DEF Edits
      <3> QED BY <2>4, <2>5, <3>2
    <2> QED BY <2>7, <2>8 DEF both, own, top
  <1> QED BY <1>7, <1>8

----------------------------------------------------------------------------
(* What is left when the cap of a join is done.                            *)

\* The last of places is one of them.
LEMMA LastOfFacts ==
  ASSUME NEW n \in Nat, NEW T \in SUBSET (1..n), T # {}
  PROVE  LastOf(T) \in T
  <1> DEFINE U == {n - i : i \in T}
  <1>1. U \in SUBSET Nat /\ U # {}
    <2>1. \A i \in T : n - i \in Nat
      <3>1. \A i \in T : i \in 1..n
        OBVIOUS
      <3>2. \A i \in 1..n : n - i \in Nat
        OBVIOUS
      <3> QED BY <3>1, <3>2
    <2>2. \A u \in U : u \in Nat
      BY <2>1
    <2>3. PICK i \in T : TRUE
      OBVIOUS
    <2>4. n - i \in U
      OBVIOUS
    <2> HIDE DEF U
    <2> QED BY <2>2, <2>4
  <1>2. PICK u \in U : \A v \in U : u <= v
    <2> HIDE DEF U
    <2>1. PICK u0 \in U : TRUE
      BY <1>1
    <2> QED BY <1>1, <2>1, LeastNat
  <1>3. PICK i \in T : u = n - i
    OBVIOUS
  <1>4. \A j \in T : i >= j
    <2>1. ASSUME NEW j \in T PROVE i >= j
      <3>1. n - j \in U
        OBVIOUS
      <3>2. n - i <= n - j
        BY <1>2, <1>3, <3>1
      <3> QED BY <3>2
    <2> QED BY <2>1
  <1> HIDE DEF U
  <1> QED BY <1>4 DEF LastOf

\* What an entry or a state is by its id: its edit.
LEMMA IdTellsEdit ==
  ASSUME NEW E, NEW L, NEW s \in StatesOf(E, L), NEW x \in EntriesOf(E, L), NEW y \in EntriesOf(E, L)
  PROVE  /\ x.id = s.id => x.edit = s.edit
         /\ x.id = y.id => x.edit = y.edit
         /\ x.id # ZeroId
  <1>1. Last(s.id) = <<s.edit, s.label>>
    BY DEF StatesOf
  <1>2. Last(x.id) = <<x.edit, x.label>> /\ Last(y.id) = <<y.edit, y.label>> /\ x.id # <<>>
    BY DEF EntriesOf
  <1>3. x.id = s.id => <<x.edit, x.label>> = <<s.edit, s.label>>
    BY <1>1, <1>2
  <1>4. x.id = y.id => <<x.edit, x.label>> = <<y.edit, y.label>>
    BY <1>2
  <1>5. x.id # ZeroId
    BY <1>2 DEF ZeroId
  <1> QED BY <1>3, <1>4, <1>5

\* The entry the cap keeps by its id carries the older copy's current, and is it if that is there.
LEMMA ProtectedFacts ==
  ASSUME NEW E, NEW L, NEW list \in Lines(EntriesOf(E, L)), NEW current \in StatesOf(E, L),
         NEW kept, kept = Protected(list, current)
  PROVE  /\ \A p \in 1..Len(list) : list[p].id = kept => list[p].edit = current.edit
         /\ \A p \in 1..Len(list) : list[p].id = current.id => kept = current.id
  <1> DEFINE T == EntriesOf(E, L)
             with == {k \in DOMAIN list : list[k].edit = current.edit}
             i == LastOf(with)
  <1>1. list \in Seq(T) /\ Len(list) \in Nat \ {0} /\ DOMAIN list = 1..Len(list) /\ \A p \in 1..Len(list) : list[p] \in T
    BY LineFacts
  <1>2. kept = IF ById(list, current) # 0 THEN current.id ELSE IF i = 0 THEN ZeroId ELSE list[i].id
    BY DEF Protected
  <1>3. ASSUME NEW p \in 1..Len(list), list[p].id = current.id PROVE kept = current.id
    <2>1. ById(list, current) # 0
      BY <1>1, <1>3, ByIdFacts
    <2> QED BY <1>2, <2>1
  <1>4. ASSUME NEW p \in 1..Len(list), list[p].id = kept PROVE list[p].edit = current.edit
    <2>1. CASE ById(list, current) # 0
      <3>1. list[p].id = current.id
        BY <1>2, <1>4, <2>1
      <3> QED BY <1>1, <3>1, IdTellsEdit
    <2>2. CASE ById(list, current) = 0 /\ with # {}
      <3>1. i \in with
        <4>1. with \in SUBSET (1..Len(list))
          BY <1>1
        <4> HIDE DEF with
        <4> QED BY <1>1, <2>2, <4>1, LastOfFacts
      <3>2. i \in 1..Len(list) /\ list[i].edit = current.edit /\ i # 0
        <4>1. i \in DOMAIN list /\ list[i].edit = current.edit
          <5> HIDE DEF i
          <5> QED BY <3>1
        <4> HIDE DEF i
        <4> QED BY <1>1, <4>1
      <3> HIDE DEF i
      <3>3. list[p].id = list[i].id
        BY <1>2, <1>4, <2>2, <3>2
      <3>4. list[p].edit = list[i].edit
        BY <1>1, <3>2, <3>3, IdTellsEdit
      <3> QED BY <3>2, <3>4
    <2>3. CASE ById(list, current) = 0 /\ with = {}
      <3>1. i = 0
        BY <2>3 DEF LastOf
      <3>2. list[p].id = ZeroId
        BY <1>2, <1>4, <2>3, <3>1
      <3> QED BY <1>1, <3>2, IdTellsEdit
    <2> QED BY <2>1, <2>2, <2>3
  <1> QED BY <1>3, <1>4

\* Of three there are three at most.
LEMMA AtMostThree ==
  ASSUME NEW a, NEW b, NEW c, NEW T, T \subseteq {a, b, c}
  PROVE  Cardinality(T) <= 3
  <1>1. IsFiniteSet({a}) /\ Cardinality({a}) = 1
    BY FS_Singleton
  <1>2. IsFiniteSet({a} \cup {b}) /\ Cardinality({a} \cup {b}) <= 2
    BY <1>1, FS_AddElement
  <1>3. IsFiniteSet(({a} \cup {b}) \cup {c}) /\ Cardinality(({a} \cup {b}) \cup {c}) <= 3
    <2> DEFINE two == {a} \cup {b}
    <2>1. IsFiniteSet(two) /\ Cardinality(two) <= 2
      BY <1>2
    <2> HIDE DEF two
    <2>2. IsFiniteSet(two \cup {c}) /\ (Cardinality(two \cup {c}) = Cardinality(two) \/ Cardinality(two \cup {c}) = Cardinality(two) + 1)
      BY <2>1, FS_AddElement
    <2>3. Cardinality(two) \in Nat
      BY <2>1, FS_CardinalityType
    <2>4. Cardinality(two \cup {c}) <= 3
      BY <2>1, <2>2, <2>3
    <2> QED BY <2>2, <2>4 DEF two
  <1>4. ({a} \cup {b}) \cup {c} = {a, b, c}
    OBVIOUS
  <1>5. IsFiniteSet({a, b, c}) /\ Cardinality({a, b, c}) <= 3
    BY <1>3, <1>4
  <1>6. Cardinality(T) <= Cardinality({a, b, c}) /\ Cardinality(T) \in Nat /\ Cardinality({a, b, c}) \in Nat
    BY <1>5, FS_Subset, FS_CardinalityType
  <1> QED BY <1>5, <1>6

\* What an entry of the newer copy's has, and when the cap takes it: never, second or fourth.
FromNewer(newer, shared, x) ==
  \/ x.id = newer[1].id /\ x.edit = newer[1].edit /\ TurnOf(x.kind) = 0
  \/ \E j \in 2..Len(newer) : j \in shared /\ x.id = newer[j].id /\ x.edit = newer[j].edit /\ TurnOf(x.kind) = 2
  \/ \E j \in 2..Len(newer) : j \notin shared /\ x.id = newer[j].id /\ x.edit = newer[j].edit /\ TurnOf(x.kind) = 4

\* What an entry of the older copy's has, and when the cap takes it: first, third or never.
FromOlder(newer, older, x) ==
  \/ \E k \in CappedAway(newer, older) : x.edit = older[k].edit /\ TurnOf(x.kind) = 1
  \/ \E j \in 1..Len(older) :
       ById(newer, older[j]) = 0 /\ x.id = older[j].id /\ x.edit = older[j].edit /\ TurnOf(x.kind) = 3
  \/ x.id = Last(older).id /\ x.edit = LastEdit(older) /\ TurnOf(x.kind) = 0

\* The newer copy's current recorded again is the last of the list, and never taken.
OnTopThere(list, x) == x = Last(list) /\ TurnOf(x.kind) = 0

\* Of every entry of the list it is said whose it is and when the cap takes it.
Sorted(newer, older, shared, list) ==
  \A p \in 1..Len(list) :
    FromNewer(newer, shared, list[p]) \/ FromOlder(newer, older, list[p]) \/ OnTopThere(list, list[p])

\* What the entries of a join are says when the cap takes them.
LEMMA KindsAreTurns ==
  ASSUME NEW newer, NEW older, NEW shared, NEW list, NEW top, NEW x
  PROVE  /\ OfNewer(newer, shared, x) => FromNewer(newer, shared, x)
         /\ OfOlder(newer, older, x) => FromOlder(newer, older, x)
         /\ OnTopOf(list, top, x) => OnTopThere(list, x)
  <1>1. ASSUME OfNewer(newer, shared, x) PROVE FromNewer(newer, shared, x)
    <2>1. CASE x = As("first", newer[1])
      <3>1. x.id = newer[1].id /\ x.edit = newer[1].edit /\ x.kind = "first"
        BY <2>1 DEF As
      <3>2. TurnOf(x.kind) = 0
        BY <3>1, TurnOfKinds, Zenon
      <3> QED BY <3>1, <3>2, Zenon DEF FromNewer
    <2>2. ASSUME NEW j \in 2..Len(newer), j \in shared, x = As("shared", newer[j])
          PROVE  FromNewer(newer, shared, x)
      <3>1. x.id = newer[j].id /\ x.edit = newer[j].edit /\ x.kind = "shared"
        BY <2>2 DEF As
      <3>2. TurnOf(x.kind) = 2
        BY <3>1, TurnOfKinds, Zenon
      <3> QED BY <2>2, <3>1, <3>2, Zenon DEF FromNewer
    <2>3. ASSUME NEW j \in 2..Len(newer), j \notin shared, x = As("newer own", newer[j])
          PROVE  FromNewer(newer, shared, x)
      <3>1. x.id = newer[j].id /\ x.edit = newer[j].edit /\ x.kind = "newer own"
        BY <2>3 DEF As
      <3>2. TurnOf(x.kind) = 4
        BY <3>1, TurnOfKinds, Zenon
      <3> QED BY <2>3, <3>1, <3>2, Zenon DEF FromNewer
    <2> QED BY <1>1, <2>1, <2>2, <2>3, Zenon DEF OfNewer
  <1>2. ASSUME OfOlder(newer, older, x) PROVE FromOlder(newer, older, x)
    <2>1. ASSUME NEW k \in CappedAway(newer, older), x = As("capped away", older[k])
          PROVE  FromOlder(newer, older, x)
      <3>1. x.edit = older[k].edit /\ x.kind = "capped away"
        BY <2>1 DEF As
      <3>2. TurnOf(x.kind) = 1
        BY <3>1, TurnOfKinds, Zenon
      <3> QED BY <2>1, <3>1, <3>2, Zenon DEF FromOlder
    <2>2. ASSUME NEW j \in 1..Len(older), ById(newer, older[j]) = 0, x = As("older own", older[j])
          PROVE  FromOlder(newer, older, x)
      <3>1. x.id = older[j].id /\ x.edit = older[j].edit /\ x.kind = "older own"
        BY <2>2 DEF As
      <3>2. TurnOf(x.kind) = 3
        BY <3>1, TurnOfKinds, Zenon
      <3> QED BY <2>2, <3>1, <3>2, Zenon DEF FromOlder
    <2>3. CASE x = As("older current", Last(older))
      <3>1. x.id = Last(older).id /\ x.edit = Last(older).edit /\ x.kind = "older current"
        BY <2>3 DEF As
      <3>2. TurnOf(x.kind) = 0
        BY <3>1, TurnOfKinds, Zenon
      <3> QED BY <3>1, <3>2, Zenon DEF FromOlder, LastEdit
    <2> QED BY <1>2, <2>1, <2>2, <2>3, Zenon DEF OfOlder
  <1>3. OnTopOf(list, top, x) => OnTopThere(list, x)
    BY TurnOfKinds, Zenon DEF OnTopOf, OnTopThere
  <1> QED BY <1>1, <1>2, <1>3

\* A list over the cap has three states left at most: the first, the one kept and the one on top.
LEMMA FewAreLeft ==
  ASSUME NEW E, NEW L, NEW newer, NEW older \in Lines(StatesOf(E, L)), NEW shared,
         NEW list \in Lines(EntriesOf(E, L)), Sorted(newer, older, shared, list),
         NEW kept, kept = Protected(list, Last(older)), NEW C, C = CapJoin(list, kept)
  PROVE  Len(C) <= History + 1 \/ Cardinality(Ids(C)) <= 3
  <1> DEFINE T == EntriesOf(E, L)
  <1>1. list \in Seq(T) /\ list # <<>>
    BY LineFacts
  <1>2. Last(older) \in StatesOf(E, L)
    BY LineFacts
  <1>3. \A p \in 1..Len(list) : list[p].id = Last(older).id => kept = Last(older).id
    BY <1>2, ProtectedFacts
  <1>4. C \in Seq(T) /\ \A j \in 1..Len(C) : \E l \in 1..Len(list) : C[j] = list[l]
    <2> HIDE DEF T
    <2> QED BY <1>1, CapJoinFacts
  <1>5. Len(C) <= History + 1 \/ \A p \in 1..Len(C) : Stays(C[p], kept)
    <2> HIDE DEF T
    <2> QED BY <1>1, CapJoinOrder
  <1> SUFFICES ASSUME \A p \in 1..Len(C) : Stays(C[p], kept) PROVE Cardinality(Ids(C)) <= 3
    BY <1>5
  <1>6. ASSUME NEW p \in 1..Len(C) PROVE C[p].id \in {newer[1].id, kept, Last(list).id}
    <2>1. CASE C[p].id = kept
      BY <2>1
    <2>2. CASE TurnOf(C[p].kind) = 0
      <3>1. PICK l \in 1..Len(list) : C[p] = list[l]
        BY <1>4
      <3>2. TurnOf(list[l].kind) = 0
        BY <2>2, <3>1
      <3>3. CASE FromNewer(newer, shared, list[l])
        BY <3>1, <3>2, <3>3 DEF FromNewer
      <3>4. CASE FromOlder(newer, older, list[l])
        BY <1>3, <3>1, <3>2, <3>4 DEF FromOlder
      <3>5. CASE OnTopThere(list, list[l])
        BY <3>1, <3>5 DEF OnTopThere
      <3> QED BY <3>3, <3>4, <3>5 DEF Sorted
    <2> QED BY <2>1, <2>2 DEF Stays
  <1>7. DOMAIN C = 1..Len(C)
    BY <1>4, LenProperties
  <1>8. Ids(C) \subseteq {newer[1].id, kept, Last(list).id}
    BY <1>6, <1>7 DEF Ids
  <1> QED BY <1>8, AtMostThree

\* The lists a join is capped from, of an older copy not seen and of one seen, are so sorted.
LEMMA JoinedSorted ==
  ASSUME NEW E, NEW L, NEW newer \in Lines(StatesOf(E, L)), NEW older \in Lines(StatesOf(E, L)),
         NEW w, w = Walk(newer, older), NEW host, Reconciled(host) \in L,
         NEW said, said = Said(newer, Last(older)),
         NEW back, back = Room(newer, w.own, Last(older), said, w.capped),
         NEW J, J = Joined(newer, older, w, back, said, host)
  PROVE  Sorted(newer, older, SharedStates(newer, w.shared), J)
  <1> DEFINE shared == SharedStates(newer, w.shared)
  <1>1. \A p \in 1..Len(J) :
          OfNewer(newer, shared, J[p]) \/ OfOlder(newer, older, J[p]) \/ OnTopOf(J, LastEdit(newer), J[p])
    BY JoinedEntries
  <1> HIDE DEF shared
  <1>2. Sorted(newer, older, shared, J)
    BY <1>1, KindsAreTurns DEF Sorted
  <1> QED BY <1>2 DEF shared

LEMMA KindsSorted ==
  ASSUME NEW E, NEW L, NEW newer \in Lines(StatesOf(E, L)), NEW older, NEW shared
  PROVE  Sorted(newer, older, shared, Kinds(newer, shared))
  <1> DEFINE K == Kinds(newer, shared)
  <1>1. \A p \in 1..Len(K) : OfNewer(newer, shared, K[p])
    BY KindsEntries
  <1> HIDE DEF K
  <1>2. Sorted(newer, older, shared, K)
    BY <1>1, KindsAreTurns DEF Sorted
  <1> QED BY <1>2 DEF K

\* Bare leaves the entries' edits, ids and places.
LEMMA BareEntries ==
  ASSUME NEW E, NEW L, NEW list \in Lines(EntriesOf(E, L)), NEW B, B = Bare(list)
  PROVE  /\ DOMAIN B = 1..Len(list) /\ Len(B) = Len(list)
         /\ \A i \in 1..Len(list) : B[i].edit = list[i].edit /\ B[i].id = list[i].id
         /\ \A i, j \in 1..Len(list) : list[i] = list[j] => B[i] = B[j]
         /\ Ids(B) = Ids(list)
  <1>1. DOMAIN list = 1..Len(list) /\ Len(list) \in Nat
    BY LineFacts
  <1>2. B = [i \in 1..Len(list) |-> [edit |-> list[i].edit, label |-> list[i].label, id |-> list[i].id]]
    BY <1>1 DEF Bare
  <1>3. Len(B) = Len(list)
    BY BareFacts
  <1>4. DOMAIN B = 1..Len(list)
    BY <1>2
  <1>5. \A i \in 1..Len(list) : B[i].edit = list[i].edit /\ B[i].id = list[i].id
    BY <1>2
  <1>6. \A i, j \in 1..Len(list) : list[i] = list[j] => B[i] = B[j]
    BY <1>2
  <1>7. Ids(B) = Ids(list)
    BY <1>1, <1>4, <1>5 DEF Ids
  <1> QED BY <1>3, <1>4, <1>5, <1>6, <1>7

\* A join's line is within the cap, or has three states at most.
LEMMA JoinLineFew ==
  ASSUME NEW E, NEW L, NEW newer \in Lines(StatesOf(E, L)), NEW older \in Lines(StatesOf(E, L)),
         NEW host, Reconciled(host) \in L, NEW seen
  PROVE  \/ Len(JoinLine(newer, older, host, seen)) <= History + 1
         \/ Cardinality(Ids(JoinLine(newer, older, host, seen))) <= 3
  <1> DEFINE current == Last(older)
             w == Walk(newer, older)
             said == Said(newer, current)
             back == Room(newer, w.own, current, said, w.capped)
             shared == SharedStates(newer, w.shared)
             list == IF seen THEN Kinds(newer, shared) ELSE Joined(newer, older, w, back, said, host)
             kept == Protected(list, current)
             C == CapJoin(list, kept)
             J == JoinLine(newer, older, host, seen)
  <1>1. J = Bare(C)
    BY Zenon DEF JoinLine
  <1>2. list \in Lines(EntriesOf(E, L)) /\ Sorted(newer, older, shared, list)
    <2>1. CASE seen
      <3>1. list = Kinds(newer, shared)
        BY <2>1
      <3> HIDE DEF list, shared
      <3>2. Kinds(newer, shared) \in Lines(EntriesOf(E, L))
        BY KindsFacts
      <3>3. Sorted(newer, older, shared, Kinds(newer, shared))
        BY KindsSorted
      <3> QED BY <3>1, <3>2, <3>3
    <2>2. CASE ~seen
      <3> DEFINE G == Joined(newer, older, w, back, said, host)
      <3>1. list = G
        BY <2>2
      <3>2. Walked(StatesOf(E, L), newer, older, w, Len(older))
        BY WalkWalks
      <3>3. G \in Lines(EntriesOf(E, L))
        <4> HIDE DEF w
        <4> QED BY <3>2, JoinedFacts
      <3>4. Sorted(newer, older, shared, G)
        BY JoinedSorted
      <3> HIDE DEF list, G, shared
      <3> QED BY <3>1, <3>3, <3>4
    <2> QED BY <2>1, <2>2
  <1> HIDE DEF list, shared, J
  <1>3. Len(C) <= History + 1 \/ Cardinality(Ids(C)) <= 3
    BY <1>2, FewAreLeft
  <1>4. C \in Lines(EntriesOf(E, L))
    <2> DEFINE T == EntriesOf(E, L)
    <2>1. list \in Seq(T) /\ list # <<>>
      BY <1>2, LineFacts
    <2> HIDE DEF T
    <2>2. C \in Lines(T)
      BY <2>1, CapJoinFacts DEF Lines
    <2> QED BY <2>2 DEF T
  <1> HIDE DEF C
  <1>5. Len(Bare(C)) = Len(C) /\ Ids(Bare(C)) = Ids(C)
    BY <1>4, BareEntries
  <1> QED BY <1>1, <1>3, <1>5 DEF J

\* An entry the cap comes to in the turn, or after it, or never: the first, an own one of the newer
\* copy's, in the third turn one of the older copy's, or of an edit or a place the cap keeps.
Untaken(left, newer, older, shared, turn, x) ==
  \/ x.edit = LastEdit(older)
  \/ x = Last(left)
  \/ x.id = newer[1].id /\ x.edit = newer[1].edit
  \/ \E j \in 2..Len(newer) : j \notin shared /\ x.id = newer[j].id /\ x.edit = newer[j].edit
  \/ turn = 3 /\ \E j \in 1..Len(older) : ById(newer, older[j]) = 0 /\ x.id = older[j].id

\* When the cap has taken an entry in its turn, all that is left is of what it comes to later, or never.
LEMMA LeftInTurn ==
  ASSUME NEW E, NEW L, NEW newer, NEW older \in Lines(StatesOf(E, L)), NEW shared,
         NEW list \in Lines(EntriesOf(E, L)), Sorted(newer, older, shared, list),
         NEW kept, kept = Protected(list, Last(older)), NEW C, C = CapJoin(list, kept),
         NEW turn \in {3, 4}, InTurn(C, kept, turn)
  PROVE  \A p \in 1..Len(C) : Untaken(C, newer, older, shared, turn, C[p])
  <1> DEFINE T == EntriesOf(E, L)
             n == Len(list)
  <1>1. list \in Seq(T) /\ list # <<>> /\ n \in Nat \ {0} /\ Last(list) = list[n]
    BY LineFacts
  <1>2. Last(older) \in StatesOf(E, L)
    BY LineFacts
  <1>3. \A p \in 1..Len(list) : list[p].id = kept => list[p].edit = LastEdit(older)
    <2>1. \A p \in 1..Len(list) : list[p].id = kept => list[p].edit = Last(older).edit
      BY <1>2, ProtectedFacts
    <2> QED BY <2>1 DEF LastEdit
  <1>4. /\ C \in Seq(T) /\ C # <<>> /\ \A j \in 1..Len(C) : \E l \in 1..Len(list) : C[j] = list[l]
        /\ list[n].kind \notin Turns => Left(T, list, C, kept)
    <2> HIDE DEF T
    <2> QED BY <1>1, CapJoinFacts
  <1>5. TurnOf(list[n].kind) = 0 => Last(C) = Last(list)
    <2>1. ASSUME TurnOf(list[n].kind) = 0 PROVE list[n].kind \notin Turns
      <3> DEFINE at == {t \in DOMAIN CapTurn : CapTurn[t] = list[n].kind}
      <3>1. at \in SUBSET (Nat \ {0})
        <4>1. DOMAIN CapTurn = 1..4
          BY DEF CapTurn
        <4> QED BY <4>1
      <3>2. FirstOf(at) = 0
        BY <2>1 DEF TurnOf
      <3>3. at = {}
        <4> HIDE DEF at
        <4> QED BY <3>1, <3>2, FirstOfFacts
      <3> QED BY <3>3 DEF Turns
    <2>2. Left(T, list, C, kept) => C[Len(C)] = list[n]
      BY <1>1 DEF Left
    <2>3. Last(C) = C[Len(C)]
      BY <1>4, LastOfSeq
    <2> QED BY <1>1, <1>4, <2>1, <2>2, <2>3
  <1>6. ASSUME NEW p \in 1..Len(C) PROVE Untaken(C, newer, older, shared, turn, C[p])
    <2>1. PICK l \in 1..Len(list) : C[p] = list[l]
      BY <1>4
    <2>2. CASE list[l].id = kept
      BY <1>3, <2>1, <2>2 DEF Untaken
    <2>3. CASE TurnOf(list[l].kind) = 0 \/ TurnOf(list[l].kind) >= turn
      <3>1. TurnOf(list[l].kind) \notin {1, 2} /\ (TurnOf(list[l].kind) = 3 => turn = 3)
        BY <2>3
      <3>2. CASE FromNewer(newer, shared, list[l])
        BY <2>1, <3>1, <3>2 DEF FromNewer, Untaken
      <3>3. CASE FromOlder(newer, older, list[l])
        BY <2>1, <3>1, <3>3 DEF FromOlder, Untaken
      <3>4. CASE OnTopThere(list, list[l])
        <4>1. list[l] = Last(list) /\ TurnOf(list[n].kind) = 0
          BY <1>1, <3>4 DEF OnTopThere
        <4> QED BY <1>5, <2>1, <4>1 DEF Untaken
      <3> QED BY <3>2, <3>3, <3>4 DEF Sorted
    <2>4. Stays(C[p], kept) \/ TurnOf(C[p].kind) >= turn
      BY DEF InTurn
    <2> QED BY <2>1, <2>2, <2>3, <2>4 DEF Stays
  <1> QED BY <1>6

----------------------------------------------------------------------------
(* A line within its cap joined again.                                     *)

\* All the places of a line are the line.
LEMMA ThoseAll ==
  ASSUME NEW S, NEW line \in Seq(S)
  PROVE  Those(line, 1..Len(line)) = line
  <1> DEFINE n == Len(line)
             Nth(k) == CHOOSE i \in 1..n : Cardinality({j \in 1..n : j < i}) = k - 1
             T == Those(line, 1..n)
  <1>1. n \in Nat /\ DOMAIN line = 1..n /\ line = [k \in 1..n |-> line[k]]
    BY LenProperties
  <1>2. Cardinality(1..n) = n
    BY <1>1, FS_Interval
  <1>3. T = [k \in 1..n |-> line[Nth(k)]]
    BY <1>2 DEF Those
  <1>4. \A i \in 1..n : Cardinality({j \in 1..n : j < i}) = i - 1
    <2>1. ASSUME NEW i \in 1..n PROVE Cardinality({j \in 1..n : j < i}) = i - 1
      <3>1. {j \in 1..n : j < i} = 1..(i - 1)
        BY <1>1
      <3>2. Cardinality(1..(i - 1)) = i - 1
        <4>1. i - 1 \in Nat
          BY <1>1
        <4> QED BY <4>1, FS_Interval
      <3> QED BY <3>1, <3>2
    <2> QED BY <2>1
  <1>5. \A k \in 1..n : Nth(k) = k
    BY <1>1, <1>4
  <1> HIDE DEF Nth, T
  <1>6. T = [k \in 1..n |-> line[k]]
    BY <1>3, <1>5
  <1> QED BY <1>1, <1>6 DEF T

\* A list within the cap is what the join's cap leaves of it.
LEMMA CapJoinWithin ==
  ASSUME NEW S, NEW list \in Seq(S), NEW kept, Len(list) <= History + 1
  PROVE  CapJoin(list, kept) = list
  <1> DEFINE excess == Len(list) - (History + 1)
  <1>1. Len(list) \in Nat /\ excess \in Int /\ excess <= 0
    BY LenProperties, HistoryAssumption
  <1>2. CapJoin(list, kept) = DropInTurn(DropRepeats(list, excess, kept), kept)
    BY DEF CapJoin
  <1> HIDE DEF excess
  <1>3. DropRepeats(list, excess, kept) = list
    BY <1>1, DropRepeatsFacts
  <1>4. DropInTurn(list, kept) = Those(list, (1..Len(list)) \ Gone(list, kept))
    BY DropInTurnIsThose
  <1>5. Gone(list, kept) = {}
    <2>1. ASSUME NEW i \in Gone(list, kept) PROVE FALSE
      <3> DEFINE before == Sooner(MayGo(list, kept), TurnKey(list), i)
      <3>1. Cardinality(before) < Len(list) - (History + 1)
        BY DEF Gone
      <3>2. before \subseteq 1..Len(list)
        BY DEF Sooner, MayGo
      <3> HIDE DEF before
      <3>3. Cardinality(before) \in Nat
        <4>1. IsFiniteSet(1..Len(list))
          BY <1>1, FS_Interval
        <4> QED BY <3>2, <4>1, FS_Subset, FS_CardinalityType
      <3> QED BY <1>1, <3>1, <3>3 DEF excess
    <2> QED BY <2>1
  <1>6. (1..Len(list)) \ Gone(list, kept) = 1..Len(list)
    BY <1>5
  <1> QED BY <1>2, <1>3, <1>4, <1>6, ThoseAll

\* A line within the cap that has seen the other copy joined with it is what it was.
LEMMA SeenIsKept ==
  ASSUME NEW E, NEW L, NEW newer \in Lines(StatesOf(E, L)), NEW older, NEW host, Len(newer) <= History + 1
  PROVE  JoinLine(newer, older, host, TRUE) = newer
  <1> DEFINE shared == SharedStates(newer, Walk(newer, older).shared)
             list == Kinds(newer, shared)
             kept == Protected(list, Last(older))
             n == Len(newer)
  <1>1. JoinLine(newer, older, host, TRUE) = Bare(CapJoin(list, kept))
    BY Zenon DEF JoinLine
  <1>2. n \in Nat /\ DOMAIN newer = 1..n /\ newer = [i \in 1..n |-> newer[i]] /\ \A i \in 1..n : newer[i] \in StatesOf(E, L)
    <2>1. newer \in Seq(StatesOf(E, L)) /\ n \in Nat /\ DOMAIN newer = 1..n /\ \A i \in 1..n : newer[i] \in StatesOf(E, L)
      BY LineFacts
    <2> QED BY <2>1, LenProperties
  <1> HIDE DEF shared, kept
  <1>3. /\ list \in Seq(EntriesOf(E, L)) /\ list \in Lines(EntriesOf(E, L)) /\ Len(list) = n
        /\ \A i \in 1..n : \E kind \in EntryKinds : list[i] = As(kind, newer[i])
    BY KindsFacts DEF Lines
  <1> HIDE DEF list
  <1>4. CapJoin(list, kept) = list
    BY <1>3, CapJoinWithin
  <1>5. \A i \in 1..n : [edit |-> list[i].edit, label |-> list[i].label, id |-> list[i].id] = newer[i]
    <2>1. ASSUME NEW i \in 1..n
          PROVE  [edit |-> list[i].edit, label |-> list[i].label, id |-> list[i].id] = newer[i]
      <3>1. PICK kind \in EntryKinds : list[i] = As(kind, newer[i])
        BY <1>3
      <3>2. list[i].edit = newer[i].edit /\ list[i].label = newer[i].label /\ list[i].id = newer[i].id
        BY <1>2, <3>1, AsFacts
      <3>3. newer[i] = [edit |-> newer[i].edit, label |-> newer[i].label, id |-> newer[i].id]
        BY <1>2 DEF StatesOf
      <3> QED BY <3>2, <3>3
    <2> QED BY <2>1
  <1>6. DOMAIN list = 1..n
    BY <1>3, LineFacts
  <1>7. Bare(list) = [i \in 1..n |-> newer[i]]
    BY <1>5, <1>6 DEF Bare
  <1> QED BY <1>1, <1>2, <1>4, <1>7
=============================================================================
