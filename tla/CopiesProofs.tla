---------------------------- MODULE CopiesProofs ----------------------------
(***************************************************************************)
(* What holds of the copies of one frame's sidecar on any number of        *)
(* machines, whatever they edit, however often and with whatever clocks.   *)
(***************************************************************************)
EXTENDS Copies, SidecarCapProofs, TLAPS

----------------------------------------------------------------------------
(* The saves two copies know, joined.                                      *)

\* The hashes of a sequence of saves.
Hashes(revisions) == {revisions[i].hash : i \in DOMAIN revisions}

\* A join's saves are those of the two: a save at least, and of each hash one at least.
LEMMA JoinRevisionsFacts ==
  ASSUME NEW R, \A r \in R : r.at \in Int, NEW newer \in Lines(R), NEW older \in Lines(R)
  PROVE  /\ JoinRevisions(newer, older) \in Lines(R)
         /\ Hashes(JoinRevisions(newer, older)) = Hashes(newer) \cup Hashes(older)
  <1> DEFINE others == {i \in DOMAIN older : \A j \in DOMAIN newer : newer[j].hash # older[i].hash}
             those == Those(older, others)
             both == newer \o those
             key == [i \in DOMAIN both |-> both[i].at]
             J == JoinRevisions(newer, older)
  <1>1. /\ newer \in Seq(R) /\ Len(newer) \in Nat \ {0} /\ DOMAIN newer = 1..Len(newer)
        /\ older \in Seq(R) /\ Len(older) \in Nat \ {0} /\ DOMAIN older = 1..Len(older)
    BY LineFacts
  <1>2. J = ByKey(both, key)
    BY DEF JoinRevisions
  <1>3. others \in SUBSET (1..Len(older))
    BY <1>1
  <1>4. \A i \in DOMAIN older : i \in others \/ \E j \in DOMAIN newer : newer[j].hash = older[i].hash
    OBVIOUS
  <1> HIDE DEF others, J
  <1>5. those \in Seq(R) /\ Picked(those, older, others)
    BY <1>1, <1>3, ThoseFacts
  <1>6. DOMAIN those = 1..Len(those) /\ Len(those) \in Nat
    BY <1>5, LenProperties
  <1> HIDE DEF those
  <1>7. /\ both \in Seq(R) /\ Len(both) = Len(newer) + Len(those)
        /\ \A i \in 1..(Len(newer) + Len(those)) :
             both[i] = IF i <= Len(newer) THEN newer[i] ELSE those[i - Len(newer)]
    BY <1>1, <1>5, ConcatProperties
  <1>8. DOMAIN both = 1..(Len(newer) + Len(those))
    BY <1>7, LenProperties
  <1> HIDE DEF both
  <1>9. \A i \in 1..Len(both) : key[i] \in Int
    <2>1. \A i \in 1..Len(both) : both[i] \in R
      BY <1>7, ElementOfSeq
    <2> QED BY <1>7, <1>8, <2>1
  <1> HIDE DEF key
  <1>10. J \in Seq(R) /\ Len(J) = Len(both) /\ Picked(J, both, 1..Len(both))
    BY <1>2, <1>7, <1>9, ByKeyFacts
  <1>11. DOMAIN J = 1..Len(J)
    BY <1>10, LenProperties
  <1>12. J # <<>>
    BY <1>1, <1>6, <1>7, <1>10, EmptySeq
  <1>13. Hashes(J) = Hashes(both)
    <2>1. \A k \in 1..Len(J) : J[k].hash \in Hashes(both)
      BY <1>7, <1>8, <1>10 DEF Picked, Hashes
    <2>2. \A i \in 1..Len(both) : both[i].hash \in Hashes(J)
      BY <1>10, <1>11 DEF Picked, Hashes
    <2>3. Hashes(J) \subseteq Hashes(both)
      BY <1>11, <2>1 DEF Hashes
    <2>4. Hashes(both) \subseteq Hashes(J)
      BY <1>7, <1>8, <2>2 DEF Hashes
    <2> QED BY <2>3, <2>4
  <1>14. \A i \in 1..Len(newer) : i \in DOMAIN both /\ both[i] = newer[i]
    BY <1>1, <1>6, <1>7, <1>8
  <1>15. \A i \in 1..Len(those) : Len(newer) + i \in DOMAIN both /\ both[Len(newer) + i] = those[i]
    <2>1. ASSUME NEW i \in 1..Len(those)
          PROVE  Len(newer) + i \in DOMAIN both /\ both[Len(newer) + i] = those[i]
      <3>1. Len(newer) + i \in 1..(Len(newer) + Len(those)) /\ ~(Len(newer) + i <= Len(newer))
            /\ (Len(newer) + i) - Len(newer) = i
        BY <1>1, <1>6
      <3> QED BY <1>7, <1>8, <3>1
    <2> QED BY <2>1
  <1>16. \A i \in DOMAIN both : (\E j \in 1..Len(newer) : both[i] = newer[j]) \/ (\E j \in 1..Len(those) : both[i] = those[j])
    <2>1. ASSUME NEW i \in DOMAIN both, i <= Len(newer) PROVE i \in 1..Len(newer) /\ both[i] = newer[i]
      BY <1>1, <1>6, <1>7, <1>8, <2>1
    <2>2. ASSUME NEW i \in DOMAIN both, ~(i <= Len(newer))
          PROVE  i - Len(newer) \in 1..Len(those) /\ both[i] = those[i - Len(newer)]
      BY <1>1, <1>6, <1>7, <1>8, <2>2
    <2> QED BY <2>1, <2>2
  <1>17. Hashes(both) \subseteq Hashes(newer) \cup Hashes(older)
    <2>1. \A j \in 1..Len(those) : those[j].hash \in Hashes(older)
      BY <1>1, <1>3, <1>5 DEF Picked, Hashes
    <2>2. \A j \in 1..Len(newer) : newer[j].hash \in Hashes(newer)
      BY <1>1 DEF Hashes
    <2>3. \A i \in DOMAIN both : both[i].hash \in Hashes(newer) \cup Hashes(older)
      BY <1>16, <2>1, <2>2
    <2> QED BY <2>3 DEF Hashes
  <1>18. Hashes(newer) \subseteq Hashes(both)
    BY <1>1, <1>14 DEF Hashes
  <1>19. Hashes(older) \subseteq Hashes(both)
    <2>1. ASSUME NEW i \in others PROVE older[i].hash \in Hashes(both)
      <3>1. PICK k \in 1..Len(those) : those[k] = older[i]
        BY <1>5 DEF Picked
      <3> QED BY <1>15, <3>1 DEF Hashes
    <2>2. ASSUME NEW i \in DOMAIN older PROVE older[i].hash \in Hashes(both)
      <3>1. CASE i \in others
        BY <2>1, <3>1
      <3>2. CASE \E j \in DOMAIN newer : newer[j].hash = older[i].hash
        BY <1>18, <3>2 DEF Hashes
      <3> QED BY <1>4, <3>1, <3>2
    <2> QED BY <2>2 DEF Hashes
  <1>20. Hashes(J) = Hashes(newer) \cup Hashes(older)
    BY <1>13, <1>17, <1>18, <1>19
  <1> QED BY <1>10, <1>12, <1>20 DEF J, Lines

----------------------------------------------------------------------------
(* Sidecars, and the inductive invariant.                                  *)

\* The edits and labels of the lines, the saves, the sets of a field.
AllEdits == {Opened} \cup UNION {Looks[m] : m \in Machines}
AllLabels == {"plain", "reconciled", "stood"} \X Nat
States == StatesOf(AllEdits, AllLabels)
Revisions == [hash : Nat, at : Int, host : Nat]
Sets == [at : Int, rev : Nat, was : Int]

\* The sidecars, each saved once at least.
Sidecars == [states : Lines(States), rating : Nat, set : Sets, revisions : Lines(Revisions), absorbed : SUBSET Nat]

\* What a hash is of.
Contents == [prev : Nat, states : Lines(States), rating : Nat, absorbed : SUBSET Nat]
Saves == [of : Contents, past : SUBSET Nat, rated : BOOLEAN]

\* A hash is made after the ones that what it is of names.
Grounded(saves) ==
  \A h \in DOMAIN saves : saves[h].of.prev < h /\ \A g \in saves[h].of.absorbed : g < h

\* The save all copies start from.
FirstSave == [hash |-> 1, at |-> 5, host |-> 1]

\* The edits of what a hash is of.
EditsAt(saves, h) == Edits(saves[h].of.states)

\* Each save a sidecar knows was made before its latest one, and the edits it had are there but
\* those put aside.
Knows(s, saves, gone) ==
  \A h \in Lineage(s) :
    /\ h \in DOMAIN saves /\ h <= Latest(s).hash
    /\ EditsAt(saves, h) \subseteq Edits(s.states) \cup gone

\* Its latest save is the first of all, or one made by its host's clock before now.
Stamped(s, time) ==
  \/ Latest(s) = FirstSave
  \/ /\ Latest(s).hash # 1 /\ Latest(s).host \in Machines
     /\ Latest(s).at - Skew[Latest(s).host] < time

\* It has the states its latest save's hash is of.
Hashed(s, saves) == saves[Latest(s).hash].of.states = s.states

AllCopies == {local[m] : m \in Machines} \cup {archive}

\* The invariant: of every copy the three, and no two copies with one latest save.
CopyInv ==
  /\ now \in Nat
  /\ minted \in Lines(Saves) /\ Grounded(minted)
  /\ local \in [Machines -> Sidecars] /\ archive \in Sidecars
  /\ \A s \in AllCopies : Knows(s, minted, aside) /\ Stamped(s, now) /\ Hashed(s, minted)
  /\ \A s, t \in AllCopies : Latest(s) = Latest(t) => s = t

\* A sidecar's fields, and its latest save among those it knows.
LEMMA SidecarFacts ==
  ASSUME NEW s \in Sidecars
  PROVE  /\ s.states \in Lines(States) /\ s.rating \in Nat /\ s.set \in Sets /\ s.revisions \in Lines(Revisions)
         /\ s.absorbed \in SUBSET Nat
         /\ Latest(s) \in Revisions /\ Latest(s).hash \in Nat /\ Latest(s).at \in Int /\ Latest(s).host \in Nat
         /\ Lineage(s) = Hashes(s.revisions) \cup s.absorbed
         /\ Latest(s).hash \in Lineage(s) /\ Lineage(s) \subseteq Nat
         /\ s.revisions # <<>>
  <1>1. /\ s.states \in Lines(States) /\ s.rating \in Nat /\ s.set \in Sets /\ s.revisions \in Lines(Revisions)
        /\ s.absorbed \in SUBSET Nat
    BY DEF Sidecars
  <1> DEFINE r == s.revisions
  <1>2. /\ Len(r) \in Nat \ {0} /\ DOMAIN r = 1..Len(r) /\ Last(r) = r[Len(r)] /\ r # <<>>
        /\ \A i \in 1..Len(r) : r[i] \in Revisions
    BY <1>1, LineFacts
  <1>3. Latest(s) = Last(r) /\ Lineage(s) = Hashes(r) \cup s.absorbed
    BY DEF Latest, Lineage, Hashes
  <1> HIDE DEF r
  <1>4. Len(r) \in 1..Len(r)
    BY <1>2
  <1>5. Latest(s) \in Revisions /\ Latest(s).hash \in Hashes(r)
    BY <1>2, <1>3, <1>4 DEF Hashes
  <1>6. \A i \in 1..Len(r) : r[i].hash \in Nat
    BY <1>2 DEF Revisions
  <1>7. Hashes(r) \subseteq Nat
    BY <1>2, <1>6 DEF Hashes
  <1>8. Latest(s).hash \in Nat /\ Latest(s).at \in Int /\ Latest(s).host \in Nat
    BY <1>5 DEF Revisions
  <1> QED BY <1>1, <1>2, <1>3, <1>5, <1>7, <1>8 DEF r

\* The labels of the states that a record and a join make are among the labels.
LEMMA LabelFacts ==
  ASSUME NEW host \in Nat
  PROVE  Plain \in AllLabels /\ Reconciled(host) \in AllLabels
  BY DEF Plain, Reconciled, AllLabels

\* Two sidecars, newer and older, joined: a sidecar that knows what both know, has every edit
\* of the newer copy, and of the older one, if it was not seen, or its line is full; and the
\* older copy's current one undo away.
LEMMA JoinOntoFacts ==
  ASSUME NEW newer \in Sidecars, NEW older \in Sidecars
  PROVE  /\ JoinOnto(newer, older) \in Sidecars
         /\ Lineage(JoinOnto(newer, older)) = Lineage(newer) \cup Lineage(older)
         /\ {Latest(newer).hash, Latest(older).hash} \subseteq JoinOnto(newer, older).absorbed
         /\ Edits(newer.states) \subseteq Edits(JoinOnto(newer, older).states) \/ AtCap(JoinOnto(newer, older))
         /\ ~KnowsRevision(newer, Latest(older).hash) =>
              /\ Edits(older.states) \subseteq Edits(JoinOnto(newer, older).states) \/ AtCap(JoinOnto(newer, older))
              /\ ShowsOlder(JoinOnto(newer, older).states, newer.states, older.states)
  <1> DEFINE n == newer
             o == older
             host == Latest(o).host
             seen == KnowsRevision(n, Latest(o).hash)
             line == JoinLine(n.states, o.states, host, seen)
             R == Rated(n, o)
             revs == JoinRevisions(n.revisions, o.revisions)
             gone == n.absorbed \cup o.absorbed \cup {Latest(n).hash, Latest(o).hash}
             J == JoinOnto(n, o)
  <1>1. /\ n.states \in Lines(States) /\ o.states \in Lines(States)
        /\ n.revisions \in Lines(Revisions) /\ o.revisions \in Lines(Revisions)
        /\ n.absorbed \in SUBSET Nat /\ o.absorbed \in SUBSET Nat
        /\ Latest(n).hash \in Nat /\ Latest(o).hash \in Nat /\ host \in Nat
        /\ Lineage(n) = Hashes(n.revisions) \cup n.absorbed /\ Lineage(o) = Hashes(o.revisions) \cup o.absorbed
        /\ Latest(n).hash \in Lineage(n) /\ Latest(o).hash \in Lineage(o)
    BY SidecarFacts
  <1>2. Reconciled(host) \in AllLabels
    BY <1>1, LabelFacts
  <1>3. J = [states |-> line, rating |-> R.rating, set |-> R.set, revisions |-> revs, absorbed |-> gone]
    BY DEF JoinOnto
  <1>4. R = n \/ R = o
    BY DEF Rated
  <1>5. /\ line \in Lines(States)
        /\ Edits(n.states) \subseteq Edits(line) \/ Len(line) >= History + 1
        /\ ~seen =>
             /\ Edits(o.states) \subseteq Edits(line) \/ Len(line) >= History + 1
             /\ ShowsOlder(line, n.states, o.states)
    <2> HIDE DEF seen
    <2> QED BY <1>1, <1>2, JoinLineFacts DEF States
  <1>6. revs \in Lines(Revisions) /\ Hashes(revs) = Hashes(n.revisions) \cup Hashes(o.revisions)
    <2>1. \A r \in Revisions : r.at \in Int
      BY DEF Revisions
    <2> QED BY <1>1, <2>1, JoinRevisionsFacts
  <1>7. gone \in SUBSET Nat
    BY <1>1
  <1> HIDE DEF line, R, revs, gone, J, seen
  <1>8. R.rating \in Nat /\ R.set \in Sets
    BY <1>4, SidecarFacts
  <1>9. J \in Sidecars /\ J.states = line /\ J.revisions = revs /\ J.absorbed = gone
    BY <1>3, <1>5, <1>6, <1>7, <1>8 DEF Sidecars
  <1>10. Lineage(J) = Hashes(revs) \cup gone
    BY <1>9, SidecarFacts
  <1>11. Lineage(J) = Lineage(n) \cup Lineage(o)
    BY <1>1, <1>6, <1>10 DEF gone
  <1>12. Len(line) >= History + 1 => AtCap(J)
    <2>1. Len(line) \in Nat /\ History \in Nat
      BY <1>5, LineFacts, HistoryAssumption
    <2> QED BY <1>9, <2>1 DEF AtCap
  <1>13. Latest(n).hash \in gone /\ Latest(o).hash \in gone
    BY DEF gone
  <1> QED BY <1>5, <1>9, <1>11, <1>12, <1>13 DEF J, seen

----------------------------------------------------------------------------
(* A save.                                                                 *)

\* The saves there are when s has been saved.
SavesWith(s, rated) ==
  IF HashOf(s) \in DOMAIN minted THEN minted
  ELSE Append(minted, [of |-> Content(s), past |-> Lineage(s), rated |-> rated])

\* The hashes after a save: the one of what is saved, that was there or is the next.
LEMMA HashFacts ==
  ASSUME minted \in Lines(Saves), Grounded(minted), NEW s \in Sidecars, Lineage(s) \subseteq DOMAIN minted,
         NEW rated \in BOOLEAN
  PROVE  /\ SavesWith(s, rated) \in Lines(Saves) /\ Grounded(SavesWith(s, rated))
         /\ DOMAIN SavesWith(s, rated) = DOMAIN minted \cup {HashOf(s)}
         /\ \A h \in DOMAIN minted : SavesWith(s, rated)[h] = minted[h]
         /\ HashOf(s) \in Nat /\ SavesWith(s, rated)[HashOf(s)].of = Content(s)
         /\ Content(s).prev = Latest(s).hash /\ Content(s).absorbed = s.absorbed /\ Content(s).states = s.states
         /\ Latest(s).hash < HashOf(s) /\ \A g \in s.absorbed : g < HashOf(s)
         /\ HashOf(s) \notin DOMAIN minted => SavesWith(s, rated)[HashOf(s)].past = Lineage(s)
  <1> DEFINE saves == SavesWith(s, rated)
             c == Content(s)
             same == {h \in DOMAIN minted : minted[h].of = c}
             g == HashOf(s)
             n == Len(minted)
             x == [of |-> c, past |-> Lineage(s), rated |-> rated]
  <1>1. /\ minted \in Seq(Saves) /\ n \in Nat \ {0} /\ DOMAIN minted = 1..n
        /\ s.states \in Lines(States) /\ s.rating \in Nat /\ s.absorbed \in SUBSET Nat /\ s.revisions # <<>>
        /\ Latest(s).hash \in Nat /\ Latest(s).hash \in Lineage(s) /\ Lineage(s) \subseteq Nat
        /\ s.absorbed \subseteq Lineage(s)
    BY LineFacts, SidecarFacts
  <1>2. c = [prev |-> Latest(s).hash, states |-> s.states, rating |-> s.rating, absorbed |-> s.absorbed]
    BY <1>1 DEF Content
  <1> HIDE DEF c
  <1>3. /\ c \in Contents
        /\ c.prev = Latest(s).hash /\ c.states = s.states /\ c.absorbed = s.absorbed
    BY <1>1, <1>2 DEF Contents
  <1>4. (g \in DOMAIN minted /\ minted[g].of = c) \/ (g \notin DOMAIN minted /\ g = n + 1)
    <2>1. g = IF same = {} THEN n + 1 ELSE CHOOSE h \in same : TRUE
      BY DEF HashOf, c
    <2>2. CASE same = {}
      BY <1>1, <2>1, <2>2
    <2>3. CASE same # {}
      BY <2>1, <2>3
    <2> QED BY <2>2, <2>3
  <1>5. saves = IF g \in DOMAIN minted THEN minted ELSE Append(minted, x)
    BY DEF c, SavesWith
  <1> HIDE DEF g, x, saves
  <1>6. CASE g \in DOMAIN minted /\ minted[g].of = c
    <2>1. saves = minted
      BY <1>5, <1>6
    <2>2. c.prev < g /\ \A h \in c.absorbed : h < g
      BY <1>6 DEF Grounded
    <2> QED BY <1>1, <1>3, <1>6, <2>1, <2>2 DEF g, c, saves
  <1>7. CASE g \notin DOMAIN minted /\ g = n + 1
    <2>1. x \in Saves /\ x.of = c /\ x.past = Lineage(s)
      BY <1>1, <1>3 DEF Saves, x
    <2>2. saves = Append(minted, x)
      BY <1>5, <1>7
    <2>3. /\ saves \in Seq(Saves) /\ saves # <<>> /\ Len(saves) = n + 1
          /\ \A h \in 1..n : saves[h] = minted[h]
          /\ saves[n + 1] = x
      BY <1>1, <2>1, <2>2, AppendProperties
    <2>4. DOMAIN saves = 1..(n + 1)
      BY <2>3, LenProperties
    <2>5. \A h \in Lineage(s) : h < n + 1
      BY <1>1
    <2>6. c.prev < n + 1 /\ \A h \in c.absorbed : h < n + 1
      BY <1>1, <1>3, <2>5
    <2>7. Grounded(saves)
      <3>1. ASSUME NEW h \in DOMAIN saves
            PROVE  saves[h].of.prev < h /\ \A k \in saves[h].of.absorbed : k < h
        <4>1. CASE h \in 1..n
          BY <1>1, <2>3, <4>1 DEF Grounded
        <4>2. CASE h = n + 1
          BY <2>1, <2>3, <2>6, <4>2
        <4> QED BY <1>1, <2>4, <4>1, <4>2
      <3> QED BY <3>1 DEF Grounded
    <2>8. DOMAIN minted \subseteq DOMAIN saves /\ g \in DOMAIN saves /\ g \in Nat /\ DOMAIN saves = DOMAIN minted \cup {g}
      BY <1>1, <1>7, <2>4
    <2> QED BY <1>1, <1>3, <1>7, <2>1, <2>3, <2>6, <2>7, <2>8 DEF Lines, g, c, saves
  <1> QED BY <1>4, <1>6, <1>7

\* A sidecar revised: its fields but the saves and the set, and the save made known to it.
LEMMA RevisedFacts ==
  ASSUME now \in Nat, NEW s \in Sidecars, NEW m \in Machines, NEW before \in Nat, HashOf(s) \in Nat
  PROVE  /\ Revised(s, m, before) \in Sidecars
         /\ Revised(s, m, before).states = s.states
         /\ Latest(Revised(s, m, before)) = [hash |-> HashOf(s), at |-> now + Skew[m], host |-> m]
         /\ Lineage(Revised(s, m, before)) = Lineage(s) \cup {HashOf(s)}
  <1> DEFINE g == HashOf(s)
             at == now + Skew[m]
             e == [hash |-> g, at |-> at, host |-> m]
             set == IF s.rating = before THEN s.set ELSE [at |-> at, rev |-> g, was |-> before]
             revs == Append(s.revisions, e)
             r == Revised(s, m, before)
             old == s.revisions
  <1>1. /\ s.states \in Lines(States) /\ s.rating \in Nat /\ s.set \in Sets /\ s.revisions \in Lines(Revisions)
        /\ s.absorbed \in SUBSET Nat /\ Lineage(s) = Hashes(s.revisions) \cup s.absorbed
    BY SidecarFacts
  <1>2. at \in Int /\ m \in Nat /\ g \in Nat
    BY CopiesAssumption
  <1>3. r = [s EXCEPT !.revisions = revs, !.set = set]
    BY DEF Revised
  <1> HIDE DEF g, at, r
  <1>4. e \in Revisions /\ e.hash = g /\ set \in Sets
    BY <1>1, <1>2 DEF Revisions, Sets
  <1> HIDE DEF e, set
  <1>5. /\ old \in Seq(Revisions) /\ Len(old) \in Nat \ {0} /\ DOMAIN old = 1..Len(old)
    BY <1>1, LineFacts
  <1> HIDE DEF old
  <1>6. /\ revs \in Seq(Revisions) /\ revs # <<>> /\ Len(revs) = Len(old) + 1
        /\ \A i \in 1..Len(old) : revs[i] = old[i]
        /\ revs[Len(old) + 1] = e
    BY <1>4, <1>5, AppendProperties DEF old
  <1>7. DOMAIN revs = 1..(Len(old) + 1) /\ Last(revs) = e
    BY <1>5, <1>6, LenProperties, LastOfSeq
  <1> HIDE DEF revs
  <1>8. Hashes(revs) = Hashes(old) \cup {g}
    <2>1. \A i \in DOMAIN revs : i \in DOMAIN old \/ i = Len(old) + 1
      BY <1>5, <1>7
    <2>2. \A i \in DOMAIN old : i \in DOMAIN revs /\ revs[i] = old[i]
      BY <1>5, <1>6, <1>7
    <2>3. Len(old) + 1 \in DOMAIN revs
      BY <1>5, <1>7
    <2>4. Hashes(revs) \subseteq Hashes(old) \cup {g}
      BY <1>4, <1>5, <1>6, <2>1, <2>2 DEF Hashes
    <2>5. Hashes(old) \subseteq Hashes(revs)
      BY <2>2 DEF Hashes
    <2>6. g \in Hashes(revs)
      BY <1>4, <1>6, <2>3 DEF Hashes
    <2> QED BY <2>4, <2>5, <2>6
  <1>9. revs \in Lines(Revisions)
    BY <1>6 DEF Lines
  <1>10. /\ r \in Sidecars
         /\ r.states = s.states /\ r.revisions = revs /\ r.absorbed = s.absorbed
    BY <1>1, <1>3, <1>4, <1>9 DEF Sidecars
  <1>11. Latest(r) = e
    BY <1>7, <1>10 DEF Latest
  <1>12. Lineage(r) = Hashes(revs) \cup s.absorbed
    BY <1>10, SidecarFacts
  <1>13. Lineage(r) = Lineage(s) \cup {g}
    BY <1>1, <1>8, <1>12 DEF old
  <1> QED BY <1>10, <1>11, <1>13 DEF r, e, at, g

\* What a sidecar must be for its save to keep the invariant: what it knows was made, before
\* its latest save or what it absorbed, and the edits of it are there or put aside.
Ready(s, saves, gone) ==
  \A h \in Lineage(s) :
    /\ h \in DOMAIN saves
    /\ \E g \in s.absorbed \cup {Latest(s).hash} : h <= g
    /\ EditsAt(saves, h) \subseteq Edits(s.states) \cup gone

\* A save keeps the invariant.
LEMMA SaveKeeps ==
  ASSUME CopyInv, NEW m \in Machines, NEW s \in Sidecars, NEW before \in Nat, Save(m, s, before),
         archive' = archive, aside \subseteq aside', Ready(s, minted, aside')
  PROVE  CopyInv'
  <1> DEFINE g == HashOf(s)
             r == Revised(s, m, before)
  <1>1. /\ now \in Nat /\ minted \in Lines(Saves) /\ Grounded(minted)
        /\ local \in [Machines -> Sidecars] /\ archive \in Sidecars
        /\ \A t \in AllCopies : Knows(t, minted, aside) /\ Stamped(t, now) /\ Hashed(t, minted)
        /\ \A t, u \in AllCopies : Latest(t) = Latest(u) => t = u
    BY DEF CopyInv
  <1>2. /\ local' = [local EXCEPT ![m] = r]
        /\ minted' = SavesWith(s, s.rating # before)
        /\ now' = now + 1
    BY DEF Save, SavesWith
  <1>3. Lineage(s) \subseteq DOMAIN minted /\ Latest(s).hash \in Lineage(s) /\ Lineage(s) \subseteq Nat
        /\ Latest(s).hash \in Nat /\ s.absorbed \subseteq Nat
    BY SidecarFacts DEF Ready
  <1>4. /\ minted' \in Lines(Saves) /\ Grounded(minted')
        /\ DOMAIN minted \subseteq DOMAIN minted' /\ \A h \in DOMAIN minted : minted'[h] = minted[h]
        /\ g \in Nat /\ g \in DOMAIN minted' /\ minted'[g].of.states = s.states
        /\ Latest(s).hash < g /\ \A h \in s.absorbed : h < g
    <2>1. (s.rating # before) \in BOOLEAN
      OBVIOUS
    <2> QED BY <1>1, <1>2, <1>3, <2>1, HashFacts
  <1>5. /\ r \in Sidecars /\ r.states = s.states
        /\ Latest(r) = [hash |-> g, at |-> now + Skew[m], host |-> m]
        /\ Lineage(r) = Lineage(s) \cup {g}
    BY <1>1, <1>4, RevisedFacts
  <1> HIDE DEF r, g
  <1>6. local' \in [Machines -> Sidecars] /\ archive' \in Sidecars
    BY <1>1, <1>2, <1>5
  <1>7. \A t \in AllCopies' : t = r \/ t \in AllCopies
    <2>1. ASSUME NEW t \in AllCopies' PROVE t = r \/ t \in AllCopies
      <3>1. CASE t = archive'
        BY <3>1 DEF AllCopies
      <3>2. CASE \E k \in Machines : t = local'[k]
        <4>1. PICK k \in Machines : t = local'[k]
          BY <3>2
        <4>2. CASE k = m
          BY <1>1, <1>2, <4>1, <4>2
        <4>3. CASE k # m
          BY <1>1, <1>2, <4>1, <4>3 DEF AllCopies
        <4> QED BY <4>2, <4>3
      <3> QED BY <3>1, <3>2 DEF AllCopies
    <2> QED BY <2>1
  <1>8. g # 1 /\ g \notin {1} /\ Latest(r).hash = g /\ Latest(r).host = m /\ Latest(r).at = now + Skew[m]
    <2>1. Latest(s).hash >= 1
      <3>1. DOMAIN minted = 1..Len(minted) /\ Len(minted) \in Nat
        BY <1>1, LineFacts
      <3> QED BY <1>3, <3>1
    <2> QED BY <1>3, <1>4, <1>5, <2>1
  <1>9. Knows(r, minted', aside')
    <2>1. ASSUME NEW h \in Lineage(s)
          PROVE  h \in DOMAIN minted' /\ h <= g /\ EditsAt(minted', h) \subseteq Edits(s.states) \cup aside'
      <3>1. /\ h \in DOMAIN minted
            /\ \E k \in s.absorbed \cup {Latest(s).hash} : h <= k
            /\ EditsAt(minted, h) \subseteq Edits(s.states) \cup aside'
        BY DEF Ready
      <3>2. h <= g
        BY <1>3, <1>4, <3>1
      <3>3. EditsAt(minted', h) = EditsAt(minted, h)
        BY <1>4, <3>1 DEF EditsAt
      <3> QED BY <1>4, <3>1, <3>2, <3>3
    <2>2. g \in DOMAIN minted' /\ g <= g /\ EditsAt(minted', g) \subseteq Edits(s.states) \cup aside'
      BY <1>4 DEF EditsAt
    <2> QED BY <1>5, <1>8, <2>1, <2>2 DEF Knows
  <1>10. Stamped(r, now')
    <2>1. (now + Skew[m]) - Skew[m] < now + 1
      BY <1>1, CopiesAssumption
    <2>2. Latest(r).at - Skew[Latest(r).host] = (now + Skew[m]) - Skew[m]
      BY <1>8
    <2>3. Latest(r).at - Skew[Latest(r).host] < now'
      BY <1>2, <2>1, <2>2
    <2>4. Latest(r).hash # 1 /\ Latest(r).host \in Machines
      BY <1>8
    <2> QED BY <2>3, <2>4, Zenon DEF Stamped
  <1>11. Hashed(r, minted')
    BY <1>4, <1>5, <1>8 DEF Hashed
  <1>12. ASSUME NEW t \in AllCopies PROVE Knows(t, minted', aside') /\ Stamped(t, now') /\ Hashed(t, minted')
    <2>1. t \in Sidecars
      BY <1>1 DEF AllCopies
    <2>2. Knows(t, minted, aside) /\ Stamped(t, now) /\ Hashed(t, minted)
      BY <1>1
    <2>3. Latest(t).hash \in Lineage(t) /\ Latest(t).host \in Nat /\ Latest(t).at \in Int
      BY <2>1, SidecarFacts
    <2>4. \A h \in Lineage(t) : h \in DOMAIN minted
      BY <2>2 DEF Knows
    <2>5. Knows(t, minted', aside')
      BY <1>4, <2>2 DEF Knows, EditsAt
    <2>6. Hashed(t, minted')
      BY <1>4, <2>2, <2>3, <2>4 DEF Hashed
    <2>7. Stamped(t, now')
      BY <1>1, <1>2, <2>2, <2>3, CopiesAssumption DEF Stamped
    <2> QED BY <2>5, <2>6, <2>7
  <1>13. ASSUME NEW t \in AllCopies PROVE Latest(t) # Latest(r)
    <2>1. Stamped(t, now)
      BY <1>1
    <2>2. CASE Latest(t) = FirstSave
      BY <1>8, <2>2 DEF FirstSave
    <2>3. CASE Latest(t).host = m /\ Latest(t).at - Skew[m] < now
      BY <1>1, <1>8, <2>3, CopiesAssumption
    <2> QED BY <1>8, <2>1, <2>2, <2>3 DEF Stamped
  <1>14. \A t \in AllCopies' : Knows(t, minted', aside') /\ Stamped(t, now') /\ Hashed(t, minted')
    BY <1>7, <1>9, <1>10, <1>11, <1>12
  <1>15. \A t, u \in AllCopies' : Latest(t) = Latest(u) => t = u
    BY <1>1, <1>7, <1>13
  <1>16. now' \in Nat
    BY <1>1, <1>2
  <1> QED BY <1>4, <1>6, <1>14, <1>15, <1>16 DEF CopyInv

----------------------------------------------------------------------------
(* Two copies compared, and joined.                                        *)

\* What each answer of the comparison that something is done about says of the two.
LEMMA Compared ==
  ASSUME NEW s, NEW t
  PROVE  /\ Compare(s, t) \in {"same edit", "diverged"} =>
              /\ s # t
              /\ \/ Latest(s).hash = Latest(t).hash
                 \/ ~KnowsRevision(t, Latest(s).hash) /\ ~KnowsRevision(s, Latest(t).hash)
         /\ Compare(s, t) = "ahead" => KnowsRevision(s, Latest(t).hash)
         /\ Compare(s, t) = "behind" => KnowsRevision(t, Latest(s).hash)
         /\ s # t /\ Latest(s).hash # Latest(t).hash
              /\ ~KnowsRevision(t, Latest(s).hash) /\ KnowsRevision(s, Latest(t).hash) => Compare(s, t) = "ahead"
  <1> DEFINE same == "same"
             same_edit == "same edit"
             behind == "behind"
             ahead == "ahead"
             diverged == "diverged"
             c == Compare(s, t)
  <1>1. c = IF s = t THEN same
            ELSE IF Latest(s).hash = Latest(t).hash THEN same_edit
            ELSE IF KnowsRevision(t, Latest(s).hash) THEN behind
            ELSE IF KnowsRevision(s, Latest(t).hash) THEN ahead
            ELSE diverged
    BY DEF Compare
  <1>2. /\ same # same_edit /\ same # diverged /\ same # ahead /\ same_edit # ahead /\ same_edit # diverged
        /\ behind # same /\ behind # same_edit /\ behind # diverged /\ behind # ahead /\ ahead # diverged
    OBVIOUS
  <1> HIDE DEF same, same_edit, behind, ahead, diverged, c
  <1>3. c \in {same_edit, diverged} =>
          /\ s # t
          /\ \/ Latest(s).hash = Latest(t).hash
             \/ ~KnowsRevision(t, Latest(s).hash) /\ ~KnowsRevision(s, Latest(t).hash)
    BY <1>1, <1>2, Zenon
  <1>4. c = ahead => KnowsRevision(s, Latest(t).hash)
    BY <1>1, <1>2, Zenon
  <1>a. c = behind => KnowsRevision(t, Latest(s).hash)
    BY <1>1, <1>2, Zenon
  <1>5. s # t /\ Latest(s).hash # Latest(t).hash
          /\ ~KnowsRevision(t, Latest(s).hash) /\ KnowsRevision(s, Latest(t).hash) => c = ahead
    BY <1>1, Zenon
  <1> QED BY <1>3, <1>4, <1>5, <1>a DEF same_edit, diverged, behind, ahead, c

\* A settle's join: a sidecar that knows what both copies know, with the edits of both but those
\* its cap took, and the older copy's current one undo away.
LEMMA SettleFacts ==
  ASSUME CopyInv, NEW m \in Machines, Apart(m),
         NEW newer, newer = Newer(local[m], archive), NEW older, older = Older(local[m], archive),
         NEW joined, joined = Join(local[m], archive)
  PROVE  /\ joined \in Sidecars
         /\ Lineage(joined) = Lineage(local[m]) \cup Lineage(archive)
         /\ {Latest(local[m]).hash, Latest(archive).hash} \subseteq joined.absorbed
         /\ Edits(local[m].states) \cup Edits(archive.states) \subseteq Edits(joined.states) \/ AtCap(joined)
         /\ ShowsOlder(joined.states, newer.states, older.states)
  <1> DEFINE a == local[m]
             b == archive
  <1>1. /\ a \in Sidecars /\ b \in Sidecars /\ a \in AllCopies /\ b \in AllCopies
        /\ Hashed(a, minted) /\ Hashed(b, minted)
    BY DEF CopyInv, AllCopies
  <1>2. joined = JoinOnto(newer, older)
    BY DEF Join
  <1>3. (newer = a /\ older = b) \/ (newer = b /\ older = a)
    BY DEF Newer, Older
  <1>4. \/ Latest(a).hash = Latest(b).hash
        \/ ~KnowsRevision(b, Latest(a).hash) /\ ~KnowsRevision(a, Latest(b).hash)
    BY Compared DEF Apart
  <1> HIDE DEF a, b
  <1>5. newer \in Sidecars /\ older \in Sidecars
    BY <1>1, <1>3
  <1> DEFINE J == JoinOnto(newer, older)
  <1>a. /\ J \in Sidecars
        /\ Lineage(J) = Lineage(newer) \cup Lineage(older)
        /\ {Latest(newer).hash, Latest(older).hash} \subseteq J.absorbed
        /\ Edits(newer.states) \subseteq Edits(J.states) \/ AtCap(J)
        /\ ~KnowsRevision(newer, Latest(older).hash) =>
             /\ Edits(older.states) \subseteq Edits(J.states) \/ AtCap(J)
             /\ ShowsOlder(J.states, newer.states, older.states)
    BY ONLY <1>5, JoinOntoFacts
  <1> HIDE DEF J
  <1>6. /\ joined \in Sidecars
        /\ Lineage(joined) = Lineage(newer) \cup Lineage(older)
        /\ {Latest(newer).hash, Latest(older).hash} \subseteq joined.absorbed
        /\ Edits(newer.states) \subseteq Edits(joined.states) \/ AtCap(joined)
        /\ ~KnowsRevision(newer, Latest(older).hash) =>
             /\ Edits(older.states) \subseteq Edits(joined.states) \/ AtCap(joined)
             /\ ShowsOlder(joined.states, newer.states, older.states)
    BY ONLY <1>2, <1>a DEF J
  <1>7. /\ Edits(older.states) \subseteq Edits(joined.states) \/ AtCap(joined)
        /\ ShowsOlder(joined.states, newer.states, older.states)
    <2>1. CASE Latest(a).hash = Latest(b).hash
      <3>1. newer.states = older.states
        BY <1>1, <1>3, <2>1 DEF Hashed
      <3>2. LastEdit(older.states) \in Edits(newer.states)
        BY <1>5, <3>1, SidecarFacts, LineFacts
      <3> QED BY <1>6, <3>1, <3>2 DEF ShowsOlder
    <2>2. CASE ~KnowsRevision(b, Latest(a).hash) /\ ~KnowsRevision(a, Latest(b).hash)
      BY <1>3, <1>6, <2>2
    <2> QED BY <1>4, <2>1, <2>2
  <1>8. /\ Lineage(joined) = Lineage(a) \cup Lineage(b)
        /\ {Latest(a).hash, Latest(b).hash} \subseteq joined.absorbed
        /\ Edits(a.states) \cup Edits(b.states) \subseteq Edits(joined.states) \/ AtCap(joined)
    BY <1>3, <1>6, <1>7
  <1> QED BY <1>6, <1>7, <1>8 DEF a, b

----------------------------------------------------------------------------
(* The invariant.                                                          *)

\* A sequence with an entry is a line.
LEMMA LongIsLine ==
  ASSUME NEW S, NEW line \in Seq(S), Len(line) > 0
  PROVE  line \in Lines(S) /\ line # <<>>
  BY EmptySeq DEF Lines

\* A line without its current state is one, if it had another.
LEMMA FrontIsLine ==
  ASSUME NEW line \in Lines(States), Len(line) > 1
  PROVE  Front(line) \in Lines(States)
  <1> DEFINE n == Len(line) - 1
             after == Front(line)
  <1>1. line \in Seq(States) /\ Len(line) \in Nat /\ n \in Nat /\ n > 0
    BY LineFacts
  <1>2. \A i \in 1..n : line[i] \in States
    <2>1. \A i \in 1..n : i \in 1..Len(line)
      BY <1>1
    <2> QED BY <1>1, <2>1, ElementOfSeq
  <1>3. after = SubSeq(line, 1, n)
    BY DEF Front
  <1> HIDE DEF n, after
  <1>4. SubSeq(line, 1, n) \in Seq(States) /\ Len(SubSeq(line, 1, n)) = n
    BY <1>1, <1>2, SubSeqProperties
  <1>5. after \in Lines(States)
    BY <1>1, <1>3, <1>4, LongIsLine
  <1> QED BY <1>5 DEF after

\* It holds of the copies all machines start from, which know the first save.
LEMMA CopyInitial == Init => CopyInv /\ Latest(archive).hash = 1 /\ Lineage(archive) = {1}
  <1> SUFFICES ASSUME Init PROVE CopyInv /\ Latest(archive).hash = 1 /\ Lineage(archive) = {1}
    OBVIOUS
  <1> DEFINE opened == State(ZeroId, Opened, Plain)
             line == <<opened>>
             revs == <<FirstSave>>
             first == [Unsaved EXCEPT !.revisions = revs]
             c == Content(Unsaved)
             x == [of |-> c, past |-> {}, rated |-> FALSE]
             unset == NeverSet
  <1>1. /\ now = 10 /\ aside = {} /\ local = [m \in Machines |-> first] /\ archive = first /\ minted = <<x>>
    BY DEF Init, FirstSave
  <1>2. line \in Lines(States)
    <2>1. opened \in States
      <3>1. Plain \in AllLabels
        BY LabelFacts
      <3>2. ZeroId \in Seq(AllEdits \X AllLabels)
        BY DEF ZeroId
      <3>3. Opened \in AllEdits
        BY DEF AllEdits
      <3> QED BY <3>1, <3>2, <3>3, StateFacts DEF States
    <2> HIDE DEF opened
    <2>2. line \in Seq(States) /\ Len(line) = 1
      BY <2>1
    <2> HIDE DEF line
    <2> QED BY <2>2, LongIsLine
  <1>3. revs \in Lines(Revisions) /\ Last(revs) = FirstSave /\ Hashes(revs) = {1}
    <2>1. FirstSave \in Revisions /\ FirstSave.hash = 1
      BY DEF FirstSave, Revisions
    <2>2. revs \in Seq(Revisions) /\ Len(revs) = 1 /\ revs[1] = FirstSave /\ DOMAIN revs = 1..1
      BY <2>1
    <2> HIDE DEF revs
    <2>3. revs \in Lines(Revisions) /\ revs # <<>>
      BY <2>2, LongIsLine
    <2>4. Hashes(revs) = {1}
      BY <2>1, <2>2 DEF Hashes
    <2>5. Last(revs) = FirstSave
      BY <2>2, <2>3, LastOfSeq
    <2> QED BY <2>3, <2>4, <2>5
  <1>4. unset \in Sets
    BY DEF NeverSet, Sets
  <1>5. first = [states |-> line, rating |-> 0, set |-> unset, revisions |-> revs, absorbed |-> {}]
    <2> DEFINE none == <<>>
    <2>1. Unsaved = [states |-> line, rating |-> 0, set |-> unset, revisions |-> none, absorbed |-> {}]
      BY DEF Unsaved
    <2>2. first = [Unsaved EXCEPT !.revisions = revs]
      OBVIOUS
    <2> HIDE DEF none, line, unset, revs, first
    <2> QED BY <2>1, <2>2
  <1>6. c = [prev |-> 0, states |-> line, rating |-> 0, absorbed |-> {}]
    BY DEF Unsaved, Content
  <1> HIDE DEF line, revs, first, c, unset
  <1>7. first \in Sidecars /\ first.states = line /\ first.revisions = revs /\ first.absorbed = {}
    BY <1>2, <1>3, <1>4, <1>5 DEF Sidecars
  <1>8. Latest(first) = FirstSave /\ Lineage(first) = {1}
    <2>1. Lineage(first) = Hashes(revs) \cup {}
      BY <1>7, SidecarFacts
    <2>2. Latest(first) = Last(revs)
      BY <1>7 DEF Latest
    <2> QED BY <1>3, <2>1, <2>2
  <1>9. c \in Contents /\ c.prev = 0 /\ c.absorbed = {} /\ c.states = line
    BY <1>2, <1>6 DEF Contents
  <1>10. x \in Saves /\ x.of = c
    BY <1>9 DEF Saves
  <1> HIDE DEF x
  <1>11. minted \in Lines(Saves) /\ minted[1] = x /\ DOMAIN minted = {1}
    <2>1. minted \in Seq(Saves) /\ Len(minted) = 1 /\ minted[1] = x /\ DOMAIN minted = {1}
      BY <1>1, <1>10
    <2>2. minted \in Lines(Saves)
      BY <2>1, LongIsLine
    <2> QED BY <2>1, <2>2
  <1>12. Grounded(minted)
    BY <1>9, <1>10, <1>11 DEF Grounded
  <1>13. Latest(first).hash = 1
    BY <1>8 DEF FirstSave
  <1>14. Knows(first, minted, aside)
    BY <1>7, <1>8, <1>9, <1>10, <1>11, <1>13 DEF Knows, EditsAt
  <1>15. Hashed(first, minted) /\ Stamped(first, now)
    BY <1>7, <1>8, <1>9, <1>10, <1>11, <1>13 DEF Hashed, Stamped
  <1>16. \A t \in AllCopies : t = first
    BY <1>1 DEF AllCopies
  <1>17. local \in [Machines -> Sidecars] /\ archive \in Sidecars /\ now \in Nat
    BY <1>1, <1>7
  <1>18. Latest(archive).hash = 1 /\ Lineage(archive) = {1}
    BY <1>1, <1>8, <1>13
  <1>19. CopyInv
    BY <1>11, <1>12, <1>14, <1>15, <1>16, <1>17 DEF CopyInv
  <1> QED BY <1>18, <1>19

\* A copy of this machine's with its states or its rating changed, which what it did put aside,
\* can be saved.
LEMMA ChangeIsReady ==
  ASSUME CopyInv, NEW m \in Machines, NEW states \in Lines(States), NEW rating \in Nat, NEW s,
         s = [local[m] EXCEPT !.states = states, !.rating = rating], NEW gone, aside \subseteq gone,
         Edits(local[m].states) \subseteq Edits(states) \cup gone
  PROVE  s \in Sidecars /\ Ready(s, minted, gone)
  <1> DEFINE a == local[m]
  <1>1. a \in Sidecars /\ a \in AllCopies /\ Knows(a, minted, aside)
    BY DEF CopyInv, AllCopies
  <1> HIDE DEF a
  <1>2. s = [a EXCEPT !.states = states, !.rating = rating]
    BY DEF a
  <1>3. /\ s \in Sidecars /\ s.states = states /\ s.revisions = a.revisions /\ s.absorbed = a.absorbed
    BY <1>1, <1>2 DEF Sidecars
  <1>4. Latest(s) = Latest(a) /\ Lineage(s) = Lineage(a)
    BY <1>3 DEF Latest, Lineage
  <1>5. Edits(a.states) \subseteq Edits(states) \cup gone
    BY DEF a
  <1>6. Ready(s, minted, gone)
    BY <1>1, <1>3, <1>4, <1>5 DEF Ready, Knows
  <1> QED BY <1>3, <1>6

\* The copies put in other places, or one of them dropped: the invariant stays.
LEMMA MovedKeeps ==
  ASSUME CopyInv, UNCHANGED <<now, minted, aside>>,
         local' \in [Machines -> Sidecars], archive' \in Sidecars, AllCopies' \subseteq AllCopies
  PROVE  CopyInv'
  <1>1. now' \in Nat /\ minted' \in Lines(Saves) /\ Grounded(minted')
    BY DEF CopyInv
  <1>2. \A s \in AllCopies' : Knows(s, minted', aside') /\ Stamped(s, now') /\ Hashed(s, minted')
    BY DEF CopyInv
  <1>3. \A s, t \in AllCopies' : Latest(s) = Latest(t) => s = t
    BY DEF CopyInv
  <1> QED BY <1>1, <1>2, <1>3 DEF CopyInv

\* Each step of a machine keeps it.
LEMMA CopySteps ==
  ASSUME CopyInv, [Next]_vars
  PROVE  CopyInv'
  <1>1. local \in [Machines -> Sidecars] /\ archive \in Sidecars
    BY DEF CopyInv
  <1>2. CASE UNCHANGED vars
    <2>1. UNCHANGED <<now, minted, aside>> /\ local' = local /\ archive' = archive
      BY <1>2 DEF vars
    <2>2. AllCopies' \subseteq AllCopies
      BY <2>1 DEF AllCopies
    <2> QED BY <1>1, <2>1, <2>2, MovedKeeps
  <1>3. ASSUME NEW m \in Machines, Edit(m) PROVE CopyInv'
    <2> DEFINE a == local[m]
    <2>1. PICK edit \in Looks[m] :
            /\ Save(m, [a EXCEPT !.states = Recorded(a.states, edit)], a.rating)
            /\ aside' = aside \cup (Edits(a.states) \ Edits(Recorded(a.states, edit)))
            /\ archive' = archive
      BY <1>3 DEF Edit
    <2> DEFINE after == Recorded(a.states, edit)
               s == [a EXCEPT !.states = after]
    <2>2. a \in Sidecars /\ a.states \in Lines(States) /\ a.rating \in Nat
      BY <1>1, SidecarFacts
    <2>3. after \in Lines(States)
      <3>1. edit \in AllEdits
        BY DEF AllEdits
      <3>2. Plain \in AllLabels
        BY LabelFacts
      <3> QED BY <2>2, <3>1, <3>2, RecordedFacts DEF States
    <2> HIDE DEF after
    <2>4. s = [a EXCEPT !.states = after, !.rating = a.rating]
      BY <2>2 DEF Sidecars
    <2>5. aside' = aside \cup (Edits(a.states) \ Edits(after)) /\ Save(m, s, a.rating)
      BY <2>1 DEF after
    <2>6. aside \subseteq aside' /\ Edits(a.states) \subseteq Edits(after) \cup aside'
      BY <2>5
    <2> HIDE DEF s
    <2>7. s \in Sidecars /\ Ready(s, minted, aside')
      BY <2>2, <2>3, <2>4, <2>6, ChangeIsReady
    <2> QED BY <2>1, <2>2, <2>5, <2>6, <2>7, SaveKeeps
  <1>4. ASSUME NEW m \in Machines, Undo(m) PROVE CopyInv'
    <2> DEFINE a == local[m]
               after == Front(a.states)
               s == [a EXCEPT !.states = after]
    <2>1. /\ Len(a.states) > 1
          /\ Save(m, s, a.rating)
          /\ aside' = aside \cup (Edits(a.states) \ Edits(after))
          /\ archive' = archive
      BY <1>4 DEF Undo
    <2>2. a \in Sidecars /\ a.states \in Lines(States) /\ a.rating \in Nat
      BY <1>1, SidecarFacts
    <2>3. after \in Lines(States)
      BY <2>1, <2>2, FrontIsLine
    <2> HIDE DEF after
    <2>4. s = [a EXCEPT !.states = after, !.rating = a.rating]
      BY <2>2 DEF Sidecars
    <2>5. aside \subseteq aside' /\ Edits(a.states) \subseteq Edits(after) \cup aside'
      BY <2>1
    <2> HIDE DEF s
    <2>6. s \in Sidecars /\ Ready(s, minted, aside')
      BY <2>2, <2>3, <2>4, <2>5, ChangeIsReady
    <2> QED BY <2>1, <2>2, <2>5, <2>6, SaveKeeps
  <1>5. ASSUME NEW m \in Machines, Rate(m) PROVE CopyInv'
    <2> DEFINE a == local[m]
    <2>1. PICK rating \in Ratings[m] :
            /\ Save(m, [a EXCEPT !.rating = rating], a.rating)
            /\ archive' = archive /\ aside' = aside
      BY <1>5 DEF Rate
    <2> DEFINE s == [a EXCEPT !.rating = rating]
    <2>2. a \in Sidecars /\ a.states \in Lines(States) /\ a.rating \in Nat /\ rating \in Nat
      BY <1>1, SidecarFacts, CopiesAssumption
    <2>3. s = [a EXCEPT !.states = a.states, !.rating = rating]
      BY <2>2 DEF Sidecars
    <2>4. aside \subseteq aside' /\ Edits(a.states) \subseteq Edits(a.states) \cup aside' /\ Save(m, s, a.rating)
      BY <2>1
    <2> HIDE DEF s
    <2>5. s \in Sidecars /\ Ready(s, minted, aside')
      BY <2>2, <2>3, <2>4, ChangeIsReady
    <2> QED BY <2>1, <2>2, <2>4, <2>5, SaveKeeps
  <1>6. ASSUME NEW m \in Machines, Push(m) PROVE CopyInv'
    <2>1. UNCHANGED <<now, minted, aside>> /\ local' = local /\ archive' = local[m]
      BY <1>6 DEF Push
    <2>2. AllCopies' \subseteq AllCopies
      BY <2>1 DEF AllCopies
    <2> QED BY <1>1, <2>1, <2>2, MovedKeeps
  <1>7. ASSUME NEW m \in Machines, Take(m) PROVE CopyInv'
    <2>1. UNCHANGED <<now, minted, aside>> /\ local' = [local EXCEPT ![m] = archive] /\ archive' = archive
      BY <1>7 DEF Take
    <2>2. local' \in [Machines -> Sidecars]
      BY <1>1, <2>1
    <2>3. \A k \in Machines : local'[k] = archive \/ local'[k] = local[k]
      BY <1>1, <2>1
    <2>4. AllCopies' \subseteq AllCopies
      BY <2>1, <2>3 DEF AllCopies
    <2> QED BY <1>1, <2>1, <2>2, <2>4, MovedKeeps
  <1>8. ASSUME NEW m \in Machines, Settle(m) PROVE CopyInv'
    <2> DEFINE a == local[m]
               b == archive
               s == Join(a, b)
    <2>1. /\ Apart(m) /\ archive' = archive
          /\ Save(m, s, s.rating)
          /\ aside' = IF AtCap(s) THEN aside \cup ((Edits(a.states) \cup Edits(b.states)) \ Edits(s.states)) ELSE aside
      BY <1>8 DEF Settle, Settled
    <2>2. /\ s \in Sidecars
          /\ Lineage(s) = Lineage(a) \cup Lineage(b)
          /\ {Latest(a).hash, Latest(b).hash} \subseteq s.absorbed
          /\ Edits(a.states) \cup Edits(b.states) \subseteq Edits(s.states) \/ AtCap(s)
      BY <2>1, SettleFacts
    <2>3. Knows(a, minted, aside) /\ Knows(b, minted, aside)
      BY DEF CopyInv, AllCopies
    <2> HIDE DEF a, b, s
    <2>4. aside \subseteq aside' /\ Edits(a.states) \cup Edits(b.states) \subseteq Edits(s.states) \cup aside'
      BY <2>1, <2>2
    <2>5. Ready(s, minted, aside')
      BY <2>2, <2>3, <2>4 DEF Ready, Knows
    <2>6. s.rating \in Nat
      BY <2>2, SidecarFacts
    <2> QED BY <2>1, <2>2, <2>4, <2>5, <2>6, SaveKeeps
  <1> QED BY <1>2, <1>3, <1>4, <1>5, <1>6, <1>7, <1>8 DEF Next

\* So it is an invariant: with any machines, clocks, edits, ratings and caps, no two copies
\* have one latest save, and each holds, or has put aside, the edits of the saves it knows.
THEOREM CopiesInvariance == Spec => []CopyInv
  <1>1. Init => CopyInv
    BY CopyInitial
  <1>2. CopyInv /\ [Next]_vars => CopyInv'
    BY CopySteps
  <1> QED BY <1>1, <1>2, PTL DEF Spec

----------------------------------------------------------------------------
(* What it gives.                                                          *)

\* The hashes have an order, as the strings they are have.
RanksTell == \A g, h \in Nat : HashRank(g) \in Int /\ (HashRank(g) = HashRank(h) => g = h)

\* Of two latest saves that are not one save, one is the newer (newer_of).
LEMMA NewerIsOne ==
  ASSUME RanksTell, NEW s \in Sidecars, NEW t \in Sidecars, Latest(s) # Latest(t)
  PROVE  IsNewer(s, t) <=> ~IsNewer(t, s)
  <1> DEFINE x == Latest(s)
             y == Latest(t)
  <1>1. x \in Revisions /\ y \in Revisions /\ x # y
    BY SidecarFacts
  <1> HIDE DEF x, y
  <1>2. /\ x.at \in Int /\ y.at \in Int /\ x.host \in Nat /\ y.host \in Nat /\ x.hash \in Nat /\ y.hash \in Nat
        /\ ~(x.at = y.at /\ x.hash = y.hash /\ x.host = y.host)
    BY <1>1 DEF Revisions
  <1>3. /\ HashRank(x.hash) \in Int /\ HashRank(y.hash) \in Int
        /\ HashRank(x.hash) = HashRank(y.hash) => x.hash = y.hash
    BY <1>2 DEF RanksTell
  <1>4. IsNewer(s, t) <=> \/ x.at > y.at
                          \/ x.at = y.at /\ HashRank(x.hash) > HashRank(y.hash)
                          \/ x.at = y.at /\ HashRank(x.hash) = HashRank(y.hash) /\ x.host > y.host
    BY DEF IsNewer, x, y
  <1>5. IsNewer(t, s) <=> \/ y.at > x.at
                          \/ y.at = x.at /\ HashRank(y.hash) > HashRank(x.hash)
                          \/ y.at = x.at /\ HashRank(y.hash) = HashRank(x.hash) /\ y.host > x.host
    BY DEF IsNewer, x, y
  <1> QED BY <1>2, <1>3, <1>4, <1>5

\* Two machines that settle the same two copies make one sidecar of them, whichever of the two
\* each calls its own: no two copies with one latest save differ, so one of them is the newer.
THEOREM JoinsAlwaysAgree == ASSUME RanksTell PROVE Spec => []JoinsAgree
  <1>1. ASSUME CopyInv, NEW m \in Machines, Apart(m) PROVE Join(local[m], archive) = Join(archive, local[m])
    <2> DEFINE a == local[m]
               b == archive
    <2>1. a \in Sidecars /\ b \in Sidecars /\ (Latest(a) = Latest(b) => a = b)
      BY <1>1 DEF CopyInv, AllCopies
    <2>2. a # b
      BY <1>1, Compared DEF Apart
    <2> HIDE DEF a, b
    <2>3. IsNewer(a, b) <=> ~IsNewer(b, a)
      BY <2>1, <2>2, NewerIsOne
    <2>4. Newer(a, b) = Newer(b, a) /\ Older(a, b) = Older(b, a)
      BY <2>3 DEF Newer, Older
    <2> QED BY <2>4 DEF Join, a, b
  <1>2. CopyInv => JoinsAgree
    BY <1>1 DEF JoinsAgree
  <1> QED BY <1>2, CopiesInvariance, PTL

\* Of two copies joined, no edit is gone from the result unless its line is full (join_line).
THEOREM OnlyTheCapLoses == Spec => []OnlyCapLoses
  <1>1. ASSUME CopyInv, NEW m \in Machines, Apart(m)
        PROVE  \/ Edits(local[m].states) \cup Edits(archive.states) \subseteq Edits(Join(local[m], archive).states)
               \/ AtCap(Join(local[m], archive))
    BY <1>1, SettleFacts
  <1>2. CopyInv => OnlyCapLoses
    BY <1>1, Zenon DEF OnlyCapLoses
  <1> QED BY <1>2, CopiesInvariance, PTL

\* After a join the newer copy's edit is shown, and the older copy's, if it stood nowhere in
\* the newer copy, is one undo away, whatever the cap took (join_line: the kept entry).
THEOREM AlwaysOneUndoAway == Spec => []OneUndoAway
  <1>1. ASSUME CopyInv, NEW m \in Machines, Apart(m)
        PROVE  ShowsBoth(Join(local[m], archive).states,
                         Newer(local[m], archive).states, Older(local[m], archive).states)
    <2> DEFINE newer == Newer(local[m], archive)
               older == Older(local[m], archive)
               joined == Join(local[m], archive)
    <2>1. ShowsOlder(joined.states, newer.states, older.states)
      BY <1>1, SettleFacts
    <2> HIDE DEF newer, older, joined
    <2>2. ShowsBoth(joined.states, newer.states, older.states)
      BY <2>1 DEF ShowsOlder, ShowsBoth
    <2> QED BY <2>2 DEF newer, older, joined
  <1>2. CopyInv => OneUndoAway
    BY <1>1 DEF OneUndoAway
  <1> QED BY <1>2, CopiesInvariance, PTL

\* A join, once saved, is ahead of both copies it was made of: its hash was made after the
\* latest saves of both, and a copy knows no save made after its latest one.
THEOREM JoinsGoAhead == Spec => []JoinGoesAhead
  <1>1. ASSUME CopyInv, NEW m \in Machines, Apart(m), NEW copy \in {local[m], archive}
        PROVE  Compare(Revised(Join(local[m], archive), m, Join(local[m], archive).rating), copy) = "ahead"
    <2> DEFINE a == local[m]
               b == archive
               s == Join(a, b)
               g == HashOf(s)
               r == Revised(s, m, s.rating)
    <2>1. /\ now \in Nat /\ minted \in Lines(Saves) /\ Grounded(minted)
          /\ copy \in Sidecars /\ a \in Sidecars /\ b \in Sidecars
          /\ Knows(a, minted, aside) /\ Knows(b, minted, aside) /\ Knows(copy, minted, aside)
      BY <1>1 DEF CopyInv, AllCopies
    <2>2. /\ s \in Sidecars
          /\ Lineage(s) = Lineage(a) \cup Lineage(b)
          /\ {Latest(a).hash, Latest(b).hash} \subseteq s.absorbed
      BY <1>1, SettleFacts
    <2>3. Lineage(s) \subseteq DOMAIN minted
      BY <2>1, <2>2 DEF Knows
    <2>4. g \in Nat /\ \A h \in s.absorbed : h < g
      <3> HIDE DEF s
      <3> QED BY <2>1, <2>2, <2>3, HashFacts
    <2>5. Latest(copy).hash \in s.absorbed /\ Latest(copy).hash \in Nat
      BY <2>1, <2>2, SidecarFacts
    <2> HIDE DEF s, g
    <2>6. r \in Sidecars /\ Latest(r).hash = g /\ Lineage(r) = Lineage(s) \cup {g}
      BY <2>1, <2>2, <2>4, SidecarFacts, RevisedFacts DEF g
    <2>7. Latest(copy).hash < g /\ Latest(r).hash # Latest(copy).hash
      BY <2>4, <2>5, <2>6
    <2>8. ~KnowsRevision(copy, Latest(r).hash)
      <3>1. \A h \in Lineage(copy) : h \in Nat /\ h <= Latest(copy).hash
        BY <2>1, SidecarFacts DEF Knows
      <3>2. g \notin Lineage(copy)
        BY <2>4, <2>5, <2>7, <3>1
      <3> QED BY <2>6, <3>2 DEF KnowsRevision
    <2>9. KnowsRevision(r, Latest(copy).hash)
      <3>1. s.absorbed \subseteq Lineage(s)
        BY DEF Lineage
      <3> QED BY <2>5, <2>6, <3>1 DEF KnowsRevision
    <2> HIDE DEF r
    <2>10. Compare(r, copy) = "ahead"
      <3>1. r # copy
        BY <2>7
      <3> QED BY <2>7, <2>8, <2>9, <3>1, Compared
    <2> QED BY <2>10 DEF r, s
  <1>2. CopyInv => JoinGoesAhead
    BY <1>1, Zenon DEF JoinGoesAhead
  <1> QED BY <1>2, CopiesInvariance, PTL

\* No edit leaves the archive's copy but one undone, or taken by a cap, somewhere: a machine
\* that puts its copy there knows the save that is there, so it has its edits or put them aside.
THEOREM AlwaysKeptOrPutAside == Spec => KeptOrPutAside
  <1>1. ASSUME CopyInv, NEW m \in Machines, Push(m) PROVE Edits(archive.states) \ Edits(archive'.states) \subseteq aside'
    <2> DEFINE a == local[m]
               b == archive
    <2>1. archive' = a /\ aside' = aside /\ KnowsRevision(a, Latest(b).hash)
      BY <1>1, Compared DEF Push
    <2>2. Knows(a, minted, aside) /\ Hashed(b, minted)
      BY <1>1 DEF CopyInv, AllCopies
    <2>3. Edits(b.states) \subseteq Edits(a.states) \cup aside
      BY <2>1, <2>2 DEF Knows, Hashed, EditsAt, KnowsRevision
    <2> QED BY <2>1, <2>3
  <1>2. ASSUME CopyInv, [Next]_vars PROVE Edits(archive.states) \ Edits(archive'.states) \subseteq aside'
    <2>1. CASE \E m \in Machines : Push(m)
      <3>1. PICK m \in Machines : Push(m)
        BY <2>1
      <3> QED BY <1>1, <1>2, <3>1
    <2>2. CASE archive' = archive
      BY <2>2
    <2>3. (\E m \in Machines : Push(m)) \/ archive' = archive
      BY <1>2 DEF Next, vars, Edit, Undo, Rate, Take, Settle
    <2> QED BY <2>1, <2>2, <2>3
  <1> QED BY <1>2, CopiesInvariance, PTL DEF Spec, KeptOrPutAside

----------------------------------------------------------------------------
(* What a copy knows of the saves.                                         *)

\* Those saves, and all that was known when they were made.
Under(saves, S) == S \cup UNION {saves[h].past : h \in S}

\* A save but the first knew the one before it, the ones its join absorbed, all they knew, and
\* no other.
Honest(saves) ==
  \A h \in DOMAIN saves :
    /\ saves[h].past \subseteq DOMAIN saves
    /\ \A g \in saves[h].past : saves[g].past \subseteq saves[h].past
    /\ h # 1 => saves[h].past = Under(saves, {saves[h].of.prev} \cup saves[h].of.absorbed)

\* A copy knows its latest save, all that save knew, and no other.
Rooted(s, saves) == Lineage(s) = Under(saves, {Latest(s).hash})

\* The invariant, of the saves that the copies know.
KnownInv == Honest(minted) /\ \A s \in AllCopies : Rooted(s, minted)

\* What a sidecar must be for its save to keep it: what it knows is what its latest save and
\* those it absorbed knew.
Founded(s, saves) ==
  /\ Lineage(s) \subseteq DOMAIN saves
  /\ Lineage(s) = Under(saves, {Latest(s).hash} \cup s.absorbed)

\* A rooted copy knows all that each save it knows knew.
LEMMA RootedIsClosed ==
  ASSUME Honest(minted), NEW s \in Sidecars, Rooted(s, minted), Latest(s).hash \in DOMAIN minted
  PROVE  /\ Lineage(s) \subseteq DOMAIN minted
         /\ \A h \in Lineage(s) : minted[h].past \subseteq Lineage(s)
  <1> DEFINE k == Latest(s).hash
  <1>1. Lineage(s) = {k} \cup minted[k].past
    BY DEF Rooted, Under
  <1>2. minted[k].past \subseteq DOMAIN minted /\ \A g \in minted[k].past : minted[g].past \subseteq minted[k].past
    BY DEF Honest
  <1>3. k \in DOMAIN minted
    OBVIOUS
  <1> HIDE DEF k
  <1> QED BY <1>1, <1>2, <1>3

\* What knows all that each save it knows knew, and nothing its latest and absorbed saves did
\* not, is founded.
LEMMA ClosedIsFounded ==
  ASSUME NEW s \in Sidecars, Lineage(s) \subseteq DOMAIN minted,
         \A h \in Lineage(s) : minted[h].past \subseteq Lineage(s),
         Lineage(s) \subseteq Under(minted, {Latest(s).hash} \cup s.absorbed)
  PROVE  Founded(s, minted)
  <1> DEFINE S == {Latest(s).hash} \cup s.absorbed
  <1>1. S \subseteq Lineage(s)
    BY SidecarFacts
  <1> HIDE DEF S
  <1>2. Under(minted, S) \subseteq Lineage(s)
    BY <1>1 DEF Under
  <1> QED BY <1>2 DEF Founded, S

\* A founded sidecar's save is rooted, whether its hash was there or is new, and the saves
\* stay honest: of one content one lineage only can be saved.
LEMMA SaveIsHonest ==
  ASSUME CopyInv, KnownInv, NEW m \in Machines, NEW s \in Sidecars, NEW before \in Nat, Save(m, s, before),
         archive' = archive, Founded(s, minted)
  PROVE  KnownInv' /\ Lineage(local'[m]) = Lineage(s) \cup {HashOf(s)}
  <1> DEFINE g == HashOf(s)
             r == Revised(s, m, before)
             S == {Latest(s).hash} \cup s.absorbed
             known == Lineage(s)
  <1>1. /\ now \in Nat /\ minted \in Lines(Saves) /\ Grounded(minted)
        /\ local \in [Machines -> Sidecars] /\ archive \in Sidecars
        /\ \A t \in AllCopies : Knows(t, minted, aside)
    BY DEF CopyInv
  <1>2. /\ local' = [local EXCEPT ![m] = r]
        /\ minted' = SavesWith(s, s.rating # before)
    BY DEF Save, SavesWith
  <1>3. known \subseteq DOMAIN minted /\ known = Under(minted, S)
    BY DEF Founded
  <1>4. /\ DOMAIN minted' = DOMAIN minted \cup {g} /\ \A h \in DOMAIN minted : minted'[h] = minted[h]
        /\ g \in Nat /\ Latest(s).hash < g
        /\ {minted'[g].of.prev} \cup minted'[g].of.absorbed = S
        /\ g \notin DOMAIN minted => minted'[g].past = known
    <2>1. (s.rating # before) \in BOOLEAN
      OBVIOUS
    <2> QED BY <1>1, <1>2, <1>3, <2>1, HashFacts
  <1>5. /\ r \in Sidecars /\ Latest(r).hash = g /\ Lineage(r) = known \cup {g}
    BY <1>1, <1>4, RevisedFacts
  <1>6. g # 1
    <2>1. DOMAIN minted = 1..Len(minted) /\ Len(minted) \in Nat
      BY <1>1, LineFacts
    <2>2. Latest(s).hash \in known
      BY SidecarFacts
    <2> QED BY <1>3, <1>4, <2>1, <2>2
  <1>7. S \subseteq known
    BY SidecarFacts
  <1> HIDE DEF g, r, S, known
  <1>8. /\ \A h \in DOMAIN minted : minted[h].past \subseteq DOMAIN minted
        /\ \A h \in DOMAIN minted : \A k \in minted[h].past : minted[k].past \subseteq minted[h].past
        /\ \A h \in DOMAIN minted : h # 1 =>
             minted[h].past = Under(minted, {minted[h].of.prev} \cup minted[h].of.absorbed)
    BY DEF KnownInv, Honest
  <1>9. \A T \in SUBSET DOMAIN minted : Under(minted', T) = Under(minted, T)
    BY <1>4 DEF Under
  <1>10. minted'[g].past = known
    <2>1. CASE g \in DOMAIN minted
      <3>1. minted[g].past = Under(minted, {minted[g].of.prev} \cup minted[g].of.absorbed)
        BY <1>6, <1>8, <2>1
      <3> QED BY <1>3, <1>4, <2>1, <3>1
    <2> QED BY <1>4, <2>1
  <1>11. \A k \in known : minted[k].past \subseteq known
    <2>1. ASSUME NEW k \in S PROVE minted[k].past \subseteq known
      BY <1>3 DEF Under
    <2>2. ASSUME NEW k \in known, k \notin S PROVE minted[k].past \subseteq known
      <3>1. PICK j \in S : k \in minted[j].past
        BY <1>3, <2>2 DEF Under
      <3>2. minted[k].past \subseteq minted[j].past
        BY <1>3, <1>7, <1>8, <3>1
      <3> QED BY <2>1, <3>1, <3>2
    <2> QED BY <2>1, <2>2
  <1>12. Honest(minted')
    <2>1. ASSUME NEW h \in DOMAIN minted', NEW k \in minted'[h].past PROVE minted'[k].past \subseteq minted'[h].past
      <3>1. CASE h = g
        BY <1>3, <1>4, <1>10, <1>11, <2>1, <3>1
      <3>2. CASE h \in DOMAIN minted
        BY <1>4, <1>8, <2>1, <3>2
      <3> QED BY <1>4, <3>1, <3>2
    <2>2. ASSUME NEW h \in DOMAIN minted' PROVE minted'[h].past \subseteq DOMAIN minted'
      BY <1>3, <1>4, <1>8, <1>10
    <2>3. ASSUME NEW h \in DOMAIN minted', h # 1
          PROVE  minted'[h].past = Under(minted', {minted'[h].of.prev} \cup minted'[h].of.absorbed)
      <3>1. CASE h = g
        <4>1. S \in SUBSET DOMAIN minted
          BY <1>3, <1>7
        <4> QED BY <1>3, <1>4, <1>9, <1>10, <3>1, <4>1
      <3>2. CASE h \in DOMAIN minted
        <4> DEFINE T == {minted[h].of.prev} \cup minted[h].of.absorbed
        <4>1. minted[h].past = Under(minted, T) /\ minted[h].past \subseteq DOMAIN minted
          BY <1>8, <2>3, <3>2
        <4>2. minted'[h] = minted[h]
          BY <1>4, <3>2
        <4> HIDE DEF T
        <4>3. T \in SUBSET DOMAIN minted
          BY <4>1 DEF Under
        <4>4. minted'[h].past = Under(minted', T)
          BY <1>9, <4>1, <4>2, <4>3
        <4> QED BY <4>2, <4>4 DEF T
      <3> QED BY <1>4, <3>1, <3>2
    <2> QED BY <2>1, <2>2, <2>3 DEF Honest
  <1>13. Rooted(r, minted')
    BY <1>5, <1>10 DEF Rooted, Under
  <1>14. ASSUME NEW t \in AllCopies PROVE Rooted(t, minted')
    <2>1. t \in Sidecars
      BY <1>1 DEF AllCopies
    <2>2. Latest(t).hash \in DOMAIN minted
      BY <1>1, <2>1, SidecarFacts DEF Knows
    <2>3. Rooted(t, minted)
      BY DEF KnownInv
    <2> QED BY <1>9, <2>2, <2>3 DEF Rooted
  <1>15. \A t \in AllCopies' : t = r \/ t \in AllCopies
    <2>1. \A k \in Machines : local'[k] = r \/ local'[k] = local[k]
      BY <1>1, <1>2
    <2> QED BY <2>1 DEF AllCopies
  <1>16. KnownInv'
    BY <1>12, <1>13, <1>14, <1>15 DEF KnownInv
  <1>17. local'[m] = r
    BY <1>1, <1>2
  <1> QED BY <1>5, <1>16, <1>17 DEF known, g

\* A copy of this machine's with its states or its rating changed is founded: it knows what it
\* knew.
LEMMA ChangeIsFounded ==
  ASSUME CopyInv, KnownInv, NEW m \in Machines, NEW s \in Sidecars,
         s.revisions = local[m].revisions, s.absorbed = local[m].absorbed
  PROVE  Founded(s, minted) /\ Lineage(s) = Lineage(local[m])
  <1> DEFINE a == local[m]
  <1>1. /\ a \in Sidecars /\ Latest(a).hash \in DOMAIN minted
        /\ Honest(minted) /\ Rooted(a, minted)
    <2>1. a \in Sidecars /\ a \in AllCopies
      BY DEF CopyInv, AllCopies
    <2>2. Knows(a, minted, aside) /\ Honest(minted) /\ Rooted(a, minted)
      BY <2>1 DEF CopyInv, KnownInv
    <2> QED BY <2>1, <2>2, SidecarFacts DEF Knows
  <1>2. s.revisions = a.revisions /\ s.absorbed = a.absorbed
    OBVIOUS
  <1> HIDE DEF a
  <1>3. Latest(s) = Latest(a) /\ Lineage(s) = Lineage(a)
    BY <1>2 DEF Latest, Lineage
  <1>4. Lineage(s) \subseteq DOMAIN minted /\ \A h \in Lineage(s) : minted[h].past \subseteq Lineage(s)
    BY <1>1, <1>3, RootedIsClosed
  <1>5. Lineage(s) \subseteq Under(minted, {Latest(s).hash} \cup s.absorbed)
    BY <1>1, <1>3 DEF Rooted, Under
  <1> QED BY <1>3, <1>4, <1>5, ClosedIsFounded DEF a

\* A settle's join is founded: it absorbed the latest saves of both copies.
LEMMA JoinIsFounded ==
  ASSUME CopyInv, KnownInv, NEW m \in Machines, Apart(m), NEW s, s = Join(local[m], archive)
  PROVE  s \in Sidecars /\ Founded(s, minted) /\ Lineage(s) = Lineage(local[m]) \cup Lineage(archive)
  <1> DEFINE a == local[m]
             b == archive
             S == {Latest(s).hash} \cup s.absorbed
  <1>1. /\ s \in Sidecars
        /\ Lineage(s) = Lineage(a) \cup Lineage(b)
        /\ {Latest(a).hash, Latest(b).hash} \subseteq s.absorbed
    BY SettleFacts
  <1>2. ASSUME NEW t \in {a, b}
        PROVE  /\ Lineage(t) \subseteq DOMAIN minted
               /\ \A h \in Lineage(t) : minted[h].past \subseteq Lineage(t)
               /\ Lineage(t) = Under(minted, {Latest(t).hash})
    <2>1. t \in Sidecars /\ t \in AllCopies
      BY DEF CopyInv, AllCopies
    <2>2. Knows(t, minted, aside) /\ Honest(minted) /\ Rooted(t, minted)
      BY <2>1 DEF CopyInv, KnownInv
    <2>3. Latest(t).hash \in DOMAIN minted
      BY <2>1, <2>2, SidecarFacts DEF Knows
    <2> QED BY <2>1, <2>2, <2>3, RootedIsClosed DEF Rooted
  <1> HIDE DEF a, b
  <1>3. Lineage(s) \subseteq DOMAIN minted /\ \A h \in Lineage(s) : minted[h].past \subseteq Lineage(s)
    BY <1>1, <1>2
  <1>4. Latest(a).hash \in S /\ Latest(b).hash \in S
    BY <1>1
  <1> HIDE DEF S
  <1>5. Lineage(a) \subseteq Under(minted, S) /\ Lineage(b) \subseteq Under(minted, S)
    BY <1>2, <1>4 DEF Under
  <1>6. Founded(s, minted)
    BY <1>1, <1>3, <1>5, ClosedIsFounded DEF S
  <1> QED BY <1>1, <1>6 DEF a, b

\* This machine's copy alone is another, and knows more by these saves.
LEMMA LearnsThese ==
  ASSUME local \in [Machines -> Sidecars], NEW m \in Machines, NEW s, local' = [local EXCEPT ![m] = s],
         archive' = archive, NEW saves, Lineage(s) = Lineage(local[m]) \cup saves
  PROVE  Spread!Learns(m, saves)
  <1> DEFINE before == [k \in Machines |-> Lineage(local[k])]
             after == [k \in Machines |-> Lineage(local'[k])]
  <1>1. \A k \in Machines : Lineage(local'[k]) = IF k = m THEN Lineage(local[m]) \cup saves ELSE Lineage(local[k])
    OBVIOUS
  <1>2. after = [before EXCEPT ![m] = @ \cup saves]
    BY <1>1
  <1>3. Lineage(archive') = Lineage(archive)
    OBVIOUS
  <1> QED BY <1>2, <1>3 DEF Spread!Learns

\* A change's save, of a copy that knows what it knew: the invariant stays, and this machine's
\* copy knows one save more.
LEMMA ChangeKnows ==
  ASSUME CopyInv, KnownInv, NEW m \in Machines, NEW s \in Sidecars, NEW before \in Nat, Save(m, s, before),
         archive' = archive, s.revisions = local[m].revisions, s.absorbed = local[m].absorbed
  PROVE  KnownInv' /\ Spread!Save(m)
  <1> DEFINE save == HashOf(s)
  <1>1. Founded(s, minted) /\ Lineage(s) = Lineage(local[m])
    BY ChangeIsFounded
  <1>2. KnownInv' /\ Lineage(local'[m]) = Lineage(local[m]) \cup {save}
    BY <1>1, SaveIsHonest
  <1>3. local \in [Machines -> Sidecars] /\ local' = [local EXCEPT ![m] = Revised(s, m, before)]
    BY DEF CopyInv, Save
  <1> HIDE DEF save
  <1>4. Spread!Learns(m, {save})
    <2>1. Lineage(Revised(s, m, before)) = Lineage(local[m]) \cup {save}
      BY <1>2, <1>3
    <2> QED BY <1>3, <2>1, LearnsThese
  <1>5. save \in [k \in Machines |-> Lineage(local'[k])][m]
    BY <1>2
  <1> QED BY <1>2, <1>4, <1>5 DEF Spread!Save

\* Copies put in other places keep it.
LEMMA MovedKnow ==
  ASSUME KnownInv, minted' = minted, AllCopies' \subseteq AllCopies
  PROVE  KnownInv'
  BY DEF KnownInv

\* A copy that knows another's latest save knows all it knows.
LEMMA KnowsAllOfIt ==
  ASSUME CopyInv, KnownInv, NEW s \in AllCopies, NEW t \in AllCopies, KnowsRevision(s, Latest(t).hash)
  PROVE  Lineage(t) \subseteq Lineage(s)
  <1> DEFINE k == Latest(t).hash
  <1>1. s \in Sidecars /\ Latest(s).hash \in DOMAIN minted /\ Honest(minted) /\ Rooted(s, minted) /\ Rooted(t, minted)
    <2>1. s \in Sidecars /\ Knows(s, minted, aside)
      BY DEF CopyInv, AllCopies
    <2> QED BY <2>1, SidecarFacts DEF KnownInv, Knows
  <1>2. \A h \in Lineage(s) : minted[h].past \subseteq Lineage(s)
    BY <1>1, RootedIsClosed
  <1>3. k \in Lineage(s) /\ Lineage(t) = {k} \cup minted[k].past
    BY <1>1 DEF KnowsRevision, Rooted, Under
  <1> HIDE DEF k
  <1> QED BY <1>2, <1>3

\* Each step of a machine keeps the invariant, and is one of SavesSpread or none of its.
LEMMA KnownSteps ==
  ASSUME CopyInv, KnownInv, [Next]_vars
  PROVE  KnownInv' /\ [Spread!Next]_(Spread!vars)
  <1>1. local \in [Machines -> Sidecars] /\ archive \in Sidecars
        /\ \A m \in Machines : local[m] \in Sidecars /\ local[m] \in AllCopies
        /\ archive \in AllCopies
    BY DEF CopyInv, AllCopies
  <1>2. CASE UNCHANGED vars
    <2>1. minted' = minted /\ local' = local /\ archive' = archive
      BY <1>2 DEF vars
    <2>2. AllCopies' \subseteq AllCopies
      BY <2>1 DEF AllCopies
    <2> QED BY <2>1, <2>2, MovedKnow DEF Spread!vars
  <1>3. ASSUME NEW m \in Machines, Edit(m) PROVE KnownInv' /\ Spread!Save(m)
    <2> DEFINE a == local[m]
    <2>1. PICK edit \in Looks[m] :
            /\ Save(m, [a EXCEPT !.states = Recorded(a.states, edit)], a.rating)
            /\ archive' = archive
      BY <1>3 DEF Edit
    <2> DEFINE after == Recorded(a.states, edit)
               s == [a EXCEPT !.states = after]
    <2>2. a \in Sidecars /\ a.states \in Lines(States) /\ a.rating \in Nat
      BY <1>1, SidecarFacts
    <2>3. after \in Lines(States)
      <3>1. edit \in AllEdits /\ Plain \in AllLabels
        BY LabelFacts DEF AllEdits
      <3> QED BY <2>2, <3>1, RecordedFacts DEF States
    <2> HIDE DEF after
    <2>4. s \in Sidecars /\ s.revisions = a.revisions /\ s.absorbed = a.absorbed
      BY <2>2, <2>3 DEF Sidecars
    <2>5. Save(m, s, a.rating)
      BY <2>1 DEF after
    <2> HIDE DEF s
    <2> QED BY <2>1, <2>2, <2>4, <2>5, ChangeKnows
  <1>4. ASSUME NEW m \in Machines, Undo(m) PROVE KnownInv' /\ Spread!Save(m)
    <2> DEFINE a == local[m]
               after == Front(a.states)
               s == [a EXCEPT !.states = after]
    <2>1. Len(a.states) > 1 /\ Save(m, s, a.rating) /\ archive' = archive
      BY <1>4 DEF Undo
    <2>2. a \in Sidecars /\ a.states \in Lines(States) /\ a.rating \in Nat
      BY <1>1, SidecarFacts
    <2>3. after \in Lines(States)
      BY <2>1, <2>2, FrontIsLine
    <2> HIDE DEF after
    <2>4. s \in Sidecars /\ s.revisions = a.revisions /\ s.absorbed = a.absorbed
      BY <2>2, <2>3 DEF Sidecars
    <2> HIDE DEF s
    <2> QED BY <2>1, <2>2, <2>4, ChangeKnows
  <1>5. ASSUME NEW m \in Machines, Rate(m) PROVE KnownInv' /\ Spread!Save(m)
    <2> DEFINE a == local[m]
    <2>1. PICK rating \in Ratings[m] :
            Save(m, [a EXCEPT !.rating = rating], a.rating) /\ archive' = archive
      BY <1>5 DEF Rate
    <2> DEFINE s == [a EXCEPT !.rating = rating]
    <2>2. a \in Sidecars /\ a.rating \in Nat /\ rating \in Nat
      BY <1>1, SidecarFacts, CopiesAssumption
    <2>3. s \in Sidecars /\ s.revisions = a.revisions /\ s.absorbed = a.absorbed
      BY <2>2 DEF Sidecars
    <2>4. Save(m, s, a.rating)
      BY <2>1
    <2> HIDE DEF s
    <2> QED BY <2>1, <2>2, <2>3, <2>4, ChangeKnows
  <1>6. ASSUME NEW m \in Machines, Push(m) PROVE KnownInv' /\ Spread!Put(m)
    <2>1. minted' = minted /\ local' = local /\ archive' = local[m]
      BY <1>6 DEF Push
    <2>2. AllCopies' \subseteq AllCopies
      BY <2>1 DEF AllCopies
    <2>3. Lineage(archive) \subseteq Lineage(local[m])
      <3>1. KnowsRevision(local[m], Latest(archive).hash)
        BY <1>6, Compared DEF Push
      <3> QED BY <1>1, <3>1, KnowsAllOfIt
    <2>4. Lineage(archive) \subseteq Lineage(archive') /\ Lineage(archive') \subseteq [k \in Machines |-> Lineage(local[k])][m]
      BY <2>1, <2>3
    <2>5. [k \in Machines |-> Lineage(local'[k])] = [k \in Machines |-> Lineage(local[k])]
      BY <2>1
    <2> QED BY <2>1, <2>2, <2>4, <2>5, MovedKnow DEF Spread!Put
  <1>7. ASSUME NEW m \in Machines, Take(m) PROVE KnownInv' /\ Spread!Take(m)
    <2>1. minted' = minted /\ local' = [local EXCEPT ![m] = archive] /\ archive' = archive
      BY <1>7 DEF Take
    <2>2. \A k \in Machines : local'[k] = archive \/ local'[k] = local[k]
      BY <1>1, <2>1
    <2>3. AllCopies' \subseteq AllCopies
      BY <2>1, <2>2 DEF AllCopies
    <2>4. Lineage(local[m]) \subseteq Lineage(archive)
      <3>1. KnowsRevision(archive, Latest(local[m]).hash)
        BY <1>7, Compared DEF Take
      <3> QED BY <1>1, <3>1, KnowsAllOfIt
    <2>5. local'[m] = archive
      BY <1>1, <2>1
    <2> DEFINE saves == [k \in Machines |-> Lineage(local'[k])][m] \cap Lineage(archive)
    <2>6. saves = Lineage(archive)
      BY <2>5
    <2> HIDE DEF saves
    <2>7. Lineage(archive) = Lineage(local[m]) \cup saves
      BY <2>4, <2>6
    <2>8. Spread!Learns(m, saves)
      BY <1>1, <2>1, <2>7, LearnsThese
    <2> QED BY <2>1, <2>3, <2>8, MovedKnow DEF Spread!Take, saves
  <1>8. ASSUME NEW m \in Machines, Settle(m) PROVE KnownInv' /\ Spread!Join(m)
    <2> DEFINE s == Join(local[m], archive)
               save == HashOf(s)
               r == Revised(s, m, s.rating)
               taken == [k \in Machines |-> Lineage(local'[k])][m] \cap Lineage(archive)
    <2>1. Apart(m) /\ archive' = archive /\ Save(m, s, s.rating)
      BY <1>8 DEF Settle, Settled
    <2>2. s \in Sidecars /\ Founded(s, minted) /\ Lineage(s) = Lineage(local[m]) \cup Lineage(archive)
      BY <2>1, JoinIsFounded
    <2>3. s.rating \in Nat
      BY <2>2, SidecarFacts
    <2>4. local' = [local EXCEPT ![m] = r]
      BY <2>1 DEF Save
    <2> HIDE DEF s, r
    <2>5. KnownInv' /\ Lineage(local'[m]) = Lineage(s) \cup {save}
      BY <2>1, <2>2, <2>3, SaveIsHonest
    <2>6. local'[m] = r
      BY <1>1, <2>4
    <2> HIDE DEF save
    <2>7. save \in [k \in Machines |-> Lineage(local'[k])][m]
      BY <2>5
    <2>8. taken = Lineage(archive)
      BY <2>2, <2>5
    <2> HIDE DEF taken
    <2>9. Lineage(r) = Lineage(local[m]) \cup ({save} \cup taken)
      BY <2>2, <2>5, <2>6, <2>8
    <2>10. Spread!Learns(m, {save} \cup taken)
      BY <1>1, <2>1, <2>4, <2>9, LearnsThese
    <2> QED BY <2>5, <2>7, <2>10 DEF Spread!Join, taken
  <1> QED BY <1>2, <1>3, <1>4, <1>5, <1>6, <1>7, <1>8 DEF Next, Spread!Next

\* The copies all machines start from know one save, which nothing was known at.
LEMMA KnownInitial == Init => KnownInv /\ Spread!Init
  <1> SUFFICES ASSUME Init PROVE KnownInv /\ Spread!Init
    OBVIOUS
  <1>1. CopyInv
    BY CopyInitial
  <1> DEFINE x == [of |-> Content(Unsaved), past |-> {}, rated |-> FALSE]
  <1>2. minted = <<x>> /\ local = [m \in Machines |-> archive]
        /\ archive = [Unsaved EXCEPT !.revisions = <<[hash |-> 1, at |-> 5, host |-> 1]>>]
    BY DEF Init
  <1>3. x.past = {} /\ DOMAIN minted = {1} /\ minted[1] = x
    BY <1>2
  <1> HIDE DEF x
  <1>4. Honest(minted)
    BY <1>3 DEF Honest
  <1>5. Latest(archive).hash = 1 /\ Lineage(archive) = {1}
    BY CopyInitial
  <1>6. Rooted(archive, minted)
    BY <1>3, <1>5 DEF Rooted, Under
  <1>7. \A s \in AllCopies : s = archive
    BY <1>2 DEF AllCopies
  <1>8. [m \in Machines |-> Lineage(local[m])] = [m \in Machines |-> {1}]
    BY <1>2, <1>5
  <1> QED BY <1>4, <1>5, <1>6, <1>7, <1>8 DEF KnownInv, Spread!Init

\* So it is one: of the copies of any number of machines, a copy knows its latest save and
\* just what that save knew, so a content has one lineage.
LEMMA AlwaysKnown == Spec => [](CopyInv /\ KnownInv)
  <1>1. Init => KnownInv
    BY KnownInitial
  <1>2. CopyInv /\ KnownInv /\ [Next]_vars => KnownInv'
    BY KnownSteps
  <1> QED BY <1>1, <1>2, CopiesInvariance, PTL DEF Spec

\* A copy that knows another's latest save knows every save that one does, so that what compare
\* finds by the latest saves alone is so of all of them.
THEOREM AheadAlwaysKnowsAll == Spec => []AheadKnowsAll
  <1>1. CopyInv /\ KnownInv => AheadKnowsAll
    BY KnowsAllOfIt DEF AheadKnowsAll, AllCopies
  <1> QED BY <1>1, AlwaysKnown, PTL

\* The copies of any number of machines, compared and joined, implement SavesSpread: a copy
\* that goes over another leaves no save unknown, and a join knows what both did.
THEOREM CopiesSpread == Spec => SavesSpread
  <1>1. Init => Spread!Init
    BY KnownInitial
  <1>2. CopyInv /\ KnownInv /\ [Next]_vars => [Spread!Next]_(Spread!vars)
    BY KnownSteps
  <1> QED BY <1>1, <1>2, AlwaysKnown, PTL DEF Spec, SavesSpread, Spread!Spec

----------------------------------------------------------------------------
(* What the cap of a join takes of what one copy only had.                 *)

\* A state that both have by the walk, and one the ids confirm was capped away, are of what the
\* other copy has or had.
LEMMA SharedWasHad ==
  ASSUME NEW E, NEW L, NEW newer \in Lines(StatesOf(E, L)), NEW older \in Lines(StatesOf(E, L)),
         NEW w, Taken(newer, older, w, Len(older)), NEW j \in SharedStates(newer, w.shared)
  PROVE  j \in HasHad(newer, older)
  <1> DEFINE S == StatesOf(E, L)
  <1>1. /\ newer \in Seq(S) /\ older \in Seq(S) /\ DOMAIN newer = 1..Len(newer) /\ DOMAIN older = 1..Len(older)
        /\ Len(newer) \in Nat
    BY LineFacts
  <1>2. PICK i \in w.shared :
          j = i \/ (1 < j /\ j < i /\ \A k \in j..(i - 1) : Confirms(newer[k], newer[k + 1]))
    BY DEF SharedStates
  <1>3. j \in 1..Len(newer) /\ i \in 1..Len(newer)
    BY <1>1 DEF SharedStates, Taken
  <1>4. ByContent(older, newer[i]) # 0
    <2>1. PICK k \in 1..Len(older) : Alike(newer[i], older[k])
      BY DEF Taken
    <2> DEFINE at == {l \in DOMAIN older : older[l].edit = newer[i].edit /\ older[l].label = newer[i].label}
    <2>2. k \in at
      BY <1>1, <2>1 DEF Alike
    <2>3. at \in SUBSET (Nat \ {0})
      BY <1>1
    <2>4. ByContent(older, newer[i]) = FirstOf(at)
      BY DEF ByContent
    <2> HIDE DEF at
    <2> QED BY <2>2, <2>3, <2>4, FirstOfFacts
  <1>5. i \in j..Len(newer) /\ \A k \in j..(i - 1) : Confirms(newer[k], newer[k + 1])
    BY <1>2, <1>3
  <1> QED BY <1>1, <1>3, <1>4, <1>5 DEF HasHad

LEMMA CappedWasHad ==
  ASSUME NEW E, NEW L, NEW newer \in Lines(StatesOf(E, L)), NEW older \in Lines(StatesOf(E, L)),
         NEW j \in CappedAway(newer, older)
  PROVE  j \in HasHad(older, newer)
  <1> DEFINE S == StatesOf(E, L)
  <1>1. /\ newer \in Seq(S) /\ older \in Seq(S) /\ DOMAIN newer = 1..Len(newer) /\ DOMAIN older = 1..Len(older)
        /\ Len(older) \in Nat /\ \A i \in 1..Len(newer) : newer[i] \in S
        /\ \A i \in 1..Len(older) : older[i] \in S
    BY LineFacts
  <1>2. PICK m \in (j + 1)..Len(older) :
          /\ ById(newer, older[m]) # 0
          /\ \A k \in j..(m - 1) : ById(newer, older[k]) = 0 /\ Confirms(older[k], older[k + 1])
    BY DEF CappedAway
  <1>3. j \in 2..(Len(older) - 1)
    BY DEF CappedAway
  <1>4. j \in 1..Len(older) /\ m \in 1..Len(older) /\ m \in j..Len(older)
    BY <1>1, <1>2, <1>3
  <1>5. ByContent(newer, older[m]) # 0
    <2> DEFINE i == ById(newer, older[m])
               at == {l \in DOMAIN newer : newer[l].edit = older[m].edit /\ newer[l].label = older[m].label}
    <2>1. i \in 1..Len(newer) /\ newer[i].id = older[m].id
      BY <1>1, <1>2, ByIdFacts
    <2> HIDE DEF i
    <2>2. newer[i].edit = older[m].edit /\ newer[i].label = older[m].label
      BY <1>1, <1>4, <2>1, IdTells
    <2>3. i \in at
      BY <1>1, <2>1, <2>2
    <2>4. at \in SUBSET (Nat \ {0})
      BY <1>1
    <2>5. ByContent(newer, older[m]) = FirstOf(at)
      BY DEF ByContent
    <2> HIDE DEF at
    <2> QED BY <2>3, <2>4, <2>5, FirstOfFacts
  <1> QED BY <1>1, <1>2, <1>4, <1>5 DEF HasHad

\* An edit the join's cap took from the list was an entry's that it took in its turn.
LEMMA LostInTurn ==
  ASSUME NEW E, NEW L, NEW list \in Lines(EntriesOf(E, L)), NEW kept, NEW C, C = CapJoin(list, kept),
         NEW e \in Edits(list), e \notin Edits(C)
  PROVE  \E m \in 1..Len(list) :
           list[m].edit = e /\ TurnOf(list[m].kind) # 0 /\ InTurn(C, kept, TurnOf(list[m].kind))
  <1> DEFINE T == EntriesOf(E, L)
  <1>1. list \in Seq(T) /\ list # <<>> /\ DOMAIN list = 1..Len(list)
    BY LineFacts
  <1>2. PICK l \in 1..Len(list) : list[l].edit = e
    BY <1>1 DEF Edits
  <1> HIDE DEF T
  <1>3. \/ list[l].edit \in Edits(C)
        \/ \E m \in 1..Len(list) :
             /\ list[m].edit = list[l].edit /\ TurnOf(list[m].kind) # 0
             /\ InTurn(C, kept, TurnOf(list[m].kind))
    BY <1>1, CapJoinOrder
  <1> QED BY <1>2, <1>3

\* What only the newer copy ever had is taken in the last turn.
LEMMA NewerOwnLast ==
  ASSUME NEW E, NEW L, NEW newer \in Lines(StatesOf(E, L)), NEW older \in Lines(StatesOf(E, L)),
         NEW w, Taken(newer, older, w, Len(older)), NEW list \in Lines(EntriesOf(E, L)),
         Sorted(newer, older, SharedStates(newer, w.shared), list), Edits(newer) \subseteq Edits(list),
         NEW kept, NEW C, C = CapJoin(list, kept), NEW e \in OwnEdits(newer, older), e \notin Edits(C)
  PROVE  InTurn(C, kept, 4)
  <1> DEFINE shared == SharedStates(newer, w.shared)
  <1>1. /\ DOMAIN newer = 1..Len(newer) /\ DOMAIN older = 1..Len(older) /\ Len(older) \in Nat \ {0}
        /\ Last(older) = older[Len(older)]
    BY LineFacts
  <1>2. e \in Edits(newer) /\ e \notin Edits(older) /\ \A i \in HasHad(newer, older) : newer[i].edit # e
    BY DEF OwnEdits
  <1>3. PICK m \in 1..Len(list) :
          list[m].edit = e /\ TurnOf(list[m].kind) # 0 /\ InTurn(C, kept, TurnOf(list[m].kind))
    BY <1>2, LostInTurn
  <1>4. \A k \in 1..Len(older) : older[k].edit # e
    BY <1>1, <1>2 DEF Edits
  <1>5. LastEdit(older) # e
    BY <1>1, <1>4 DEF LastEdit
  <1>6. \A k \in CappedAway(newer, older) : older[k].edit # e
    <2>1. \A k \in CappedAway(newer, older) : k \in 1..Len(older)
      BY <1>1 DEF CappedAway
    <2> QED BY <1>4, <2>1
  <1>7. \A j \in shared : newer[j].edit # e
    BY <1>2, SharedWasHad
  <1> HIDE DEF shared
  <1>8. FromNewer(newer, shared, list[m]) \/ FromOlder(newer, older, list[m]) \/ OnTopThere(list, list[m])
    BY DEF Sorted, shared
  <1>9. TurnOf(list[m].kind) = 4
    <2>1. CASE FromNewer(newer, shared, list[m])
      BY <1>3, <1>7, <2>1 DEF FromNewer
    <2>2. CASE FromOlder(newer, older, list[m])
      BY <1>3, <1>4, <1>5, <1>6, <2>2 DEF FromOlder
    <2>3. CASE OnTopThere(list, list[m])
      BY <1>3, <2>3 DEF OnTopThere
    <2> QED BY <1>8, <2>1, <2>2, <2>3
  <1> QED BY <1>3, <1>9

\* What only the older copy ever had is taken in the turn before.
LEMMA OlderOwnNext ==
  ASSUME NEW E, NEW L, NEW newer \in Lines(StatesOf(E, L)), NEW older \in Lines(StatesOf(E, L)),
         NEW w, Taken(newer, older, w, Len(older)), NEW list \in Lines(EntriesOf(E, L)),
         Sorted(newer, older, SharedStates(newer, w.shared), list),
         \A i \in 1..Len(w.own) : w.own[i].edit \in Edits(list),
         NEW kept, NEW C, C = CapJoin(list, kept), NEW e \in OwnEdits(older, newer), e \notin Edits(C)
  PROVE  InTurn(C, kept, 3)
  <1> DEFINE shared == SharedStates(newer, w.shared)
  <1>1. /\ DOMAIN newer = 1..Len(newer) /\ DOMAIN older = 1..Len(older)
        /\ Len(newer) \in Nat \ {0} /\ Len(older) \in Nat \ {0}
    BY LineFacts
  <1>2. e \in Edits(older) /\ e \notin Edits(newer) /\ \A i \in HasHad(older, newer) : older[i].edit # e
    BY DEF OwnEdits
  <1>3. \A k \in CappedAway(newer, older) : older[k].edit # e
    BY <1>2, CappedWasHad
  <1>4. e \in Edits(list)
    <2>1. PICK j \in 1..Len(older) : older[j].edit = e
      BY <1>1, <1>2 DEF Edits
    <2>2. j \notin CappedAway(newer, older)
      BY <1>3, <2>1
    <2>3. \E i \in 1..Len(w.own) : w.own[i] = older[j]
      BY <1>1, <1>2, <2>1, <2>2 DEF Taken
    <2> QED BY <2>1, <2>3
  <1>5. PICK m \in 1..Len(list) :
          list[m].edit = e /\ TurnOf(list[m].kind) # 0 /\ InTurn(C, kept, TurnOf(list[m].kind))
    BY <1>4, LostInTurn
  <1>6. \A k \in 1..Len(newer) : newer[k].edit # e
    BY <1>1, <1>2 DEF Edits
  <1>7. FromNewer(newer, shared, list[m]) \/ FromOlder(newer, older, list[m]) \/ OnTopThere(list, list[m])
    BY DEF Sorted
  <1> HIDE DEF shared
  <1>8. TurnOf(list[m].kind) = 3
    <2>1. CASE FromNewer(newer, shared, list[m])
      BY <1>1, <1>5, <1>6, <2>1 DEF FromNewer
    <2>2. CASE FromOlder(newer, older, list[m])
      BY <1>3, <1>5, <2>2 DEF FromOlder
    <2>3. CASE OnTopThere(list, list[m])
      BY <1>5, <2>3 DEF OnTopThere
    <2> QED BY <1>7, <2>1, <2>2, <2>3
  <1> QED BY <1>5, <1>8

\* A shared state's id is not among those of what the cap comes to in the third turn or later.
LEMMA SharedIdsGo ==
  ASSUME NEW E, NEW L, NEW newer \in Lines(StatesOf(E, L)), NEW older \in Lines(StatesOf(E, L)),
         NEW w, Taken(newer, older, w, Len(older)), NEW left, NEW turn, NEW x,
         Untaken(left, newer, older, SharedStates(newer, w.shared), turn, x),
         x.edit # LastEdit(older), x # Last(left)
  PROVE  x.id \notin SharedIds(newer, older)
  <1> DEFINE S == StatesOf(E, L)
             shared == SharedStates(newer, w.shared)
  <1>1. /\ newer \in Seq(S) /\ DOMAIN newer = 1..Len(newer) /\ DOMAIN older = 1..Len(older)
        /\ Len(newer) \in Nat \ {0} /\ Len(older) \in Nat
    BY LineFacts
  <1> SUFFICES ASSUME x.id \in SharedIds(newer, older) PROVE FALSE
    OBVIOUS
  <1>2. PICK i \in 2..Len(newer) :
          /\ newer[i].id = x.id /\ newer[i].id \in Ids(older)
          /\ \A j \in DOMAIN newer \ {i} : newer[j].id # newer[i].id
    BY DEF SharedIds
  <1>3. \A j \in 1..Len(newer) : newer[j].id = x.id => j = i
    BY <1>1, <1>2
  <1>4. i \in 1..Len(newer) /\ 1 \in 1..Len(newer) /\ i # 1
    BY <1>1
  <1>5. CASE x.id = newer[1].id
    BY <1>3, <1>4, <1>5
  <1>6. ASSUME NEW j \in 2..Len(newer), j \notin shared, x.id = newer[j].id PROVE FALSE
    <2>1. j = i
      BY <1>1, <1>3, <1>6
    <2>2. PICK k \in 1..Len(older) : older[k].id = newer[i].id
      BY <1>1, <1>2 DEF Ids
    <2> DEFINE there == ById(newer, older[k])
    <2>3. there # 0 /\ there \in 1..Len(newer) /\ newer[there].id = older[k].id
      <3>1. there # 0
        BY <1>1, <1>4, <2>2, ByIdFacts
      <3> QED BY <1>1, <3>1, ByIdFacts
    <2>4. there = i
      <3> HIDE DEF there
      <3> QED BY <1>2, <1>3, <2>2, <2>3
    <2>5. there \in w.shared
      BY <1>1, <2>3 DEF Taken
    <2>6. i \in w.shared
      BY <2>4, <2>5
    <2>7. i \in SharedStates(newer, w.shared)
      BY <1>1, <1>4, <2>6 DEF SharedStates
    <2> QED BY <1>6, <2>1, <2>7
  <1>7. ASSUME NEW j \in 1..Len(older), ById(newer, older[j]) = 0, x.id = older[j].id PROVE FALSE
    BY <1>1, <1>2, <1>4, <1>7, ByIdFacts
  <1> HIDE DEF shared
  <1> QED BY <1>5, <1>6, <1>7 DEF Untaken, shared

\* The cap of a join of an unseen copy takes of what one copy only had after what both had, and of what
\* only the newer one had after what only the older one had.
LEMMA JoinKeepsOwn ==
  ASSUME NEW E, NEW L, NEW newer \in Lines(StatesOf(E, L)), NEW older \in Lines(StatesOf(E, L)),
         NEW host, Reconciled(host) \in L
  PROVE  KeepsOwn(JoinLine(newer, older, host, FALSE), newer, older)
  <1> DEFINE T == EntriesOf(E, L)
             current == Last(older)
             w == Walk(newer, older)
             said == Said(newer, current)
             back == Room(newer, w.own, current, said, w.capped)
             shared == SharedStates(newer, w.shared)
             list == Joined(newer, older, w, back, said, host)
             kept == Protected(list, current)
             C == CapJoin(list, kept)
             J == JoinLine(newer, older, host, FALSE)
  <1>1. J = Bare(C)
    BY Zenon DEF JoinLine
  <1>2. Walked(StatesOf(E, L), newer, older, w, Len(older)) /\ Taken(newer, older, w, Len(older))
    BY WalkWalks, WalkTakes
  <1>3. Sorted(newer, older, shared, list)
    BY JoinedSorted
  <1>4. \A i \in 1..Len(w.own) : w.own[i].edit \in Edits(list)
    BY JoinedEntries
  <1>5. list \in Lines(T) /\ Edits(newer) \subseteq Edits(list)
    <2> HIDE DEF w
    <2> QED BY <1>2, JoinedFacts
  <1> HIDE DEF list, w, J
  <1>6. C \in Lines(T)
    <2>1. list \in Seq(T) /\ list # <<>>
      BY <1>5, LineFacts
    <2> HIDE DEF T
    <2> QED BY <2>1, CapJoinFacts DEF Lines
  <1>7. ASSUME NEW e \in OwnEdits(newer, older), e \notin Edits(C) PROVE InTurn(C, kept, 4)
    BY <1>2, <1>3, <1>5, <1>7, NewerOwnLast
  <1>8. ASSUME NEW e \in OwnEdits(older, newer), e \notin Edits(C) PROVE InTurn(C, kept, 3)
    BY <1>2, <1>3, <1>4, <1>5, <1>8, OlderOwnNext
  <1>9. InTurn(C, kept, 4) => InTurn(C, kept, 3)
    <2>1. \A p \in 1..Len(C) : TurnOf(C[p].kind) \in Nat
      BY TurnIsNat
    <2> HIDE DEF C, kept
    <2> QED BY <2>1 DEF InTurn
  <1>10. ASSUME NEW turn \in {3, 4}, InTurn(C, kept, turn)
         PROVE  \A p \in 1..Len(C) : Untaken(C, newer, older, shared, turn, C[p])
    BY <1>3, <1>5, <1>10, LeftInTurn
  <1> HIDE DEF C
  <1> DEFINE B == Bare(C)
  <1>11. /\ DOMAIN B = 1..Len(C) /\ Len(B) = Len(C) /\ Edits(B) = Edits(C)
         /\ \A i \in 1..Len(C) : B[i].edit = C[i].edit /\ B[i].id = C[i].id
         /\ \A i, j \in 1..Len(C) : C[i] = C[j] => B[i] = B[j]
    BY <1>6, BareEntries, BareFacts
  <1>12. /\ Last(C) = C[Len(C)] /\ Len(C) \in 1..Len(C) /\ Last(B) = B[Len(C)]
    <2>1. Last(C) = C[Len(C)] /\ Len(C) \in Nat \ {0}
      BY <1>6, LineFacts
    <2>2. B \in Lines(StatesOf(E, L))
      BY <1>6, BareFacts
    <2> HIDE DEF B
    <2>3. Last(B) = B[Len(B)]
      BY <2>2, LineFacts
    <2> QED BY <1>11, <2>1, <2>3
  <1> HIDE DEF B
  <1>13. ASSUME NEW s \in Middle(B, older)
         PROVE  \E p \in 1..Len(C) : /\ s.edit = C[p].edit /\ s.id = C[p].id
                                     /\ C[p].edit # LastEdit(older) /\ C[p] # Last(C)
    <2>1. PICK p \in 1..Len(C) : s = B[p] /\ B[p] # Last(B) /\ B[p].edit # LastEdit(older)
      BY <1>11 DEF Middle
    <2>2. C[p] # Last(C)
      BY <1>11, <1>12, <2>1
    <2> QED BY <1>11, <2>1, <2>2
  <1>14. ASSUME ~(OwnEdits(newer, older) \subseteq Edits(B)), NEW s \in Middle(B, older)
         PROVE  s.edit \notin OwnEdits(older, newer)
    <2>1. PICK p \in 1..Len(C) : /\ s.edit = C[p].edit /\ C[p].edit # LastEdit(older) /\ C[p] # Last(C)
      BY <1>13
    <2>2. Untaken(C, newer, older, shared, 4, C[p])
      BY <1>7, <1>10, <1>11, <1>14
    <2>3. \A j \in 1..Len(newer) : newer[j].edit \in Edits(newer)
      BY LineFacts DEF Edits
    <2>4. 1 \in 1..Len(newer) /\ \A j \in 2..Len(newer) : j \in 1..Len(newer)
      BY LineFacts
    <2> HIDE DEF shared
    <2>5. C[p].edit \in Edits(newer)
      BY <2>1, <2>2, <2>3, <2>4 DEF Untaken
    <2> QED BY <2>1, <2>5 DEF OwnEdits
  <1>15. ASSUME ~(OwnEdits(newer, older) \cup OwnEdits(older, newer) \subseteq Edits(B)), NEW s \in Middle(B, older)
         PROVE  s.id \notin SharedIds(newer, older)
    <2>1. PICK p \in 1..Len(C) : /\ s.id = C[p].id /\ C[p].edit # LastEdit(older) /\ C[p] # Last(C)
      BY <1>13
    <2>2. InTurn(C, kept, 3)
      BY <1>7, <1>8, <1>9, <1>11, <1>15
    <2>3. Untaken(C, newer, older, shared, 3, C[p])
      BY <1>10, <2>2
    <2>4. C[p].id \notin SharedIds(newer, older)
      BY <1>2, <2>1, <2>3, SharedIdsGo
    <2> QED BY <2>1, <2>4
  <1>16. KeepsOwn(B, newer, older)
    BY <1>14, <1>15 DEF KeepsOwn
  <1> QED BY <1>1, <1>16 DEF J, B

\* So of every two copies a settle joins: while the cap leaves a state that both had it has taken
\* none that one only had, and while it leaves one that only the older one had, none of the newer's.
THEOREM CapAlwaysKeepsOwn == Spec => []CapKeepsOwn
  <1>1. ASSUME NEW n \in Sidecars, NEW o \in Sidecars, ~KnowsRevision(n, Latest(o).hash)
        PROVE  KeepsOwn(JoinOnto(n, o).states, n.states, o.states)
    <2> DEFINE host == Latest(o).host
    <2>1. n.states \in Lines(States) /\ o.states \in Lines(States) /\ host \in Nat
      BY SidecarFacts
    <2>2. JoinOnto(n, o).states = JoinLine(n.states, o.states, host, FALSE)
      <3> DEFINE seen == KnowsRevision(n, Latest(o).hash)
      <3>1. JoinOnto(n, o).states = JoinLine(n.states, o.states, host, seen)
        BY DEF JoinOnto
      <3>2. seen = FALSE
        BY <1>1 DEF KnowsRevision
      <3> HIDE DEF seen, host
      <3> QED BY <3>1, <3>2
    <2> HIDE DEF host
    <2>3. Reconciled(host) \in AllLabels
      BY <2>1, LabelFacts
    <2>4. KeepsOwn(JoinLine(n.states, o.states, host, FALSE), n.states, o.states)
      BY <2>1, <2>3, JoinKeepsOwn DEF States
    <2> QED BY <2>2, <2>4
  <1>2. ASSUME CopyInv, NEW m \in Machines
        PROVE  \/ KnowsRevision(Newer(local[m], archive), Latest(Older(local[m], archive)).hash)
               \/ KeepsOwn(Join(local[m], archive).states,
                           Newer(local[m], archive).states, Older(local[m], archive).states)
    <2> DEFINE n == Newer(local[m], archive)
               o == Older(local[m], archive)
    <2>1. n \in Sidecars /\ o \in Sidecars
      BY <1>2 DEF CopyInv, Newer, Older
    <2>2. Join(local[m], archive) = JoinOnto(n, o)
      BY DEF Join
    <2> HIDE DEF n, o
    <2>3. KnowsRevision(n, Latest(o).hash) \/ KeepsOwn(JoinOnto(n, o).states, n.states, o.states)
      BY <1>1, <2>1
    <2> QED BY <2>2, <2>3 DEF n, o
  <1>3. CopyInv => CapKeepsOwn
    BY <1>2, Zenon DEF CapKeepsOwn
  <1> QED BY <1>3, CopiesInvariance, PTL

----------------------------------------------------------------------------
(* The lengths of the lines, and the save that set the rating.             *)

\* The rating was never set, or by a save the copy knows.
SetKnown(s) == s.set = NeverSet \/ s.set.rev \in Lineage(s)

\* The line is within the cap, or has few states.
Short(line) == Len(line) <= History + 1 \/ FewStates(line)

ShortInv == \A s \in AllCopies : SetKnown(s) /\ Short(s.states)

\* A revision sets the rating where it changed, and changes no other field but the saves.
LEMMA RevisedSets ==
  ASSUME now \in Nat, NEW s \in Sidecars, NEW m \in Machines, NEW before \in Nat, HashOf(s) \in Nat
  PROVE  /\ Revised(s, m, before).rating = s.rating
         /\ Revised(s, m, before).set = s.set \/ Revised(s, m, before).set.rev = HashOf(s)
         /\ before = s.rating => Revised(s, m, before).set = s.set
         /\ SetKnown(s) => SetKnown(Revised(s, m, before))
  <1> DEFINE g == HashOf(s)
             at == now + Skew[m]
             set == IF s.rating = before THEN s.set ELSE [at |-> at, rev |-> g, was |-> before]
             revs == Append(s.revisions, [hash |-> g, at |-> at, host |-> m])
             r == Revised(s, m, before)
  <1>1. r = [s EXCEPT !.revisions = revs, !.set = set]
    BY DEF Revised
  <1>2. r.rating = s.rating /\ r.set = set
    <2> HIDE DEF revs, set, r
    <2> QED BY <1>1 DEF Sidecars
  <1>3. (set = s.set \/ set.rev = g) /\ (before = s.rating => set = s.set)
    <2> HIDE DEF g, at
    <2> QED OBVIOUS
  <1>4. Lineage(r) = Lineage(s) \cup {g}
    BY RevisedFacts
  <1> HIDE DEF set, r, g
  <1>5. SetKnown(s) => SetKnown(r)
    BY <1>2, <1>3, <1>4 DEF SetKnown
  <1> QED BY <1>2, <1>3, <1>5 DEF r, g

\* A line without its current state is no longer, and has no other states.
LEMMA FrontIsShort ==
  ASSUME NEW line \in Lines(States), Len(line) > 1, Short(line)
  PROVE  Short(Front(line))
  <1> DEFINE n == Len(line) - 1
             f == Front(line)
  <1>1. /\ line \in Seq(States) /\ Len(line) \in Nat /\ n \in Nat /\ n > 0 /\ DOMAIN line = 1..Len(line)
    BY LineFacts
  <1>2. \A i \in 1..n : i \in 1..Len(line) /\ line[i] \in States
    <2>1. \A i \in 1..n : i \in 1..Len(line)
      BY <1>1
    <2> QED BY <1>1, <2>1, ElementOfSeq
  <1>3. f = SubSeq(line, 1, n)
    BY DEF Front
  <1> HIDE DEF n, f
  <1>4. /\ Len(SubSeq(line, 1, n)) = n /\ SubSeq(line, 1, n) \in Seq(States)
        /\ \A i \in 1..n : SubSeq(line, 1, n)[i] = line[i]
    <2>1. /\ SubSeq(line, 1, n) \in Seq(States)
          /\ Len(SubSeq(line, 1, n)) = IF 1 <= n THEN n - 1 + 1 ELSE 0
          /\ \A i \in 1..(n - 1 + 1) : SubSeq(line, 1, n)[i] = line[1 + i - 1]
      BY <1>1, <1>2, SubSeqProperties
    <2> QED BY <1>1, <2>1
  <1>5. DOMAIN f = 1..n /\ Len(f) = n /\ \A i \in 1..n : f[i] = line[i]
    BY <1>3, <1>4, LenProperties
  <1>6. Ids(f) \subseteq Ids(line)
    BY <1>1, <1>2, <1>5 DEF Ids
  <1>7. IsFiniteSet(Ids(line))
    <2> DEFINE at == [i \in 1..Len(line) |-> line[i].id]
    <2>1. IsFiniteSet(1..Len(line))
      BY <1>1, FS_Interval
    <2>2. at \in Surjection(1..Len(line), Ids(line))
      BY <1>1 DEF Ids, Surjection
    <2> HIDE DEF at
    <2> QED BY <2>1, <2>2, FS_Surjection
  <1>8. Cardinality(Ids(f)) <= Cardinality(Ids(line)) /\ Cardinality(Ids(f)) \in Nat /\ Cardinality(Ids(line)) \in Nat
    BY <1>6, <1>7, FS_Subset, FS_CardinalityType
  <1>9. Len(f) <= Len(line)
    BY <1>1, <1>5 DEF n
  <1>10. Short(f)
    BY <1>1, <1>5, <1>8, <1>9, HistoryAssumption DEF Short, FewStates
  <1> QED BY <1>10 DEF f

\* A join's rating was set by a save the two know, and its line is within the cap or has few states.
LEMMA JoinIsShort ==
  ASSUME NEW n \in Sidecars, NEW o \in Sidecars, SetKnown(n), SetKnown(o)
  PROVE  SetKnown(JoinOnto(n, o)) /\ Short(JoinOnto(n, o).states)
  <1> DEFINE J == JoinOnto(n, o)
             R == Rated(n, o)
             host == Latest(o).host
             seen == KnowsRevision(n, Latest(o).hash)
             line == JoinLine(n.states, o.states, host, seen)
  <1>1. J.states = line /\ J.set = R.set
    BY DEF JoinOnto
  <1>2. R = n \/ R = o
    BY DEF Rated
  <1>3. Lineage(J) = Lineage(n) \cup Lineage(o)
    BY JoinOntoFacts
  <1>4. n.states \in Lines(States) /\ o.states \in Lines(States) /\ host \in Nat
    BY SidecarFacts
  <1> HIDE DEF J, R, host, seen
  <1>5. SetKnown(J)
    BY <1>1, <1>2, <1>3 DEF SetKnown
  <1>6. Reconciled(host) \in AllLabels
    BY <1>4, LabelFacts
  <1>7. Short(line)
    BY <1>4, <1>6, JoinLineFew DEF States, Short, FewStates
  <1> QED BY <1>1, <1>5, <1>7 DEF J

\* A save of a sidecar of which they hold keeps them of all copies.
LEMMA SaveIsShort ==
  ASSUME CopyInv, ShortInv, NEW m \in Machines, NEW s \in Sidecars, NEW before \in Nat, Save(m, s, before),
         archive' = archive, Lineage(s) \subseteq DOMAIN minted, SetKnown(s), Short(s.states)
  PROVE  ShortInv'
  <1> DEFINE r == Revised(s, m, before)
  <1>1. /\ now \in Nat /\ minted \in Lines(Saves) /\ Grounded(minted) /\ local \in [Machines -> Sidecars]
    BY DEF CopyInv
  <1>2. HashOf(s) \in Nat
    <2>1. (s.rating # before) \in BOOLEAN
      OBVIOUS
    <2> QED BY <1>1, <2>1, HashFacts
  <1>3. SetKnown(r) /\ Short(r.states)
    <2>1. r.states = s.states
      BY <1>1, <1>2, RevisedFacts
    <2>2. SetKnown(r)
      BY <1>1, <1>2, RevisedSets
    <2> HIDE DEF r
    <2> QED BY <2>1, <2>2
  <1>4. local' = [local EXCEPT ![m] = r]
    BY DEF Save
  <1> HIDE DEF r
  <1>5. \A t \in AllCopies' : t = r \/ t \in AllCopies
    <2>1. \A k \in Machines : local'[k] = r \/ local'[k] = local[k]
      BY <1>1, <1>4
    <2> QED BY <2>1 DEF AllCopies
  <1> QED BY <1>3, <1>5 DEF ShortInv

\* A sidecar with those states whose saves were made, and whose rating was set by one of them.
ChangedTo(s, states) == s.states = states /\ Lineage(s) \subseteq DOMAIN minted /\ SetKnown(s)

\* A copy of this machine's with its states or its rating changed: its saves are as they were.
LEMMA ChangeIsShort ==
  ASSUME CopyInv, ShortInv, NEW m \in Machines, NEW states \in Lines(States), NEW rating \in Nat, NEW s,
         s = [local[m] EXCEPT !.states = states, !.rating = rating]
  PROVE  s \in Sidecars /\ ChangedTo(s, states)
  <1> DEFINE a == local[m]
  <1>1. a \in Sidecars /\ a \in AllCopies /\ Knows(a, minted, aside) /\ SetKnown(a)
    BY DEF CopyInv, AllCopies, ShortInv
  <1> HIDE DEF a
  <1>2. s = [a EXCEPT !.states = states, !.rating = rating]
    BY DEF a
  <1>3. s \in Sidecars /\ s.states = states /\ s.revisions = a.revisions /\ s.absorbed = a.absorbed /\ s.set = a.set
    BY <1>1, <1>2 DEF Sidecars
  <1>4. Lineage(s) = Lineage(a)
    BY <1>3 DEF Lineage
  <1>5. Lineage(a) \subseteq DOMAIN minted
    BY <1>1 DEF Knows
  <1> QED BY <1>1, <1>3, <1>4, <1>5 DEF SetKnown, ChangedTo

\* Each step keeps them.
LEMMA ShortSteps ==
  ASSUME CopyInv, ShortInv, [Next]_vars
  PROVE  ShortInv'
  <1>1. local \in [Machines -> Sidecars] /\ archive \in Sidecars
    BY DEF CopyInv
  <1>2. ASSUME AllCopies' \subseteq AllCopies PROVE ShortInv'
    BY <1>2 DEF ShortInv
  <1>3. CASE UNCHANGED vars
    <2>1. AllCopies' \subseteq AllCopies
      BY <1>3 DEF vars, AllCopies
    <2> QED BY <1>2, <2>1
  <1>4. ASSUME NEW m \in Machines, Edit(m) PROVE ShortInv'
    <2> DEFINE a == local[m]
    <2>1. PICK edit \in Looks[m] :
            /\ Save(m, [a EXCEPT !.states = Recorded(a.states, edit)], a.rating)
            /\ archive' = archive
      BY <1>4 DEF Edit
    <2> DEFINE after == Recorded(a.states, edit)
               s == [a EXCEPT !.states = after]
    <2>2. a \in Sidecars /\ a.states \in Lines(States) /\ a.rating \in Nat
      BY <1>1, SidecarFacts
    <2>3. after \in Lines(States) /\ Len(after) <= History + 1
      <3>1. edit \in AllEdits
        BY DEF AllEdits
      <3>2. Plain \in AllLabels
        BY LabelFacts
      <3> QED BY <2>2, <3>1, <3>2, RecordedFacts DEF States
    <2> HIDE DEF after
    <2>4. s = [a EXCEPT !.states = after, !.rating = a.rating]
      BY <2>2 DEF Sidecars
    <2>5. Save(m, s, a.rating)
      BY <2>1 DEF after
    <2> HIDE DEF s
    <2>6. s \in Sidecars /\ ChangedTo(s, after)
      BY <2>2, <2>3, <2>4, ChangeIsShort
    <2>7. Short(s.states)
      BY <2>3, <2>6 DEF Short, ChangedTo
    <2> QED BY <2>1, <2>2, <2>5, <2>6, <2>7, SaveIsShort DEF ChangedTo
  <1>5. ASSUME NEW m \in Machines, Undo(m) PROVE ShortInv'
    <2> DEFINE a == local[m]
               after == Front(a.states)
               s == [a EXCEPT !.states = after]
    <2>1. Len(a.states) > 1 /\ Save(m, s, a.rating) /\ archive' = archive
      BY <1>5 DEF Undo
    <2>2. a \in Sidecars /\ a.states \in Lines(States) /\ a.rating \in Nat /\ Short(a.states)
      BY <1>1, SidecarFacts DEF ShortInv, AllCopies
    <2>3. after \in Lines(States) /\ Short(after)
      BY <2>1, <2>2, FrontIsLine, FrontIsShort
    <2> HIDE DEF after
    <2>4. s = [a EXCEPT !.states = after, !.rating = a.rating]
      BY <2>2 DEF Sidecars
    <2> HIDE DEF s
    <2>5. s \in Sidecars /\ ChangedTo(s, after)
      BY <2>2, <2>3, <2>4, ChangeIsShort
    <2> QED BY <2>1, <2>2, <2>3, <2>5, SaveIsShort DEF ChangedTo
  <1>6. ASSUME NEW m \in Machines, Rate(m) PROVE ShortInv'
    <2> DEFINE a == local[m]
    <2>1. PICK rating \in Ratings[m] : Save(m, [a EXCEPT !.rating = rating], a.rating) /\ archive' = archive
      BY <1>6 DEF Rate
    <2> DEFINE s == [a EXCEPT !.rating = rating]
    <2>2. a \in Sidecars /\ a.states \in Lines(States) /\ a.rating \in Nat /\ rating \in Nat /\ Short(a.states)
      BY <1>1, SidecarFacts, CopiesAssumption DEF ShortInv, AllCopies
    <2>3. s = [a EXCEPT !.states = a.states, !.rating = rating]
      BY <2>2 DEF Sidecars
    <2>4. Save(m, s, a.rating)
      BY <2>1
    <2> HIDE DEF s
    <2>5. s \in Sidecars /\ ChangedTo(s, a.states)
      BY <2>2, <2>3, ChangeIsShort
    <2> QED BY <2>1, <2>2, <2>4, <2>5, SaveIsShort DEF ChangedTo
  <1>7. ASSUME NEW m \in Machines, Push(m) PROVE ShortInv'
    <2>1. AllCopies' \subseteq AllCopies
      BY <1>7 DEF Push, AllCopies
    <2> QED BY <1>2, <2>1
  <1>8. ASSUME NEW m \in Machines, Take(m) PROVE ShortInv'
    <2>1. local' = [local EXCEPT ![m] = archive] /\ archive' = archive
      BY <1>8 DEF Take
    <2>2. \A k \in Machines : local'[k] = archive \/ local'[k] = local[k]
      BY <1>1, <2>1
    <2>3. AllCopies' \subseteq AllCopies
      BY <2>1, <2>2 DEF AllCopies
    <2> QED BY <1>2, <2>3
  <1>9. ASSUME NEW m \in Machines, Settle(m) PROVE ShortInv'
    <2> DEFINE a == local[m]
               b == archive
               s == Join(a, b)
    <2>1. Apart(m) /\ archive' = archive /\ Save(m, s, s.rating)
      BY <1>9 DEF Settle, Settled
    <2>2. s \in Sidecars /\ Lineage(s) = Lineage(a) \cup Lineage(b)
      BY <2>1, SettleFacts
    <2>3. /\ Knows(a, minted, aside) /\ Knows(b, minted, aside) /\ SetKnown(a) /\ SetKnown(b)
          /\ a \in Sidecars /\ b \in Sidecars
      BY <1>1 DEF CopyInv, AllCopies, ShortInv
    <2>4. Lineage(s) \subseteq DOMAIN minted
      BY <2>2, <2>3 DEF Knows
    <2>5. SetKnown(s) /\ Short(s.states)
      <3> DEFINE n == Newer(a, b)
                 o == Older(a, b)
      <3>1. (n = a \/ n = b) /\ (o = a \/ o = b) /\ s = JoinOnto(n, o)
        BY DEF Newer, Older, Join
      <3> HIDE DEF n, o, s, a, b
      <3>2. SetKnown(JoinOnto(n, o)) /\ Short(JoinOnto(n, o).states)
        BY <2>3, <3>1, JoinIsShort
      <3> QED BY <3>1, <3>2
    <2>6. s.rating \in Nat
      BY <2>2, SidecarFacts
    <2> HIDE DEF s
    <2> QED BY <2>1, <2>2, <2>4, <2>5, <2>6, SaveIsShort
  <1> QED BY <1>3, <1>4, <1>5, <1>6, <1>7, <1>8, <1>9 DEF Next

\* They hold of the copies all machines start from.
LEMMA ShortInitial == Init => ShortInv
  <1> SUFFICES ASSUME Init PROVE ShortInv
    OBVIOUS
  <1> DEFINE line == <<State(ZeroId, Opened, Plain)>>
  <1>1. \A s \in AllCopies : s.states = line /\ s.set = NeverSet
    BY DEF AllCopies, Init, Unsaved
  <1>2. Len(line) = 1
    OBVIOUS
  <1> HIDE DEF line
  <1>3. Short(line)
    BY <1>2, HistoryAssumption DEF Short
  <1>4. \A s \in AllCopies : SetKnown(s) /\ Short(s.states)
    BY <1>1, <1>3 DEF SetKnown
  <1> QED BY <1>4 DEF ShortInv

\* So they hold of all copies.
LEMMA AlwaysShort == Spec => []ShortInv
  <1>1. CopyInv /\ ShortInv /\ [Next]_vars => ShortInv'
    BY ShortSteps
  <1> QED BY <1>1, ShortInitial, CopiesInvariance, PTL DEF Spec

\* A line has few states or is within its cap, and every save a copy names was made: the type of the
\* copies, with any machines, clocks, edits, ratings and caps.
THEOREM CopiesTyped == Spec => []TypeOK
  <1>1. CopyInv /\ ShortInv => TypeOK
    <2> SUFFICES ASSUME CopyInv, ShortInv, NEW s \in AllCopies PROVE SidecarOK(s)
      BY DEF TypeOK, AllCopies
    <2>1. s \in Sidecars /\ Knows(s, minted, aside)
      BY DEF CopyInv, AllCopies
    <2>2. s.states # <<>>
      BY <2>1, SidecarFacts, LineFacts
    <2>3. Lineage(s) \subseteq DOMAIN minted
      BY <2>1 DEF Knows
    <2> QED BY <2>2, <2>3 DEF ShortInv, SidecarOK, Short, SetKnown
  <1> QED BY <1>1, AlwaysShort, CopiesInvariance, PTL

----------------------------------------------------------------------------
(* A join made again.                                                      *)

\* The rating a join has does not give way to that of either of the copies it was made of: what
\* decided between the two decides the same again (meta::join).
LEMMA RatingHolds ==
  ASSUME NEW n \in Sidecars, NEW o \in Sidecars, SetKnown(n), SetKnown(o), NEW s,
         s.rating = Rated(n, o).rating, s.set = Rated(n, o).set,
         Lineage(n) \cup Lineage(o) \subseteq Lineage(s), NEW copy \in {n, o}
  PROVE  Rated(s, copy).rating = s.rating
  <1>1. /\ n.set.at \in Int /\ o.set.at \in Int /\ n.rating \in Nat /\ o.rating \in Nat
    BY SidecarFacts DEF Sets
  <1>2. ASSUME NEW c \in {n, o} PROVE Known(s, c) <=> ~IsWeak(c.set)
    <2>1. SetKnown(c) /\ Lineage(c) \subseteq Lineage(s)
      OBVIOUS
    <2>2. c.set = NeverSet => IsWeak(c.set)
      BY DEF NeverSet, IsWeak
    <2> QED BY <2>1, <2>2 DEF Known, SetKnown, KnowsRevision
  <1> SUFFICES ASSUME s.rating # copy.rating PROVE ~SecondWins(s, copy)
    BY DEF Rated
  <1>3. CASE Rated(n, o) = n /\ copy = o
    <2>1. n.rating # o.rating /\ ~SecondWins(n, o) /\ s.rating = n.rating /\ s.set = n.set
      BY <1>3 DEF Rated
    <2>2. /\ CarriesOld(o, s) <=> CarriesOld(o, n)
          /\ CarriesOld(s, o) <=> CarriesOld(n, o)
      BY <2>1 DEF CarriesOld
    <2>3. Known(o, s) <=> Known(o, n)
      BY <2>1 DEF Known
    <2>4. Known(s, o) <=> ~IsWeak(o.set)
      BY <1>2
    <2>5. Known(n, o) => ~IsWeak(o.set)
      BY DEF Known
    <2>6. ~SecondWins(s, o)
      BY <1>1, <2>1, <2>2, <2>3, <2>4, <2>5 DEF SecondWins, Known
    <2> QED BY <1>3, <2>6
  <1>4. CASE Rated(n, o) = o /\ copy = n
    <2>1. s.rating = o.rating /\ s.set = o.set /\ n.rating # o.rating
      BY <1>4
    <2>2. SecondWins(n, o)
      BY <1>4, <2>1 DEF Rated
    <2>3. /\ CarriesOld(n, s) <=> CarriesOld(n, o)
          /\ CarriesOld(s, n) <=> CarriesOld(o, n)
      BY <2>1 DEF CarriesOld
    <2>4. Known(n, s) <=> Known(n, o)
      BY <2>1 DEF Known
    <2>5. Known(s, n) <=> ~IsWeak(n.set)
      BY <1>2
    <2>6. ~SecondWins(s, n)
      BY <1>1, <2>1, <2>2, <2>3, <2>4, <2>5 DEF SecondWins, Known
    <2> QED BY <1>4, <2>6
  <1>5. Rated(n, o) = copy => s.rating = copy.rating
    OBVIOUS
  <1>6. Rated(n, o) \in {n, o}
    BY DEF Rated
  <1> QED BY <1>3, <1>4, <1>5, <1>6

\* A sidecar saved again later is the newer one, and has all it had.
LEMMA LaterFacts ==
  ASSUME NEW s \in Sidecars, NEW copy \in Sidecars, NEW l, l = Later(s, copy)
  PROVE  /\ l.states = s.states /\ l.rating = s.rating /\ l.set = s.set
         /\ Lineage(l) = Lineage(s)
         /\ Newer(l, copy) = l /\ Older(l, copy) = copy
  <1> DEFINE at == Latest(copy).at + 1
             r == s.revisions
             n == Len(r)
             q == [r EXCEPT ![n].at = at]
  <1>1. /\ r \in Seq(Revisions) /\ n \in Nat \ {0} /\ DOMAIN r = 1..n /\ Last(r) = r[n]
        /\ \A i \in 1..n : r[i] \in Revisions
    BY SidecarFacts, LineFacts
  <1>2. Latest(copy).at \in Int /\ at \in Int
    BY SidecarFacts
  <1>3. l = [s EXCEPT !.revisions = q]
    BY DEF Later
  <1>4. l.revisions = q /\ l.states = s.states /\ l.rating = s.rating /\ l.set = s.set /\ l.absorbed = s.absorbed
    <2> HIDE DEF q
    <2> QED BY <1>3 DEF Sidecars
  <1> HIDE DEF at, r
  <1>5. /\ DOMAIN q = 1..n /\ \A i \in 1..n : q[i].hash = r[i].hash
        /\ q[n].at = at
    BY <1>1 DEF Revisions
  <1>6. Hashes(q) = Hashes(r)
    <2> HIDE DEF q, n
    <2> QED BY <1>1, <1>5 DEF Hashes
  <1>7. Lineage(l) = Lineage(s)
    BY <1>4, <1>6 DEF Lineage, Hashes, r
  <1>8. Latest(l).at = at
    <2>1. q \in Seq(Revisions) /\ q # <<>> /\ Len(q) = n
      <3>1. \A i \in 1..n : q[i] \in Revisions
        BY <1>1, <1>2 DEF Revisions
      <3>2. q = [i \in 1..n |-> q[i]]
        BY <1>1
      <3> HIDE DEF q
      <3>3. q \in Seq(Revisions) /\ Len(q) = n
        BY <1>1, <3>1, <3>2
      <3> QED BY <1>1, <3>3, EmptySeq
    <2> HIDE DEF q
    <2>2. Last(q) = q[n]
      BY <2>1, LastOfSeq
    <2> QED BY <1>4, <1>5, <2>2 DEF Latest
  <1>9. ~IsNewer(copy, l)
    BY <1>2, <1>8 DEF IsNewer, at
  <1> QED BY <1>4, <1>7, <1>9 DEF Newer, Older

\* A join of two copies, saved, and then joined with either of them again once its clock is past it, is
\* what it was: a settle whose write was lost can be done once more.
THEOREM RejoinsAlwaysTheSame == Spec => []RejoinsTheSame
  <1>1. ASSUME CopyInv, ShortInv, NEW m \in Machines, Apart(m), NEW copy \in {local[m], archive}
        PROVE  LET s == Join(local[m], archive)
                   r == Revised(s, m, s.rating)
               IN  Covers(r, Join(Later(r, copy), copy))
    <2> DEFINE a == local[m]
               b == archive
               n == Newer(a, b)
               o == Older(a, b)
               s == Join(a, b)
               g == HashOf(s)
               r == Revised(s, m, s.rating)
               l == Later(r, copy)
    <2>1. /\ now \in Nat /\ minted \in Lines(Saves) /\ Grounded(minted)
          /\ copy \in Sidecars /\ a \in Sidecars /\ b \in Sidecars
          /\ Knows(a, minted, aside) /\ Knows(b, minted, aside) /\ SetKnown(a) /\ SetKnown(b)
      BY <1>1 DEF CopyInv, AllCopies, ShortInv
    <2>2. (n = a /\ o = b) \/ (n = b /\ o = a)
      BY DEF Newer, Older
    <2>3. s = JoinOnto(n, o)
      BY DEF Join
    <2>4. s \in Sidecars /\ Lineage(s) = Lineage(a) \cup Lineage(b)
      BY <1>1, SettleFacts
    <2> HIDE DEF n, o, s
    <2>5. s.rating = Rated(n, o).rating /\ s.set = Rated(n, o).set /\ s.rating \in Nat
      BY <2>3, <2>4, SidecarFacts DEF JoinOnto
    <2>6. Lineage(s) \subseteq DOMAIN minted
      BY <2>1, <2>4 DEF Knows
    <2>7. g \in Nat
      <3>1. (s.rating # s.rating) \in BOOLEAN
        OBVIOUS
      <3> QED BY <2>1, <2>4, <2>6, <3>1, HashFacts
    <2>8. r \in Sidecars /\ r.states = s.states /\ Lineage(r) = Lineage(s) \cup {g}
      BY <2>1, <2>4, <2>5, <2>7, RevisedFacts
    <2>9. r.rating = s.rating /\ r.set = s.set
      BY <2>1, <2>4, <2>5, <2>7, RevisedSets
    <2> HIDE DEF r, g
    <2>10. /\ l.states = r.states /\ l.rating = r.rating /\ l.set = r.set
           /\ Lineage(l) = Lineage(r)
           /\ Newer(l, copy) = l /\ Older(l, copy) = copy
      BY <2>1, <2>8, LaterFacts
    <2> HIDE DEF l
    <2>11. n \in Sidecars /\ o \in Sidecars /\ SetKnown(n) /\ SetKnown(o) /\ copy \in {n, o}
      BY <1>1, <2>1, <2>2
    <2>12. Lineage(n) \cup Lineage(o) \subseteq Lineage(l)
      BY <2>2, <2>4, <2>8, <2>10
    <2>13. Rated(l, copy).rating = l.rating
      BY <2>5, <2>9, <2>10, <2>11, <2>12, RatingHolds
    <2>14. Join(l, copy) = JoinOnto(l, copy)
      BY <2>10 DEF Join
    <2> DEFINE again == JoinOnto(l, copy)
               host == Latest(copy).host
    <2>15. again.rating = r.rating
      BY <2>10, <2>13 DEF JoinOnto
    <2>16. ASSUME Len(r.states) <= History + 1 PROVE again.states = r.states
      <3>1. KnowsRevision(l, Latest(copy).hash) = TRUE
        <4>1. Latest(copy).hash \in Lineage(copy)
          BY <2>1, SidecarFacts
        <4> QED BY <2>11, <2>12, <4>1 DEF KnowsRevision
      <3>2. again.states = JoinLine(l.states, copy.states, host, TRUE)
        <4> DEFINE seen == KnowsRevision(l, Latest(copy).hash)
        <4>1. again.states = JoinLine(l.states, copy.states, host, seen)
          BY DEF JoinOnto
        <4>2. seen = TRUE
          BY <3>1
        <4> HIDE DEF seen, again, host
        <4> QED BY <4>1, <4>2
      <3> HIDE DEF again, host
      <3>3. r.states \in Lines(StatesOf(AllEdits, AllLabels))
        BY <2>8, SidecarFacts DEF States
      <3>4. JoinLine(r.states, copy.states, host, TRUE) = r.states
        BY <2>16, <3>3, SeenIsKept
      <3> QED BY <2>10, <3>2, <3>4
    <2> HIDE DEF again
    <2>17. Covers(r, again)
      BY <2>15, <2>16 DEF Covers
    <2> QED BY <2>14, <2>17 DEF again, r, l, s
  <1>2. CopyInv /\ ShortInv => RejoinsTheSame
    BY <1>1, Zenon DEF RejoinsTheSame
  <1> QED BY <1>2, AlwaysShort, CopiesInvariance, PTL
=============================================================================
