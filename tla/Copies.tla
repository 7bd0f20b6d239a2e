------------------------------- MODULE Copies -------------------------------
(***************************************************************************)
(* One frame worked on several machines that share an archive: what each   *)
(* copy of its sidecar says.  ArchiveSync has when a copy is written and   *)
(* taken; here is what is in it.                                           *)
(***************************************************************************)
EXTENDS SidecarJoin

CONSTANTS Machines,    \* the machines, numbers, in the order of their names
          Skew,        \* how far each machine's clock is off
          Looks,       \* the edits each machine makes
          MaxActs,     \* how many changes each machine makes
          Ratings      \* the ratings given

VARIABLES
  local,     \* each machine's copy
  archive,   \* the archive's copy
  now,       \* the time
  minted,    \* what each hash is of, and which hashes were known when it was made
  aside,     \* the edits undone, or taken by the cap, anywhere
  acts       \* how many changes each machine has made

vars == <<local, archive, now, minted, aside, acts>>

ASSUME CopiesAssumption ==
  /\ Machines \subseteq Nat
  /\ \A m \in Machines : Skew[m] \in Int /\ MaxActs[m] \in Nat /\ Ratings[m] \subseteq Nat

Opened == <<0, 0>>
Unsaved == [states |-> <<State(ZeroId, Opened, Plain)>>, rating |-> 0, set |-> NeverSet,
            revisions |-> <<>>, absorbed |-> {}]

(***************************************************************************)
(* A save: the sidecar's revision made at the machine's time, the rating   *)
(* stamped with it when it changed (advance, revise).                      *)
(***************************************************************************)
\* Mutant: a save's hash is of what the sidecar shows, and not of the saves it comes from.
ContentShown(s) == [prev |-> 0, states |-> s.states, rating |-> s.rating, absorbed |-> {}]

Content(s) == [prev |-> IF s.revisions = <<>> THEN 0 ELSE Latest(s).hash,
               states |-> s.states, rating |-> s.rating, absorbed |-> s.absorbed]
HashOf(s) == LET same == {h \in DOMAIN minted : minted[h].of = Content(s)}
             IN IF same = {} THEN Len(minted) + 1 ELSE CHOOSE h \in same : TRUE
Revised(s, m, before) ==
  LET at == now + Skew[m] IN
  [s EXCEPT !.revisions = Append(@, [hash |-> HashOf(s), at |-> at, host |-> m]),
            !.set = IF s.rating = before THEN @
                    ELSE [at |-> at, rev |-> HashOf(s), was |-> before]]

Save(m, s, before) ==
  /\ local' = [local EXCEPT ![m] = Revised(s, m, before)]
  /\ minted' = IF HashOf(s) \in DOMAIN minted THEN minted
               ELSE Append(minted, [of |-> Content(s), past |-> Lineage(s), rated |-> s.rating # before])
  /\ now' = now + 1

Init ==
  /\ now = 10 /\ aside = {} /\ acts = [m \in Machines |-> 0]
  /\ LET first == [Unsaved EXCEPT !.revisions = <<[hash |-> 1, at |-> 5, host |-> 1]>>]
     IN /\ local = [m \in Machines |-> first] /\ archive = first
        /\ minted = <<[of |-> Content(Unsaved), past |-> {}, rated |-> FALSE]>>

Acts(m) == acts[m] < MaxActs[m] /\ acts' = [acts EXCEPT ![m] = @ + 1]

(***************************************************************************)
(* A change, and its save.                                                 *)
(***************************************************************************)
Edit(m) ==
  \E edit \in Looks[m] :
    LET s == local[m]  after == Recorded(s.states, edit) IN
    /\ edit # LastEdit(s.states)
    /\ Acts(m)
    /\ Save(m, [s EXCEPT !.states = after], s.rating)
    /\ aside' = aside \cup (Edits(s.states) \ Edits(after))
    /\ UNCHANGED archive

Undo(m) ==
  LET s == local[m]  after == Front(s.states) IN
  /\ Len(s.states) > 1
  /\ Acts(m)
  /\ Save(m, [s EXCEPT !.states = after], s.rating)
  /\ aside' = aside \cup (Edits(s.states) \ Edits(after))
  /\ UNCHANGED archive

Rate(m) ==
  \E rating \in Ratings[m] \ {local[m].rating} :
    /\ Acts(m)
    /\ Save(m, [local[m] EXCEPT !.rating = rating], local[m].rating)
    /\ UNCHANGED <<archive, aside>>

(***************************************************************************)
(* The copies compared: the archive's written, taken whole, or the two     *)
(* joined, and the join saved here.                                        *)
(***************************************************************************)
Push(m) ==
  /\ Compare(local[m], archive) = "ahead"
  /\ archive' = local[m]
  /\ UNCHANGED <<local, now, minted, aside, acts>>

Take(m) ==
  /\ Compare(local[m], archive) = "behind"
  /\ local' = [local EXCEPT ![m] = archive]
  /\ UNCHANGED <<archive, now, minted, aside, acts>>

AtCap(s) == Len(s.states) > History

\* The pairs a settle joins.
Apart(m) == Compare(local[m], archive) \in {"same edit", "diverged"}

\* What a settle puts in place of this machine's copy; the edits its cap took are put aside.
Settled(m, joined) ==
  /\ Save(m, joined, joined.rating)
  /\ aside' = IF AtCap(joined)
              THEN aside \cup ((Edits(local[m].states) \cup Edits(archive.states)) \ Edits(joined.states))
              ELSE aside

Settle(m) ==
  /\ Apart(m)
  /\ Settled(m, Join(local[m], archive))
  /\ UNCHANGED <<archive, acts>>

Next == \E m \in Machines : Edit(m) \/ Undo(m) \/ Rate(m) \/ Push(m) \/ Take(m) \/ Settle(m)
Spec == Init /\ [][Next]_vars

\* Every machine comes to the archive again and again; nobody has to change anything.
\* The last conjunct is WF_vars(Settle(m)) with Apart(m) for what enables it.
FairSpec == Spec /\ \A m \in Machines :
  /\ WF_vars(Push(m)) /\ WF_vars(Take(m))
  /\ []<>~Apart(m) \/ []<><<Settle(m)>>_vars

----------------------------------------------------------------------------
\* Over its cap a line holds three states at most, some of them more than once: its first, the
\* one the join's cap kept by its id, and the join's last.
FewStates(line) == Cardinality(Ids(line)) <= 3

SidecarOK(s) ==
  /\ s.states # <<>>
  /\ Len(s.states) <= History + 1 \/ FewStates(s.states)
  /\ Lineage(s) \subseteq DOMAIN minted
  /\ s.set = NeverSet \/ s.set.rev \in Lineage(s)

\* A line is within its cap, or has nothing left that a cap takes, and is of saves that were
\* made only; a rating was set by one of them.
TypeOK == (\A m \in Machines : SidecarOK(local[m])) /\ SidecarOK(archive)

\* Two machines that settle the same two copies make the same sidecar of them, whichever
\* of the two each calls its own (sync.rs, join: "the order of the arguments does not matter").
JoinsAgree == \A m \in Machines : Apart(m) => Join(local[m], archive) = Join(archive, local[m])

\* Of two lines joined, no edit is gone from the result unless the cap was reached.
OnlyCapLoses == \A m \in Machines : Apart(m) =>
  LET Loses(joined) == ~(Edits(local[m].states) \cup Edits(archive.states) \subseteq Edits(joined.states))
      Excused(joined) == Loses(joined) => AtCap(joined)
  IN Excused(Join(local[m], archive))

\* The newer copy's edit is the one shown after a join, and the older copy's, where it
\* stood nowhere in the newer copy, is one undo away, whatever the cap took (join_line).
ShowsBoth(joined, newer, older) ==
  \/ LastEdit(older) \in Edits(newer)
  \/ LastEdit(joined) = LastEdit(newer) /\ joined[Len(joined) - 1].edit = LastEdit(older)

OneUndoAway == \A m \in Machines : Apart(m) =>
  ShowsBoth(Join(local[m], archive).states,
            Newer(local[m], archive).states, Older(local[m], archive).states)

\* The states of a line that are in the other, by their content, or that the ids confirm led
\* to one that is (the other copy has them, or had them and capped them away).
HasHad(line, other) ==
  {i \in DOMAIN line : \E k \in i..Len(line) :
     /\ ByContent(other, line[k]) # 0
     /\ \A j \in i..(k - 1) : Confirms(line[j], line[j + 1])}

\* The edits that one copy only ever had.
OwnEdits(line, other) ==
  Edits(line) \ (Edits(other) \cup {line[i].edit : i \in HasHad(line, other)})

\* The ids of states both copies have, that the newer has once, and not as its first.
SharedIds(newer, older) ==
  {newer[i].id : i \in {i \in 2..Len(newer) :
     /\ newer[i].id \in Ids(older)
     /\ \A j \in DOMAIN newer \ {i} : newer[j].id # newer[i].id}}

\* The joined line's states but its last and those with the older copy's edit, which the cap
\* leaves alone.
Middle(joined, older) ==
  {joined[i] : i \in {i \in DOMAIN joined : joined[i] # Last(joined) /\ joined[i].edit # LastEdit(older)}}

KeepsOwn(joined, newer, older) ==
  LET Loses(edits) == ~(edits \subseteq Edits(joined))
  IN /\ Loses(OwnEdits(newer, older)) =>
          \A s \in Middle(joined, older) : s.edit \notin OwnEdits(older, newer)
     /\ Loses(OwnEdits(newer, older) \cup OwnEdits(older, newer)) =>
          \A s \in Middle(joined, older) : s.id \notin SharedIds(newer, older)

\* The cap of a join takes what both copies have before what only the older one has, and
\* that before what only the newer one has (join_line's cap): while it leaves one of the
\* former it has taken none of the latter.
CapKeepsOwn == \A m \in Machines : Apart(m) =>
  LET newer == Newer(local[m], archive)  older == Older(local[m], archive) IN
  KnowsRevision(newer, Latest(older).hash)
    \/ KeepsOwn(Join(local[m], archive).states, newer.states, older.states)

\* A join, once saved, is ahead of both copies it was made of: neither knows a save that it
\* does not, so no machine settles it against them again (compare; revise).
JoinGoesAhead == \A m \in Machines : Apart(m) =>
  LET Saved(joined) == Revised(joined, m, joined.rating)
      GoesAhead(s) == \A copy \in {local[m], archive} : Compare(s, copy) = "ahead"
  IN GoesAhead(Saved(Join(local[m], archive)))

\* A sidecar saved again once its clock is past the copy's.
Later(s, copy) == [s EXCEPT !.revisions[Len(s.revisions)].at = Latest(copy).at + 1]

\* s joined with the copy again is what it was.
Covers(s, again) ==
  /\ again.rating = s.rating
  /\ Len(s.states) <= History + 1 => again.states = s.states

\* A join, once saved, joined with either of the copies it was made of again changes nothing:
\* a settle whose write was lost can be done once more.
RejoinsTheSame == \A m \in Machines : Apart(m) =>
  LET Saved(joined) == Revised(joined, m, joined.rating)
      Redone(s) == \A copy \in {local[m], archive} : Covers(s, Join(Later(s, copy), copy))
  IN Redone(Saved(Join(local[m], archive)))

\* The saves s knows of that set the rating, and that no other such save went on from.
LastRatings(s) ==
  LET rated == {h \in Lineage(s) : minted[h].rated}
  IN {h \in rated : \A g \in rated : h \notin minted[g].past}

\* The rating a copy has is one that a save set and no save known to the copy went on from:
\* a value set over another never gives way to it again (meta.rs, Set: "a write whose
\* revision the other copy carries in its lineage is known there, and loses").
RatingStands == \A s \in {local[m] : m \in Machines} \cup {archive} :
  \/ LastRatings(s) = {} /\ s.rating = 0
  \/ \E h \in LastRatings(s) : minted[h].of.rating = s.rating

\* No edit leaves the archive's copy but one undone, or one a cap took, somewhere: what a
\* machine puts there holds what the machine before it put there.
KeptOrPutAside == [][Edits(archive.states) \ Edits(archive'.states) \subseteq aside']_vars

\* A copy that knows another's latest save knows every save that one does: compare looks up the
\* latest alone, and what is behind by it is written over or taken whole.
AheadKnowsAll == \A s, t \in {local[m] : m \in Machines} \cup {archive} :
  KnowsRevision(s, Latest(t).hash) => Lineage(t) \subseteq Lineage(s)

\* What these copies do with the saves is what SavesSpread promises.
Spread == INSTANCE SavesSpread WITH
  First <- 1,
  known <- [m \in Machines |-> Lineage(local[m])],
  there <- Lineage(archive)
SavesSpread == Spread!Spec

Converged == \A m \in Machines : local[m] = archive

\* Once nobody changes anything, every machine and the archive come to have one sidecar,
\* and joins that answer joins do not go on for ever.
Converges == <>[]Converged
=============================================================================
