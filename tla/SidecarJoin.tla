---------------------------- MODULE SidecarJoin ----------------------------
(***************************************************************************)
(* Two copies of one frame's sidecar compared and joined                   *)
(* (greycard-edit/src/sync.rs).  A line is the sequence of a frame's       *)
(* states, oldest first and the current one last.  A state's id and a      *)
(* save's hash are told apart by what they are hashes of: an id is the     *)
(* sequence of the edits and labels it hashes, a hash is a number the      *)
(* saves hand out, the same for the same content.                          *)
(***************************************************************************)
EXTENDS Integers, FiniteSets, SequencesExt

CONSTANTS History,     \* how many earlier states a line keeps
          HashRank(_)  \* the order of the hashes as the hex strings they are

ASSUME HistoryAssumption == History \in Nat \ {0}

(***************************************************************************)
(* States, and the cap a line's own record keeps.                          *)
(***************************************************************************)
ZeroId == <<>>
Plain == <<"plain", 0>>
Reconciled(host) == <<"reconciled", host>>
WhereItStood(host) == <<"stood", host>>

StateId(parent, edit, label) == Append(parent, <<edit, label>>)
State(parent, edit, label) == [edit |-> edit, label |-> label, id |-> StateId(parent, edit, label)]
IsReconciled(s) == s.label[1] \in {"reconciled", "stood"}
Edits(line) == {line[i].edit : i \in DOMAIN line}
Ids(line) == {line[i].id : i \in DOMAIN line}

\* repeat_at: an entry the cap takes before any other.
RepeatAt(line, i) ==
  /\ 1 < i /\ i < Len(line)
  /\ \/ \E j \in (i + 1)..Len(line) : line[j].edit = line[i].edit /\ line[j].label = line[i].label
     \/ IsReconciled(line[i]) /\ \E j \in DOMAIN line \ {i} : line[j].edit = line[i].edit

\* A state of the line as the caps' first pass comes to it: a repeat goes, but the state kept.
PassBy(line, kept, pass, i) ==
  IF /\ pass.excess > 0 /\ line[i].id # kept
     /\ RepeatAt(pass.stay \o SubSeq(line, i, Len(line)), Len(pass.stay) + 1)
  THEN [pass EXCEPT !.excess = @ - 1]
  ELSE [pass EXCEPT !.stay = Append(@, line[i])]

\* The first of both caps' passes: up to excess repeats, oldest first.
DropRepeats(line, excess, kept) ==
  LET pass[i \in 0..Len(line)] ==
        IF i = 0 THEN [stay |-> <<>>, excess |-> excess] ELSE PassBy(line, kept, pass[i - 1], i)
  IN pass[Len(line)].stay

\* Mutant: the cap lets a line keep one state more.
CapHistoryOneMore(line) ==
  IF Len(line) > History + 2 THEN <<line[1]>> \o SubSeq(line, Len(line) - History, Len(line)) ELSE line

\* cap_history: repeats, then the oldest after the first.
CapHistory(line) ==
  LET once == DropRepeats(line, Len(line) - (History + 1), ZeroId)
      extra == Len(once) - (History + 1)
  IN IF extra > 0 THEN <<once[1]>> \o SubSeq(once, 2 + extra, Len(once)) ELSE once

\* record_as, of an edit that is not the current one.
Recorded(line, edit) == CapHistory(Append(line, State(Last(line).id, edit, Plain)))

(***************************************************************************)
(* A sidecar: the line, one field of the meta with the save that set it    *)
(* and the value it had before, the saves and the hashes absorbed in       *)
(* joins.                                                                  *)
(***************************************************************************)
NeverSet == [at |-> 0, rev |-> 0, was |-> -1]
Latest(s) == Last(s.revisions)
Lineage(s) == {s.revisions[i].hash : i \in DOMAIN s.revisions} \cup s.absorbed
KnowsRevision(s, hash) == hash \in Lineage(s)

\* Mutant: the same latest save is taken to be the same sidecar.
CompareByHash(local, other) ==
  IF Latest(local).hash = Latest(other).hash THEN "same"
  ELSE IF KnowsRevision(other, Latest(local).hash) THEN "behind"
  ELSE IF KnowsRevision(local, Latest(other).hash) THEN "ahead"
  ELSE "diverged"

\* Mutant: of two copies neither of which knows the other the later one goes.
CompareByTime(local, other) ==
  IF local = other THEN "same"
  ELSE IF Latest(local).hash = Latest(other).hash THEN "same edit"
  ELSE IF KnowsRevision(other, Latest(local).hash) THEN "behind"
  ELSE IF KnowsRevision(local, Latest(other).hash) \/ Latest(local).at > Latest(other).at THEN "ahead"
  ELSE "diverged"

\* compare, of two copies that have been saved.
Compare(local, other) ==
  IF local = other THEN "same"
  ELSE IF Latest(local).hash = Latest(other).hash THEN "same edit"
  ELSE IF KnowsRevision(other, Latest(local).hash) THEN "behind"
  ELSE IF KnowsRevision(local, Latest(other).hash) THEN "ahead"
  ELSE "diverged"

\* Mutant: two saves of one second are left to whichever copy is the local one.
IsNewerByTime(a, b) == Latest(a).at > Latest(b).at

\* newer_of: by the time of the latest save, then its hash, then its host.
IsNewer(a, b) ==
  LET x == Latest(a)  y == Latest(b) IN
  \/ x.at > y.at
  \/ x.at = y.at /\ HashRank(x.hash) > HashRank(y.hash)
  \/ x.at = y.at /\ HashRank(x.hash) = HashRank(y.hash) /\ x.host > y.host

Newer(a, b) == IF IsNewer(b, a) THEN b ELSE a
Older(a, b) == IF IsNewer(b, a) THEN a ELSE b

(***************************************************************************)
(* One field of the meta joined: meta::join.                               *)
(***************************************************************************)
IsWeak(set) == set.rev = 0
CarriesOld(s, other) == IsWeak(s.set) /\ ~IsWeak(other.set) /\ other.set.was = s.rating
Known(s, other) == ~IsWeak(other.set) /\ KnowsRevision(s, other.set.rev)

SecondWins(a, b) ==
  IF CarriesOld(b, a) THEN FALSE
  ELSE IF CarriesOld(a, b) THEN TRUE
  ELSE IF Known(a, b) # Known(b, a) THEN Known(b, a)
  ELSE \/ a.set.at < b.set.at
       \/ a.set.at = b.set.at /\ a.rating = 0 /\ b.rating # 0

\* The copy whose rating the join of the two has.
Rated(newer, older) == IF newer.rating # older.rating /\ SecondWins(newer, older) THEN older ELSE newer

(***************************************************************************)
(* Two lines joined: join_line.                                            *)
(***************************************************************************)
FirstOf(S) == IF S = {} THEN 0 ELSE CHOOSE i \in S : \A j \in S : i <= j
LastOf(S) == IF S = {} THEN 0 ELSE CHOOSE i \in S : \A j \in S : i >= j
ById(line, s) == FirstOf({i \in DOMAIN line : line[i].id = s.id})
ByContent(line, s) == FirstOf({i \in DOMAIN line : line[i].edit = s.edit /\ line[i].label = s.label})
Confirms(parent, child) == child.id = StateId(parent.id, child.edit, child.label)
LastEdit(line) == Last(line).edit
\* The entries at those places, in their order.
Those(line, places) ==
  LET Nth(k) == CHOOSE i \in places : Cardinality({j \in places : j < i}) = k - 1
  IN [k \in 1..Cardinality(places) |-> line[Nth(k)]]

\* The entries by their keys, those of one key in the order they have.
ByKey(line, key) ==
  LET Before(j, i) == key[j] < key[i] \/ (key[j] = key[i] /\ j < i)
      Nth(k) == CHOOSE i \in DOMAIN line : Cardinality({j \in DOMAIN line : Before(j, i)}) = k - 1
  IN [k \in DOMAIN line |-> line[Nth(k)]]

\* (ii) The states the newer copy once had and capped away: the ids confirm
\* they led to one it has.
CappedAway(newer, older) ==
  {k \in 2..(Len(older) - 1) : \E m \in (k + 1)..Len(older) :
     /\ ById(newer, older[m]) # 0
     /\ \A j \in k..(m - 1) : ById(newer, older[j]) = 0 /\ Confirms(older[j], older[j + 1])}

\* The state of the newer copy a capped-away state led to.
LedTo(newer, older, k) ==
  ById(newer, older[FirstOf({m \in (k + 1)..Len(older) : ById(newer, older[m]) # 0})])

\* (iii) A match by content that counts: next after the fork, or, while the
\* fork is the first state, further on and confirmed by the state after it.
Matches(newer, older, fork, k) ==
  LET i == ByContent(newer, older[k]) IN
  /\ i > fork /\ fork # 0
  /\ \/ i = fork + 1
     \/ fork = 1 /\ k < Len(older) /\ ByContent(newer, older[k + 1]) = i + 1

\* The walk w at the older copy's state k, one of four things: shared by id, capped away,
\* matched by content, or the older copy's own.
Met(newer, older, capped, w, k) ==
  LET s == older[k]  here == ById(newer, s)  stands == s.edit \in Edits(newer)
      Shares(i) == [w EXCEPT !.shared = @ \cup {i}, !.fork = IF i > @ THEN i ELSE @]
  IN IF k = 1 THEN w
     ELSE IF here # 0 THEN Shares(here)
     ELSE IF k \in capped
       THEN IF stands THEN w
            ELSE [w EXCEPT !.capped = Append(@, [before |-> LedTo(newer, older, k), state |-> s])]
     ELSE IF k < Len(older) /\ IsReconciled(s) /\ stands THEN w
     ELSE IF w.walking /\ Matches(newer, older, w.fork, k) THEN Shares(ByContent(newer, s))
     ELSE [w EXCEPT !.walking = FALSE, !.own = Append(@, s)]

\* The place of the older copy's first state in the newer copy, by id or by content.
FirstShared(newer, older) ==
  IF ById(newer, older[1]) # 0 THEN ById(newer, older[1]) ELSE ByContent(newer, older[1])

\* The older copy's states walked, the first of them at first in the newer copy.
WalkFrom(newer, older, first, capped) ==
  LET walk[k \in 0..Len(older)] ==
        IF k = 0 THEN [fork |-> first, walking |-> first # 0, shared |-> {first} \ {0},
                       own |-> IF first = 0 THEN <<older[1]>> ELSE <<>>, capped |-> <<>>]
        ELSE Met(newer, older, capped, walk[k - 1], k)
  IN walk[Len(older)]

Walk(newer, older) == WalkFrom(newer, older, FirstShared(newer, older), CappedAway(newer, older))

\* The newer copy's states the older copy has, or the ids confirm it had.
SharedStates(newer, shared) ==
  {j \in DOMAIN newer : \E i \in shared :
     j = i \/ (1 < j /\ j < i /\ \A k \in j..(i - 1) : Confirms(newer[k], newer[k + 1]))}

As(kind, s) == [edit |-> s.edit, label |-> s.label, id |-> s.id, kind |-> kind]
AsAll(kind, line) == [i \in DOMAIN line |-> As(kind, line[i])]
RecordedAgain(kind, line, edit, label) == Append(line, As(kind, State(Last(line).id, edit, label)))

\* Where the older copy's current stood is said by what is there already.
Said(newer, current) ==
  \/ ById(newer, current) # 0
  \/ \E i \in DOMAIN newer : /\ newer[i].edit = current.edit
                             /\ newer[i].label = current.label \/ IsReconciled(newer[i])

\* The capped-away states there is room for, the ones nearest the shared
\* states, once the older branch and what will be recorded again are counted.
Room(newer, own, current, said, capped) ==
  LET tip == IF own = <<>> THEN LastEdit(newer) ELSE LastEdit(own)
      isOwn == own # <<>> /\ Last(own) = current
      willStand == ~isOwn /\ ~said /\ tip # current.edit
      willReconcile == (IF willStand THEN current.edit ELSE tip) # LastEdit(newer)
      extra == (IF willStand THEN 1 ELSE 0) + (IF willReconcile THEN 1 ELSE 0)
      room == History + 1 - (Len(newer) + Len(own) + extra)
  IN IF room <= 0 THEN <<>>
     ELSE IF Len(capped) > room THEN SubSeq(capped, Len(capped) - room + 1, Len(capped))
     ELSE capped

\* The newer copy's states, each with the capped-away states that led to it before it.
BroughtBack(list, capped) ==
  LET back == [k \in DOMAIN capped |-> As("capped away", capped[k].state)] IN
  ByKey(back \o list,
        [i \in 1..(Len(capped) + Len(list)) |->
           IF i <= Len(capped) THEN capped[i].before ELSE i - Len(capped)])

\* Mutant: the newer copy's current is not recorded again when it stands anywhere.
BranchedIfGone(list, own, current, said, top, host) ==
  LET pushed == list \o AsAll("older own", own) IN
  IF top \in Edits(pushed) THEN pushed ELSE RecordedAgain("reconciled", pushed, top, Reconciled(host))

\* The older copy's current recorded where it stood, if the branch does not end in it.
WhereStood(list, current, host) ==
  IF LastEdit(list) = current.edit THEN list
  ELSE RecordedAgain("stood", list, current.edit, WhereItStood(host))

\* The newer copy's current recorded again, if it is not on top.
OnTop(list, top, host) ==
  IF LastEdit(list) = top THEN list
  ELSE RecordedAgain("reconciled", list, top, Reconciled(host))

\* The older branch after the newer copy's states, the older copy's current
\* where it stood, and the newer copy's current on top.
Branched(list, own, current, said, top, host) ==
  LET isOwn == own # <<>> /\ Last(own) = current IN
  OnTop(IF isOwn THEN list \o AsAll("older own", Front(own)) \o <<As("older current", current)>>
        ELSE IF said THEN list \o AsAll("older own", own)
        ELSE WhereStood(list \o AsAll("older own", own), current, host),
        top, host)

\* The entry that carries the older copy's current: by id, or the newest with its edit.
Protected(list, current) ==
  IF ById(list, current) # 0 THEN current.id
  ELSE LET i == LastOf({k \in DOMAIN list : list[k].edit = current.edit})
       IN IF i = 0 THEN ZeroId ELSE list[i].id

\* Mutant: the older branch goes before the states both copies have.
CapTurnSwapped == <<"capped away", "older own", "shared", "newer own">>

\* The order the cap takes the kinds in; the first state and the two currents are not among them.
CapTurn == <<"capped away", "shared", "older own", "newer own">>

\* The second of the join's cap's passes: the kinds in turn, oldest first, but the state kept.
DropInTurn(list, kept) ==
  LET Turn(i) == FirstOf({t \in DOMAIN CapTurn : CapTurn[t] = list[i].kind})
      May(i) == Turn(i) # 0 /\ list[i].id # kept
      Sooner(j, i) == Turn(j) < Turn(i) \/ (Turn(j) = Turn(i) /\ j < i)
      gone == {i \in DOMAIN list :
                 /\ May(i)
                 /\ Cardinality({j \in DOMAIN list : May(j) /\ Sooner(j, i)}) < Len(list) - (History + 1)}
  IN Those(list, DOMAIN list \ gone)

\* The join's cap: repeats, then the kinds in turn.
CapJoin(list, kept) == DropInTurn(DropRepeats(list, Len(list) - (History + 1), kept), kept)

Bare(list) == [i \in DOMAIN list |-> [edit |-> list[i].edit, label |-> list[i].label, id |-> list[i].id]]

\* Mutant: where the older copy stood being said, its branch is taken to be said too.
JoinLineIfSaid(newer, older, host, seen) ==
  IF Said(newer, Last(older)) THEN newer
  ELSE LET w == Walk(newer, older)
           list == IF seen THEN AsAll("newer own", newer)
                   ELSE Branched(AsAll("newer own", newer), w.own, Last(older), FALSE, LastEdit(newer), host)
       IN Bare(CapJoin(list, Protected(list, Last(older))))

\* The newer copy's states, each with what it is to the join.
Kinds(newer, shared) ==
  [i \in DOMAIN newer |-> As(IF i = 1 THEN "first" ELSE IF i \in shared THEN "shared" ELSE "newer own",
                             newer[i])]

\* The line of the join before its cap, when of the older copy there is w.own to add, capped
\* to bring back, and its current, said there already or not.
Joined(newer, older, w, capped, said, host) ==
  LET list == Kinds(newer, SharedStates(newer, w.shared)) IN
  IF w.own = <<>> /\ capped = <<>> /\ said THEN list
  ELSE Branched(BroughtBack(list, capped), w.own, Last(older), said, LastEdit(newer), host)

\* join_line, of two versions' lines; of an older copy the newer has seen only the shared
\* states are looked for.
JoinLine(newer, older, host, seen) ==
  LET Of(w, said) ==
        IF seen THEN Kinds(newer, SharedStates(newer, w.shared))
        ELSE Joined(newer, older, w, Room(newer, w.own, Last(older), said, w.capped), said, host)
      Capped(list) == Bare(CapJoin(list, Protected(list, Last(older))))
  IN Capped(Of(Walk(newer, older), Said(newer, Last(older))))

(***************************************************************************)
(* The join of two copies.                                                 *)
(***************************************************************************)
\* Mutant: of the older copy's saves only its latest is kept, as absorbed.
JoinRevisionsNewer(newer, older) == newer

\* Both copies' saves, each hash once, by their times.
JoinRevisions(newer, older) ==
  LET others == {i \in DOMAIN older : \A j \in DOMAIN newer : newer[j].hash # older[i].hash}
      both == newer \o Those(older, others)
  IN ByKey(both, [i \in DOMAIN both |-> both[i].at])

\* Mutant: what the newer copy had seen of the older is not looked at.
JoinOntoUnseen(newer, older) ==
  [states |-> JoinLine(newer.states, older.states, Latest(older).host, FALSE),
   rating |-> Rated(newer, older).rating,
   set |-> Rated(newer, older).set,
   revisions |-> JoinRevisions(newer.revisions, older.revisions),
   absorbed |-> newer.absorbed \cup older.absorbed \cup {Latest(newer).hash, Latest(older).hash}]

JoinOnto(newer, older) ==
  [states |-> JoinLine(newer.states, older.states, Latest(older).host,
                       KnowsRevision(newer, Latest(older).hash)),
   rating |-> Rated(newer, older).rating,
   set |-> Rated(newer, older).set,
   revisions |-> JoinRevisions(newer.revisions, older.revisions),
   absorbed |-> newer.absorbed \cup older.absorbed \cup {Latest(newer).hash, Latest(older).hash}]

Join(local, other) == JoinOnto(Newer(local, other), Older(local, other))
=============================================================================
