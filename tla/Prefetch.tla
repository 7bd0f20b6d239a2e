------------------------------ MODULE Prefetch ------------------------------
(***************************************************************************)
(* The prefetch of the neighbors' bases by the idle worker, the reduced    *)
(* develops of the thumbnails' pool, and the reservation that keeps the    *)
(* two apart (greycard-engine/src/worker/{prefetch,engine,handle}.rs,      *)
(* thumbpool.rs, edited_pictures.rs).                                      *)
(*                                                                         *)
(* Two locks are taken: the worker's queue, and the pool.  A section under *)
(* the queue's lock that takes the pool's as well is several steps here,   *)
(* as is a turn of a pool's thread, which asks under its lock how many may *)
(* be in hand and only then takes one.  The reservation is a flag no lock  *)
(* guards.  Of the worker's jobs what matters here is whether they develop,*)
(* and of the pool's work only the reduced develops are left.              *)
(***************************************************************************)
EXTENDS Integers, FiniteSets, SequencesExt

CONSTANTS
    Threads,    \* the pool's threads
    Files,      \* the frames of the folder
    Beside,     \* [Files -> Seq(Files)]: what the arrow keys reach, the next first
    Stages,     \* how many stages a base is made in
    Asks,       \* the other jobs sent, among "picture" and "export"
    MaxEdits,   \* bound: the reduced develops wanted in a behaviour
    MaxActs,    \* bound: how often the user acts in one
    NoFile,     \* no frame
    NoThread    \* no thread

ASSUME ThreadsAssumption ==
    /\ IsFiniteSet(Threads) /\ Threads # {} /\ NoThread \notin Threads
    /\ NoFile \notin Files
    /\ Beside \in [Files -> Seq(Files)]
    /\ Stages \in Nat \ {0}
    /\ Asks \subseteq {"picture", "export"}
    /\ MaxEdits \in Nat /\ MaxActs \in Nat

VARIABLES
    (* the window's thread *)
    wpc,         \* where it is in a handler
    cur,         \* the frame selected
    sent,        \* the newest open's generation
    told,        \* the neighbors the window last sent and the worker took
    rev,         \* how often each frame's edit changed the base it asks for
    acts,        \* how often the user acted
    (* shared, each under a lock of its own or none *)
    open,        \* the frame open in the editor, or NoFile
    idle,        \* how long the window has been quiet: 0, 1 (QUIET), 2 (longer)
    prefetching, \* the reservation
    (* the queue, under its lock *)
    slot,        \* the newest open or develop
    others,      \* the other jobs
    neighbors,   \* the neighbors still to be made
    changed,     \* the files whose edit changed since the worker looked
    (* the worker's thread *)
    pc,          \* where the loop is
    job,         \* the job in hand
    landed,      \* the last open whose develop landed, 0 for none
    base,        \* the open frame's base is in hand
    fetch,       \* the neighbor popped
    stage,       \* how many stages of its base are made
    ended,       \* how its prefetch ended
    shelf,       \* the bases prefetched and not taken since
    (* the pool, under its lock *)
    lock,        \* the thread that looks, or NoThread
    limit,       \* how many pictures may be made at once
    edits,       \* the reduced develops waiting, one alone or not each
    edits_busy,  \* how many are in hand
    edits_alone, \* the one in hand runs alone
    wanted,      \* how many were wanted so far
    (* the pool's threads *)
    at,          \* where each is; "alone" with a reduced develop that runs so
    may          \* what the one that looks was told: how many, and for how long

window == <<wpc, cur, sent, told, rev, acts>>
queue  == <<slot, others, neighbors, changed>>
worker == <<pc, job, landed, base, fetch, stage, ended, shelf>>
poolq  == <<limit, edits, edits_busy, edits_alone, wanted>>
pool   == <<lock, poolq, at, may>>
vars   == <<window, open, idle, prefetching, queue, worker, pool>>

-----------------------------------------------------------------------------
Neighbor(f) == [file |-> f, rev |-> rev[f]]
NoNeighbor  == [file |-> NoFile, rev |-> 0]

NeighborsOf(g, list) ==
    [gen |-> g, waiting |-> [i \in DOMAIN list |-> Neighbor(list[i])], quiet |-> 1]
NoNeighbors == [gen |-> 0, waiting |-> <<>>, quiet |-> 1]

Job(kind, file, g) == [kind |-> kind, file |-> file, gen |-> g, rev |-> 0]
NoJob == Job("none", NoFile, 0)

Nobody   == [many |-> 0, later |-> FALSE]

NeighborSet == [file : Files \cup {NoFile}, rev : Nat]
JobSet == [kind : {"none", "open", "develop", "picture", "export"},
           file : Files \cup {NoFile}, gen : Nat, rev : Nat]

TypeOK ==
    /\ wpc \in {"idle", "waking", "sending", "leaving", "left", "told", "again"}
    /\ cur \in Files \cup {NoFile} /\ sent \in Nat /\ told \in Seq(Files)
    /\ rev \in [Files -> Nat] /\ acts \in Nat
    /\ open \in Files \cup {NoFile} /\ idle \in 0..2 /\ prefetching \in BOOLEAN
    /\ slot \in JobSet /\ others \subseteq Asks /\ changed \subseteq Files
    /\ neighbors \in [gen : Nat, waiting : Seq(NeighborSet), quiet : 1..2]
    /\ pc \in {"top", "asleep", "dozing", "settling", "claiming", "counting",
               "fetching", "ended", "after", "job", "developing", "releasing"}
    /\ job \in JobSet /\ landed \in Nat /\ base \in BOOLEAN
    /\ fetch \in NeighborSet /\ stage \in 0..Stages
    /\ ended \in {"", "done", "gave way", "panicked"} /\ shelf \subseteq NeighborSet
    /\ lock \in Threads \cup {NoThread}
    /\ limit \in {0, Cardinality(Threads)}
    /\ edits \in Seq(BOOLEAN) /\ edits_busy \in Nat /\ edits_alone \in BOOLEAN
    /\ wanted \in Nat
    /\ at \in [Threads -> {"woken", "looking", "waiting", "timed", "developing", "alone"}]
    /\ may \in [many : 0..2, later : BOOLEAN]

Init ==
    /\ wpc = "idle" /\ cur = NoFile /\ sent = 0 /\ told = <<>>
    /\ rev = [f \in Files |-> 0] /\ acts = 0
    /\ open = NoFile /\ idle = 0 /\ prefetching = FALSE
    /\ slot = NoJob /\ others = {} /\ neighbors = NoNeighbors /\ changed = {}
    /\ pc = "top" /\ job = NoJob /\ landed = 0 /\ base = FALSE
    /\ fetch = NoNeighbor /\ stage = 0 /\ ended = "" /\ shelf = {}
    /\ lock = NoThread /\ limit = Cardinality(Threads)
    /\ edits = <<>> /\ edits_busy = 0 /\ edits_alone = FALSE /\ wanted = 0
    /\ at = [t \in Threads |-> "woken"] /\ may = Nobody

-----------------------------------------------------------------------------
(* Locks and condition variables *)

QueueFree == pc \notin {"settling", "claiming", "counting"} /\ wpc # "waking"

PoolFree == lock = NoThread

(* The worker waits for the queue, with a timeout ("dozing") or without. *)
Notify == pc' = IF pc \in {"asleep", "dozing"} THEN "top" ELSE pc

Waiting(t) == at[t] \in {"waiting", "timed"}

(* notify_all on the pool's condition variable. *)
WakeAll == at' = [t \in Threads |-> IF Waiting(t) THEN "woken" ELSE at[t]]

-----------------------------------------------------------------------------
(* The window *)

Acts == wpc = "idle" /\ acts < MaxActs /\ acts' = acts + 1

(* A frame opened: first it is the open frame, and the pool is woken if     *)
(* that changed, with the queue's lock held; then the open is queued.       *)
SendOpen(f) ==
    /\ Acts /\ QueueFree /\ open # f
    /\ cur' = f /\ sent' = sent + 1 /\ open' = f
    /\ wpc' = "waking"
    /\ UNCHANGED <<told, rev, idle, prefetching, queue, worker, pool>>

Queued(f, g) ==
    /\ slot' = [Job("open", f, g) EXCEPT !.rev = rev[f]]
    /\ idle' = 0
    /\ wpc' = "sending"
    /\ Notify
    /\ UNCHANGED <<told, rev, open, prefetching, others, neighbors, changed,
                   job, landed, base, fetch, stage, ended, shelf>>

QueueOpen ==
    /\ wpc = "waking" /\ PoolFree
    /\ WakeAll
    /\ Queued(cur, sent)
    /\ UNCHANGED <<cur, sent, acts, lock, poolq, may>>

SendOpenAgain(f) ==
    /\ Acts /\ QueueFree /\ open = f
    /\ cur' = f /\ sent' = sent + 1
    /\ Queued(f, sent + 1)
    /\ UNCHANGED pool

(* The neighbors as the strip has them now: what its filter shows of them, *)
(* in the strip's order.                                                   *)
Shown(f) ==
    LET m == Len(Beside[f])
    IN  UNION {{[i \in 1..n |-> Beside[f][pick[i]]] :
                 pick \in {p \in [1..n -> 1..m] : \A i, j \in 1..n : i < j => p[i] < p[j]}} :
               n \in 0..m}

SendNeighbors ==
    /\ wpc = "sending" /\ QueueFree
    /\ \E list \in Shown(cur) :
          /\ neighbors' = NeighborsOf(sent, list)
          /\ told' = list
    /\ wpc' = "idle"
    /\ Notify
    /\ UNCHANGED <<cur, sent, rev, acts, open, idle, prefetching, slot, others, changed,
                   job, landed, base, fetch, stage, ended, shelf, pool>>

(* A slider at rest: a develop in place of whatever the slot holds. *)
SendDevelop ==
    /\ Acts /\ open # NoFile /\ QueueFree
    /\ idle' = 0
    /\ slot' = Job("develop", NoFile, sent)
    /\ Notify
    /\ UNCHANGED <<wpc, cur, sent, told, rev, open, prefetching, others, neighbors,
                   changed, job, landed, base, fetch, stage, ended, shelf, pool>>

(* Another job: the refined masks' picture, an export. *)
SendOther(k) ==
    /\ Acts /\ open # NoFile /\ QueueFree
    /\ others' = others \cup {k}
    /\ Notify
    /\ UNCHANGED <<wpc, cur, sent, told, rev, open, idle, prefetching, slot, neighbors,
                   changed, job, landed, base, fetch, stage, ended, shelf, pool>>

(* set_open_frame(None), to the grid or the cull: the neighbors let go,     *)
(* then no frame open, then the pool and the worker told.                   *)
Leave ==
    /\ Acts /\ open # NoFile /\ QueueFree
    /\ neighbors' = NoNeighbors
    /\ wpc' = "leaving"
    /\ Notify
    /\ UNCHANGED <<cur, sent, told, rev, open, idle, prefetching, slot, others, changed,
                   job, landed, base, fetch, stage, ended, shelf, pool>>

SetOpen(f) ==
    /\ open' = f /\ wpc' = "left"
    /\ UNCHANGED <<cur, sent, told, rev, idle, prefetching, queue, worker, pool>>

Left == wpc = "leaving" /\ SetOpen(NoFile) /\ UNCHANGED acts

(* Mutant: the pool is not told. *)
TellNobody == UNCHANGED at

TellPool == WakeAll

(* Back on the frame still selected; the leaves before it were counted. *)
Back ==
    /\ wpc = "idle" /\ open = NoFile /\ cur # NoFile
    /\ SetOpen(cur)
    /\ UNCHANGED acts

WakePool ==
    /\ wpc = "left" /\ PoolFree
    /\ TellPool
    /\ wpc' = "told"
    /\ UNCHANGED <<cur, sent, told, rev, acts, open, idle, prefetching, queue, worker,
                   lock, poolq, may>>

TellWorker ==
    /\ wpc = "told" /\ QueueFree
    /\ wpc' = IF open = NoFile THEN "idle" ELSE "again"
    /\ Notify
    /\ UNCHANGED <<cur, sent, told, rev, acts, open, idle, prefetching, queue,
                   job, landed, base, fetch, stage, ended, shelf, pool>>

(* neighbors_again: in place of the list of the open last sent, or of none  *)
(* once its develop has landed.                                             *)
Ours == IF neighbors # NoNeighbors THEN neighbors.gen = sent ELSE landed = sent

NeighborsAgain(list) ==
    /\ QueueFree
    /\ IF Ours THEN neighbors' = NeighborsOf(sent, list) /\ told' = list /\ Notify
               ELSE UNCHANGED <<neighbors, told, pc>>
    /\ UNCHANGED <<cur, sent, rev, open, idle, prefetching, slot, others,
                   job, landed, base, fetch, stage, ended, shelf, pool>>

(* After the return, or a change of an edit; the change of a filter. *)
Resend ==
    /\ wpc = "again" /\ wpc' = "idle"
    /\ \E list \in Shown(cur) : NeighborsAgain(list)
    /\ UNCHANGED <<acts, changed>>

Filter ==
    /\ Acts /\ open # NoFile
    /\ \E list \in Shown(cur) : list # told /\ NeighborsAgain(list)
    /\ UNCHANGED <<wpc, changed>>

(* A neighbor's edit changed, as by a paste: the worker is told, and sent   *)
(* the neighbors again.                                                     *)
ChangeEdit(f) ==
    /\ Acts /\ open # NoFile /\ f # cur /\ QueueFree
    /\ rev' = [rev EXCEPT ![f] = @ + 1]
    /\ changed' = changed \cup {f}
    /\ wpc' = "again"
    /\ Notify
    /\ UNCHANGED <<cur, sent, told, open, idle, prefetching, slot, others, neighbors,
                   job, landed, base, fetch, stage, ended, shelf, pool>>

(* Time passes with the window quiet. *)
Quieten ==
    /\ idle < 2 /\ idle' = idle + 1
    /\ UNCHANGED <<window, open, prefetching, queue, worker, pool>>

-----------------------------------------------------------------------------
(* The worker: what the idle loop does about the neighbors *)

Asked == slot # NoJob \/ others # {}

(* The neighbors are those of the open frame, whose base is in hand. *)
OfTheLanded ==
    neighbors # NoNeighbors /\ landed # 0 /\ neighbors.gen = landed /\ base

OfTheOpen == open # NoFile /\ OfTheLanded

Quiet == idle >= neighbors.quiet

(* Mutant: the quiet still to come is not waited for. *)
DueWaitNever == FALSE

(* Due::Fetch, Due::Wait, and the lists let go on the way to Due::Nothing.  *)
DueFetch(roomy) == OfTheOpen /\ neighbors.waiting # <<>> /\ Quiet /\ roomy
DueWait == OfTheOpen /\ neighbors.waiting # <<>> /\ ~Quiet
DueNone(roomy) ==
    \/ open = NoFile
    \/ landed # 0 /\ neighbors.gen < landed
    \/ OfTheOpen /\ (neighbors.waiting = <<>> \/ (Quiet /\ ~roomy))

(* At the head of each turn the bases are dropped of the files whose edit   *)
(* changed that no open would take now (drop_changed).                      *)
TakeChanged ==
    /\ shelf' = {b \in shelf : b.file \in changed => b.rev = rev[b.file]}
    /\ changed' = {}

(* Nothing asked for: the next neighbor popped, or the reservation let go   *)
(* and the worker to wait.                                                  *)
Look ==
    /\ pc = "top" /\ QueueFree /\ ~Asked
    /\ TakeChanged
    /\ \E roomy \in BOOLEAN :
          IF DueFetch(roomy)
            THEN /\ fetch' = Head(neighbors.waiting)
                 /\ neighbors' = [neighbors EXCEPT !.waiting = Tail(@)]
                 /\ pc' = "claiming"
                 /\ UNCHANGED prefetching
            ELSE /\ neighbors' = IF DueNone(roomy) THEN NoNeighbors ELSE neighbors
                 /\ prefetching' = FALSE
                 /\ pc' = IF prefetching THEN "settling"
                          ELSE IF DueWait THEN "dozing" ELSE "asleep"
                 /\ UNCHANGED fetch
    /\ UNCHANGED <<window, open, idle, slot, others, job, landed, base, stage, ended, pool>>

(* settle_reservation wakes the pool, and the worker waits: for the quiet   *)
(* still to come, if it is that.                                            *)
Settle ==
    /\ pc = "settling" /\ PoolFree
    /\ WakeAll
    /\ pc' = IF OfTheLanded THEN "dozing" ELSE "asleep"
    /\ UNCHANGED <<window, open, idle, prefetching, queue, job, landed, base, fetch,
                   stage, ended, shelf, lock, poolq, may>>

DozeEnds ==
    /\ pc = "dozing" /\ pc' = "top"
    /\ UNCHANGED <<window, open, idle, prefetching, queue, job, landed, base, fetch,
                   stage, ended, shelf, pool>>

(* claim: the flag is raised, and then the pool is asked.                   *)
Reserve ==
    /\ pc = "claiming"
    /\ prefetching' = TRUE
    /\ pc' = "counting"
    /\ UNCHANGED <<window, open, idle, queue, job, landed, base, fetch, stage, ended, shelf, pool>>

PutBack(quiet) ==
    neighbors' = [neighbors EXCEPT !.waiting = <<fetch>> \o @, !.quiet = quiet]

(* Mutant: the stand-down waits with no timeout. *)
StandDownAsleep == PutBack(neighbors.quiet) /\ fetch' = NoNeighbor /\ pc' = "asleep"

(* A reduced develop is in hand: the neighbor goes back to the front, and   *)
(* the flag stays up.                                                       *)
StandDown == PutBack(neighbors.quiet) /\ fetch' = NoNeighbor /\ pc' = "dozing"

(* Mutant: the count is read without the pool's lock. *)
CountUnlocked ==
    /\ pc = "counting"
    /\ IF edits_busy = 0
         THEN pc' = "fetching" /\ UNCHANGED <<neighbors, fetch>>
         ELSE StandDown
    /\ stage' = 0
    /\ UNCHANGED <<window, open, idle, prefetching, slot, others, changed, job, landed,
                   base, ended, shelf, pool>>

Count ==
    /\ pc = "counting" /\ PoolFree
    /\ IF edits_busy = 0
         THEN pc' = "fetching" /\ UNCHANGED <<neighbors, fetch>>
         ELSE StandDown
    /\ stage' = 0
    /\ UNCHANGED <<window, open, idle, prefetching, slot, others, changed, job, landed,
                   base, ended, shelf, pool>>

-----------------------------------------------------------------------------
(* The worker: a prefetch *)

(* moved_under: the latest word on the file is another edit than n's.       *)
MovedUnder(n) == n.file \in changed /\ rev[n.file] # n.rev

ItsOpen(n) == slot.kind = "open" /\ slot.file = n.file /\ slot.rev = n.rev

(* ahead: what was asked for that the prefetch of n gives way to. *)
GivesWayTo(n) ==
    \/ open = NoFile
    \/ "export" \in others
    \/ MovedUnder(n)
    \/ slot # NoJob /\ ~ItsOpen(n)

Fetching(ask) ==
    /\ pc = "fetching" /\ (ask => QueueFree)
    /\ UNCHANGED <<window, open, idle, queue, job, landed, base, fetch, pool>>

GoesOn ==
    /\ Fetching(TRUE) /\ stage < Stages /\ ~GivesWayTo(fetch)
    /\ stage' = stage + 1
    /\ UNCHANGED <<prefetching, pc, ended, shelf>>

(* The walk over, the reservation is let go. *)
Ends(how) ==
    /\ ended' = how
    /\ prefetching' = FALSE
    /\ pc' = "ended"
    /\ UNCHANGED stage

GivesWay == 
    /\ Fetching(TRUE) /\ stage < Stages /\ GivesWayTo(fetch)
    /\ Ends("gave way") /\ UNCHANGED shelf

(* Not worth a place on the shelf, or there already; else made and put      *)
(* there, where it may push out others.                                     *)
Skips == Fetching(FALSE) /\ stage \in {0, Stages} /\ Ends("done") /\ UNCHANGED shelf

Lands ==
    /\ Fetching(FALSE) /\ stage = Stages
    /\ Ends("done")
    /\ shelf' \in {{fetch}, shelf \cup {fetch}}

Panics == Fetching(FALSE) /\ Ends("panicked") /\ UNCHANGED shelf

WakeFromFetch ==
    /\ pc = "ended" /\ PoolFree
    /\ WakeAll
    /\ pc' = "after"
    /\ UNCHANGED <<window, open, idle, prefetching, queue, job, landed, base, fetch,
                   stage, ended, shelf, lock, poolq, may>>

(* Mutant: another open may have come. *)
AgainAnyOpen == ended = "gave way" /\ ~MovedUnder(fetch) /\ neighbors # NoNeighbors

(* One that gave way is made again, after a longer quiet, unless its edit   *)
(* changed or another open has come; after a panic the rest are let go.     *)
Again ==
    /\ ended = "gave way" /\ ~MovedUnder(fetch)
    /\ neighbors # NoNeighbors /\ neighbors.gen = landed

After ==
    /\ pc = "after" /\ QueueFree
    /\ IF Again THEN PutBack(2)
       ELSE neighbors' = IF ended = "panicked" THEN NoNeighbors ELSE neighbors
    /\ fetch' = NoNeighbor /\ ended' = "" /\ stage' = 0
    /\ pc' = "top"
    /\ UNCHANGED <<window, open, idle, prefetching, slot, others, changed, job, landed,
                   base, shelf, pool>>

-----------------------------------------------------------------------------
(* The worker: a job *)

TakeJob ==
    /\ pc = "top" /\ QueueFree /\ Asked
    /\ TakeChanged
    /\ IF slot # NoJob
         THEN job' = slot /\ slot' = NoJob /\ UNCHANGED others
         ELSE LET k == IF "picture" \in others THEN "picture" ELSE "export"
              IN  job' = Job(k, NoFile, 0) /\ others' = others \ {k} /\ UNCHANGED slot
    /\ pc' = "job"
    /\ UNCHANGED <<window, open, idle, prefetching, neighbors, landed, base, fetch,
                   stage, ended, pool>>

(* While a develop runs the pool begins nothing. *)
HoldPool ==
    /\ pc = "job" /\ job.kind \in {"open", "develop"} /\ PoolFree
    /\ limit' = 0 /\ WakeAll
    /\ pc' = "developing"
    /\ UNCHANGED <<window, open, idle, prefetching, queue, job, landed, base, fetch,
                   stage, ended, shelf, lock, edits, edits_busy, edits_alone, wanted, may>>

FinishDevelop ==
    /\ pc = "developing" /\ QueueFree
    /\ \/ job.kind = "open" /\ landed' = job.gen /\ base' = TRUE
       \/ job.kind = "open" /\ landed' = 0 /\ base' = FALSE
       \/ base' \in (IF landed = 0 THEN {FALSE} ELSE BOOLEAN) /\ landed' = landed
    /\ shelf' = shelf \ {b \in shelf : b.file = job.file /\ b.rev = job.rev}
    /\ idle' = 0
    /\ pc' = "releasing"
    /\ UNCHANGED <<window, open, prefetching, queue, job, fetch, stage, ended, pool>>

(* Mutant: the pool is not let go. *)
LetPoolGoHeld == limit' = 0 /\ WakeAll

LetPoolGo == limit' = Cardinality(Threads) /\ WakeAll

ReleasePool ==
    /\ pc = "releasing" /\ PoolFree
    /\ LetPoolGo
    /\ job' = NoJob /\ pc' = "top"
    /\ UNCHANGED <<window, open, idle, prefetching, queue, landed, base, fetch, stage,
                   ended, shelf, lock, edits, edits_busy, edits_alone, wanted, may>>

FinishOther ==
    /\ pc = "job" /\ job.kind \in {"picture", "export"}
    /\ base' \in {base, FALSE}
    /\ job' = NoJob /\ pc' = "top"
    /\ UNCHANGED <<window, open, idle, prefetching, queue, landed, fetch, stage, ended, shelf, pool>>

-----------------------------------------------------------------------------
(* The pool's threads: the reduced develops *)

(* Mutant: the reservation is not looked at. *)
AtOnceUnreserved ==
    IF open # NoFile /\ idle = 0 THEN [many |-> 0, later |-> TRUE]
    ELSE [many |-> IF open # NoFile \/ Cardinality(Threads) < 4 THEN 1 ELSE 2,
          later |-> FALSE]

(* How many may be in hand, and whether to look again later: behind_prefetch *)
(* before reduced::begin.                                                    *)
AtOnce ==
    IF prefetching \/ (open # NoFile /\ idle = 0) THEN [many |-> 0, later |-> TRUE]
    ELSE [many |-> IF open # NoFile \/ Cardinality(Threads) < 4 THEN 1 ELSE 2,
          later |-> FALSE]

Room == edits_busy + 1 < limit /\ ~edits_alone /\ edits # <<>>

(* Mutant: one that runs alone is begun beside another. *)
BeginnableAny == DOMAIN edits

(* One that runs alone is begun with none in hand only. *)
Beginnable == {i \in DOMAIN edits : edits_busy = 0 \/ ~edits[i]}

LookAt(t) ==
    /\ at[t] = "woken" /\ PoolFree
    /\ lock' = t
    /\ at' = [at EXCEPT ![t] = "looking"]
    /\ may' = IF Room THEN AtOnce ELSE Nobody
    /\ UNCHANGED <<window, open, idle, prefetching, queue, worker, poolq>>

Begin(t) ==
    /\ lock = t
    /\ edits_busy < may.many
    /\ \E i \in Beginnable :
          /\ \A j \in Beginnable : i <= j
          /\ edits_alone' = edits[i]
          /\ edits' = RemoveAt(edits, i)
          /\ at' = [at EXCEPT ![t] = IF edits[i] THEN "alone" ELSE "developing"]
    /\ edits_busy' = edits_busy + 1
    /\ lock' = NoThread /\ may' = Nobody
    /\ UNCHANGED <<window, open, idle, prefetching, queue, worker, limit, wanted>>

Rest(t) ==
    /\ lock = t
    /\ ~(edits_busy < may.many /\ Beginnable # {})
    /\ at' = [at EXCEPT ![t] = IF may.later THEN "timed" ELSE "waiting"]
    /\ lock' = NoThread /\ may' = Nobody
    /\ UNCHANGED <<window, open, idle, prefetching, queue, worker, poolq>>

TimeOut(t) ==
    /\ at[t] = "timed"
    /\ at' = [at EXCEPT ![t] = "woken"]
    /\ UNCHANGED <<window, open, idle, prefetching, queue, worker, lock, poolq, may>>

(* Mutant: one that panicked is counted off twice. *)
CountOffTwice == edits_busy' \in {edits_busy - 1, edits_busy - 2} /\ edits_alone' = FALSE

CountOff == edits_busy' = edits_busy - 1 /\ edits_alone' = FALSE

InHand == {t \in Threads : at[t] \in {"developing", "alone"}}

(* The develop made, failed or panicked: all the threads look again. *)
EndEdit(t) ==
    /\ t \in InHand /\ PoolFree
    /\ CountOff
    /\ at' = [u \in Threads |-> IF u = t \/ Waiting(u) THEN "woken" ELSE at[u]]
    /\ UNCHANGED <<window, open, idle, prefetching, queue, worker, lock, limit, edits,
                   wanted, may>>

(* A thumbnail was delivered of a frame whose edit's pictures are not kept: *)
(* notify_one.                                                              *)
Want(alone) ==
    /\ PoolFree /\ wanted < MaxEdits
    /\ edits' = Append(edits, alone) /\ wanted' = wanted + 1
    /\ IF \E t \in Threads : Waiting(t)
         THEN \E t \in Threads : Waiting(t) /\ at' = [at EXCEPT ![t] = "woken"]
         ELSE UNCHANGED at
    /\ UNCHANGED <<window, open, idle, prefetching, queue, worker, lock, limit,
                   edits_busy, edits_alone, may>>

-----------------------------------------------------------------------------
User == \/ \E f \in Files : SendOpen(f) \/ SendOpenAgain(f) \/ ChangeEdit(f)
        \/ SendDevelop \/ Leave \/ Back \/ Filter
        \/ \E k \in Asks : SendOther(k)

Handler == QueueOpen \/ SendNeighbors \/ Left \/ WakePool \/ TellWorker \/ Resend

Idles    == Look \/ Settle \/ DozeEnds \/ Reserve \/ Count
Fetches  == GoesOn \/ GivesWay \/ Skips \/ Lands \/ Panics \/ WakeFromFetch \/ After
Works    == TakeJob \/ HoldPool \/ FinishDevelop \/ ReleasePool \/ FinishOther
Thread   == Idles \/ Fetches \/ Works

PoolThread(t) == LookAt(t) \/ Begin(t) \/ Rest(t) \/ TimeOut(t) \/ EndEdit(t)

Next == \/ User \/ Handler \/ Thread \/ Quieten
        \/ \E t \in Threads : PoolThread(t)
        \/ \E alone \in BOOLEAN : Want(alone)

Spec == Init /\ [][Next]_vars

(* The threads run and time passes; a thread that waits for a lock others   *)
(* take again and again gets it in the end.                                 *)
Fairness == /\ SF_vars(Handler) /\ SF_vars(Thread)
            /\ WF_vars(Quieten)
            /\ \A t \in Threads : SF_vars(PoolThread(t))

FairSpec == Spec /\ Fairness

-----------------------------------------------------------------------------
(* What must hold *)

(* A neighbor's base and a reduced develop are never made at once, though   *)
(* no lock holds across the flag, the count and the pool's look at the flag *)
(* (claim, behind_prefetch).                                                *)
NeverBoth == pc = "fetching" => InHand = {}

(* A reduced develop of a frame under a network root has none beside it.    *)
AloneIsAlone == \A t \in Threads : at[t] = "alone" => InHand = {t}

(* No wake is lost: while a reduced develop could begin, a thread is about  *)
(* to look, or waits for a while only, or is about to be woken.             *)
WakeDue == pc \in {"settling", "ended"} \/ wpc \in {"waking", "left"}

Ready == Room /\ edits_busy < AtOnce.many /\ Beginnable # {}

AwakeIfReady ==
    Ready => WakeDue \/ \E t \in Threads : at[t] \in {"woken", "looking", "timed"}

(* The reservation holds back what it was raised against: once the pool was *)
(* counted, none is begun till it is let go, so the prefetch that waits for *)
(* the one in hand is the next to run (claim).                              *)
Reserved == prefetching /\ pc # "counting"

ReservedIsNext == [][Reserved => edits_busy' <= edits_busy]_vars

(* A neighbor that gave way is never put back among those of another open:  *)
(* what waits is beside the frame opened last, once its list is sent.       *)
WaitingIsBeside ==
    neighbors # NoNeighbors /\ neighbors.gen = sent
        => \A i \in DOMAIN neighbors.waiting :
              \E j \in DOMAIN Beside[cur] : Beside[cur][j] = neighbors.waiting[i].file

(* The worker never waits unwoken with the reservation up (settle_reservation). *)
NoSleepReserved == prefetching => pc # "asleep"

(* The reservation is let go, however the wait or the prefetch ends.        *)
ReservationEnds == prefetching ~> ~prefetching

(* Once the user rests the neighbors of the open frame are made or let go:  *)
(* prefetches that give way do not go round for ever.                       *)
NeighborsEnd == OfTheOpen ~> ~OfTheOpen

(* ... and the reduced develops behind them are made. *)
EditsEnd == edits # <<>> ~> edits = <<>>

-----------------------------------------------------------------------------
(* What the repository says, and the code does not do *)

(* A base made under an edit its frame no longer has does not sit on the    *)
(* shelf past the drop.                                                     *)
ShelfServes ==
    wpc = "idle" => \A b \in shelf : b.rev = rev[b.file] \/ b.file \in changed

(* Neighbors sent again are taken in place of the list that open sent: what *)
(* waits is what the window last sent.                                      *)
WaitingIsSent ==
    wpc = "idle" /\ neighbors # NoNeighbors /\ neighbors.gen = sent
        => \A i \in DOMAIN neighbors.waiting :
              \E j \in DOMAIN told : told[j] = neighbors.waiting[i].file
=============================================================================
