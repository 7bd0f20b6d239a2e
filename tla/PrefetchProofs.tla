--------------------------- MODULE PrefetchProofs ---------------------------
(***************************************************************************)
(* Theorems of Prefetch, for every number of threads and of frames, every  *)
(* strip, and every bound on what the user and the pool do.                *)
(***************************************************************************)
EXTENDS Prefetch, TLAPS, FiniteSetTheorems, SequenceTheorems

USE ThreadsAssumption

-----------------------------------------------------------------------------
(* The inductive invariant, in parts *)

(* The types the proofs need. *)
Typed ==
    /\ at \in [Threads -> {"woken", "looking", "waiting", "timed", "developing", "alone"}]
    /\ pc \in {"top", "asleep", "dozing", "settling", "claiming", "counting",
               "fetching", "ended", "after", "job", "developing", "releasing"}
    /\ wpc \in {"idle", "waking", "sending", "leaving", "left", "told", "again"}
    /\ prefetching \in BOOLEAN /\ edits_alone \in BOOLEAN
    /\ edits \in Seq(BOOLEAN) /\ limit \in {0, Cardinality(Threads)}
    /\ may \in [many : 0..2, later : BOOLEAN]
    /\ lock \in Threads \cup {NoThread}

(* The thread under the pool's lock is the one that looks. *)
Locked == lock # NoThread => at[lock] = "looking"

(* The pool counts what its threads have in hand. *)
Counted == edits_busy = Cardinality(InHand)

(* Once counted, the reservation leaves the look it finds nothing to begin, *)
(* and a prefetch found none in hand.                                       *)
Claimed ==
    /\ pc \in {"counting", "fetching"} => prefetching
    /\ Reserved /\ lock # NoThread => may.many = 0
    /\ pc = "fetching" => edits_busy = 0

(* The flag edits_alone says that one in hand runs alone. *)
AloneIsSaid ==
    /\ edits_alone <=> \E t \in Threads : at[t] = "alone"
    /\ lock # NoThread /\ may.many > 0 => ~edits_alone

(* How many may be in hand when nothing holds the pool back. *)
Cap == IF open # NoFile \/ Cardinality(Threads) < 4 THEN 1 ELSE 2

Awake(t) == at[t] \in {"woken", "looking", "timed"}

HeldBack == prefetching \/ WakeDue

(* What the thread that looks was told is what holds still.                 *)
Told == lock # NoThread /\ Room /\ ~may.later /\ ~WakeDue => may.many = Cap

(* No thread waits out a hold that is over: with no frame open and nothing  *)
(* held back, none waits with a timeout.                                    *)
NoneTimed ==
    ~HeldBack /\ open = NoFile =>
        /\ \A t \in Threads : at[t] # "timed"
        /\ lock # NoThread => ~may.later

(* One that could begin has a thread awake for it ... *)
OneAwake ==
    ~HeldBack /\ Room /\ Beginnable # {} /\ edits_busy < Cap
        => \E t \in Threads : Awake(t)

(* ... and two, two: notify_one may not have gone to the same.              *)
TwoAwake ==
    ~HeldBack /\ edits_busy = 0 /\ limit # 0 /\ Cap = 2 /\ Len(edits) >= 2
        => \E t, u \in Threads : t # u /\ Awake(t) /\ Awake(u)

Inv == /\ Typed /\ Locked /\ Counted /\ Claimed /\ AloneIsSaid
       /\ AloneIsAlone /\ Told /\ NoneTimed /\ OneAwake /\ TwoAwake

-----------------------------------------------------------------------------
(* Facts about the pool *)

LEMMA ThreadsCount ==
    /\ Cardinality(Threads) \in Nat
    /\ Cardinality(Threads) > 0
    /\ IsFiniteSet(InHand)
    /\ Cardinality(InHand) \in Nat
  <1>1. InHand \subseteq Threads
    BY DEF InHand
  <1> QED BY <1>1, FS_CardinalityType, FS_Subset, FS_EmptySet

LEMMA ThreadsCountNext == IsFiniteSet(InHand') /\ Cardinality(InHand') \in Nat
  <1>1. InHand' \subseteq Threads
    BY DEF InHand
  <1> QED BY <1>1, FS_CardinalityType, FS_Subset

(* There is no room while every thread has one in hand. *)
LEMMA AllInHand ==
    ASSUME Typed, Counted, Room
    PROVE  \E t \in Threads : t \notin InHand
  <1> SUFFICES ASSUME \A t \in Threads : t \in InHand PROVE FALSE
    OBVIOUS
  <1>1. InHand = Threads
    BY DEF InHand
  <1> QED BY <1>1, ThreadsCount DEF Counted, Room, Typed

(* With none in hand, and threads enough for two at once, two are not at it. *)
LEMMA TwoThreads ==
    ASSUME Cardinality(Threads) >= 4
    PROVE  \E t, u \in Threads : t # u
  <1>1. PICK t \in Threads : TRUE
    OBVIOUS
  <1>2. SUFFICES ASSUME Threads \ {t} = {} PROVE FALSE
    OBVIOUS
  <1>3. Cardinality(Threads \ {t}) = Cardinality(Threads) - 1
    BY FS_RemoveElement
  <1>4. Cardinality(Threads \ {t}) = 0
    BY <1>2, FS_EmptySet
  <1> QED BY <1>3, <1>4, ThreadsCount

LEMMA NoneInHand ==
    ASSUME Counted, edits_busy = 0
    PROVE  InHand = {}
  BY ThreadsCount, FS_EmptySet DEF Counted

LEMMA RemoveAtEdits ==
    ASSUME NEW s \in Seq(BOOLEAN), NEW i \in DOMAIN s
    PROVE  RemoveAt(s, i) \in Seq(BOOLEAN) /\ Len(RemoveAt(s, i)) = Len(s) - 1
  <1>1. i \in 1..Len(s)
    BY LenProperties
  <1>2. /\ SubSeq(s, 1, i - 1) \in Seq(BOOLEAN) /\ Len(SubSeq(s, 1, i - 1)) = i - 1
        /\ SubSeq(s, i + 1, Len(s)) \in Seq(BOOLEAN)
        /\ Len(SubSeq(s, i + 1, Len(s))) = Len(s) - i
    BY <1>1, SubSeqProperties, LenProperties
  <1>3. /\ SubSeq(s, 1, i - 1) \o SubSeq(s, i + 1, Len(s)) \in Seq(BOOLEAN)
        /\ Len(SubSeq(s, 1, i - 1) \o SubSeq(s, i + 1, Len(s))) = (i - 1) + (Len(s) - i)
    BY <1>2, ConcatProperties
  <1>4. (i - 1) + (Len(s) - i) = Len(s) - 1
    BY <1>1, LenProperties
  <1> QED BY <1>3, <1>4 DEF RemoveAt

-----------------------------------------------------------------------------
(* Steps that leave the pool as it is, and hold back all that was held back. *)
LEMMA PoolStill ==
    ASSUME Inv, Typed', Claimed', UNCHANGED pool,
           HeldBack => HeldBack',
           WakeDue => WakeDue',
           open' = open \/ WakeDue'
    PROVE  Inv'
  <1> USE DEF Inv, pool, poolq
  <1>1. Locked' BY DEF Locked
  <1>2. Counted' BY DEF Counted, InHand
  <1>3. AloneIsSaid' BY DEF AloneIsSaid
  <1>4. AloneIsAlone' BY DEF AloneIsAlone, InHand
  <1>5. Told' BY DEF Told, Room, Cap
  <1>6. NoneTimed' BY DEF NoneTimed, HeldBack
  <1>7. OneAwake' BY DEF OneAwake, HeldBack, Room, Beginnable, Cap, Awake
  <1>8. TwoAwake' BY DEF TwoAwake, HeldBack, Cap, Awake
  <1> QED BY <1>1, <1>2, <1>3, <1>4, <1>5, <1>6, <1>7, <1>8

(* Steps after which every thread with none in hand looks. *)
LEMMA PoolUp ==
    ASSUME Typed', Counted', Claimed', AloneIsSaid', AloneIsAlone',
           lock' = NoThread, \A t \in Threads : ~Waiting(t)'
    PROVE  Inv'
  <1>1. \A t \in Threads : t \notin InHand' => Awake(t)'
    BY DEF Typed, Waiting, InHand, Awake
  <1>2. Locked' /\ Told' /\ NoneTimed'
    BY DEF Locked, Told, NoneTimed, Waiting
  <1>3. OneAwake'
    <2> SUFFICES ASSUME Room' PROVE \E t \in Threads : Awake(t)'
      BY DEF OneAwake
    <2>1. (\E t \in Threads : t \notin InHand)'
      BY AllInHand, PTL
    <2> QED BY <1>1, <2>1
  <1>4. TwoAwake'
    <2> SUFFICES ASSUME edits_busy' = 0, Cap' = 2
                 PROVE  \E t, u \in Threads : t # u /\ Awake(t)' /\ Awake(u)'
      BY DEF TwoAwake
    <2>1. InHand' = {}
      BY ThreadsCountNext, FS_EmptySet DEF Counted
    <2>2. Cardinality(Threads) >= 4
      BY ThreadsCount DEF Cap
    <2> QED BY <1>1, <2>1, <2>2, TwoThreads
  <1> QED BY <1>2, <1>3, <1>4 DEF Inv

(* The types, of a step that leaves the pool as it is. *)
LEMMA StillTyped ==
    ASSUME Typed, UNCHANGED pool,
           pc' \in {"top", "asleep", "dozing", "settling", "claiming", "counting",
                   "fetching", "ended", "after", "job", "developing", "releasing"},
           wpc' \in {"idle", "waking", "sending", "leaving", "left", "told", "again"},
           prefetching' \in BOOLEAN
    PROVE  Typed'
  BY DEF Typed, pool, poolq

-----------------------------------------------------------------------------
(* The window's steps *)

(* Steps of the window that do not touch the pool: the worker may be told,  *)
(* and a change of the open frame has the pool's wake follow.               *)
LEMMA WindowStill ==
    ASSUME Inv, UNCHANGED <<prefetching, pool>>,
           pc' = pc \/ Notify,
           wpc' \in {"idle", "waking", "sending", "leaving", "left", "told", "again"},
           wpc \in {"waking", "left"} => wpc' \in {"waking", "left"},
           open' = open \/ wpc' \in {"waking", "left"}
    PROVE  Inv'
  <1>1. /\ pc' = pc \/ (pc \in {"asleep", "dozing"} /\ pc' = "top")
        /\ prefetching' = prefetching
    BY DEF Notify
  <1>2. Typed'
    BY <1>1, StillTyped DEF Inv, Typed
  <1>3. Claimed'
    BY <1>1 DEF Inv, Claimed, Reserved, pool, poolq
  <1>4. WakeDue => WakeDue'
    BY <1>1 DEF WakeDue
  <1>5. open' = open \/ WakeDue'
    BY DEF WakeDue
  <1>6. HeldBack => HeldBack'
    BY <1>1, <1>4 DEF HeldBack
  <1> QED BY <1>2, <1>3, <1>4, <1>5, <1>6, PoolStill

LEMMA UserInv == Inv /\ User => Inv'
  <1> SUFFICES ASSUME Inv, User PROVE Inv'
    OBVIOUS
  <1> USE DEF Acts, pool, poolq
  <1>1. ASSUME NEW f \in Files, SendOpen(f) PROVE Inv'
    BY <1>1, WindowStill DEF SendOpen, window, queue, worker, Inv, Typed
  <1>2. ASSUME NEW f \in Files, SendOpenAgain(f) PROVE Inv'
    BY <1>2, WindowStill DEF SendOpenAgain, Queued, window, queue, worker, Inv, Typed
  <1>3. ASSUME NEW f \in Files, ChangeEdit(f) PROVE Inv'
    BY <1>3, WindowStill DEF ChangeEdit, window, queue, worker, Inv, Typed
  <1>4. ASSUME SendDevelop PROVE Inv'
    BY <1>4, WindowStill DEF SendDevelop, window, queue, worker, Inv, Typed
  <1>5. ASSUME Leave PROVE Inv'
    BY <1>5, WindowStill DEF Leave, window, queue, worker, Inv, Typed
  <1>6. ASSUME Back PROVE Inv'
    BY <1>6, WindowStill DEF Back, SetOpen, queue, worker, window, queue, worker, Inv, Typed
  <1>7. ASSUME Filter PROVE Inv'
    BY <1>7, WindowStill DEF Filter, NeighborsAgain, Ours, window, queue, worker, Inv, Typed
  <1>8. ASSUME NEW k \in Asks, SendOther(k) PROVE Inv'
    BY <1>8, WindowStill DEF SendOther, window, queue, worker, Inv, Typed
  <1> QED BY <1>1, <1>2, <1>3, <1>4, <1>5, <1>6, <1>7, <1>8 DEF User

(* WakeAll, with the count of what is in hand as it was. *)
LEMMA WakeAllInv ==
    ASSUME Inv, WakeAll, lock' = NoThread,
           limit' \in {0, Cardinality(Threads)},
           UNCHANGED <<edits, edits_busy, edits_alone, may>>,
           pc' \in {"top", "asleep", "dozing", "settling", "claiming", "counting",
                   "fetching", "ended", "after", "job", "developing", "releasing"},
           wpc' \in {"idle", "waking", "sending", "leaving", "left", "told", "again"},
           prefetching' \in BOOLEAN,
           Claimed'
    PROVE  Inv'
  <1>1. Typed'
    BY DEF Inv, Typed, WakeAll
  <1>2. /\ InHand' = InHand
        /\ \A t \in Threads : at'[t] = "alone" <=> at[t] = "alone"
        /\ \A t \in Threads : ~Waiting(t)'
    BY DEF Inv, Typed, WakeAll, Waiting, InHand
  <1>3. Counted'
    BY <1>2 DEF Inv, Counted
  <1>4. AloneIsSaid' /\ AloneIsAlone'
    BY <1>2 DEF Inv, AloneIsSaid, AloneIsAlone
  <1> QED BY <1>1, <1>2, <1>3, <1>4, PoolUp

LEMMA HandlerInv == Inv /\ Handler => Inv'
  <1> SUFFICES ASSUME Inv, Handler PROVE Inv'
    OBVIOUS
  <1>1. ASSUME QueueOpen PROVE Inv'
    <2>1. /\ pc' = pc \/ (pc \in {"asleep", "dozing"} /\ pc' = "top")
          /\ wpc' = "sending"
      BY <1>1 DEF QueueOpen, Queued, Notify
    <2>2. /\ WakeAll /\ lock' = NoThread
          /\ UNCHANGED <<prefetching, limit, edits, edits_busy, edits_alone, may>>
      BY <1>1 DEF QueueOpen, Queued, PoolFree, poolq
    <2>3. Claimed'
      BY <2>1, <2>2 DEF Inv, Claimed, Reserved
    <2> QED BY <2>1, <2>2, <2>3, WakeAllInv DEF Inv, Typed
  <1>2. ASSUME WakePool PROVE Inv'
    <2>1. /\ WakeAll /\ lock' = NoThread /\ wpc' = "told"
          /\ UNCHANGED <<pc, prefetching, limit, edits, edits_busy, edits_alone, may>>
      BY <1>2 DEF WakePool, TellPool, PoolFree, worker, poolq
    <2>2. Claimed'
      BY <2>1 DEF Inv, Claimed, Reserved
    <2> QED BY <2>1, <2>2, WakeAllInv DEF Inv, Typed
  <1>3. ASSUME SendNeighbors PROVE Inv'
    BY <1>3, WindowStill DEF SendNeighbors
  <1>4. ASSUME Left PROVE Inv'
    BY <1>4, WindowStill DEF Left, SetOpen, worker
  <1>5. ASSUME TellWorker PROVE Inv'
    BY <1>5, WindowStill DEF TellWorker
  <1>6. ASSUME Resend PROVE Inv'
    BY <1>6, WindowStill DEF Resend, NeighborsAgain
  <1> QED BY <1>1, <1>2, <1>3, <1>4, <1>5, <1>6 DEF Handler

-----------------------------------------------------------------------------
(* The worker's steps *)

(* Steps of the worker that do not touch the pool. *)
LEMMA WorkerStill ==
    ASSUME Inv, UNCHANGED <<open, wpc, pool>>,
           pc' \in {"top", "asleep", "dozing", "settling", "claiming", "counting",
                   "fetching", "ended", "after", "job", "developing", "releasing"},
           prefetching' \in BOOLEAN,
           prefetching /\ ~prefetching' => pc' \in {"settling", "ended"},
           pc \in {"settling", "ended"} => pc' \in {"settling", "ended"},
           Claimed'
    PROVE  Inv'
  <1>1. Typed'
    BY StillTyped DEF Inv, Typed
  <1>2. WakeDue => WakeDue'
    BY DEF WakeDue
  <1>3. HeldBack => HeldBack'
    BY <1>2 DEF HeldBack, WakeDue, Inv, Typed
  <1> QED BY <1>1, <1>2, <1>3, PoolStill

LEMMA IdlesInv == Inv /\ Idles => Inv'
  <1> SUFFICES ASSUME Inv, Idles PROVE Inv'
    OBVIOUS
  <1> USE DEF window, queue, worker, pool, poolq
  <1>1. ASSUME Look PROVE Inv'
    <2>1. /\ UNCHANGED <<open, wpc, pool>>
          /\ pc = "top"
          /\ \/ pc' = "claiming" /\ prefetching' = prefetching
             \/ prefetching' = FALSE /\ pc' = "settling"
             \/ prefetching = FALSE /\ prefetching' = FALSE /\ pc' \in {"dozing", "asleep"}
      BY <1>1 DEF Look, Inv, Typed
    <2>2. Claimed'
      BY <2>1 DEF Inv, Claimed, Reserved
    <2> QED BY <2>1, <2>2, WorkerStill DEF Inv, Typed
  <1>2. ASSUME Settle PROVE Inv'
    <2>1. /\ WakeAll /\ lock' = NoThread /\ pc' \in {"dozing", "asleep"}
          /\ UNCHANGED <<wpc, prefetching, limit, edits, edits_busy, edits_alone, may>>
      BY <1>2 DEF Settle, PoolFree
    <2>2. Claimed'
      BY <2>1 DEF Inv, Claimed
    <2> QED BY <2>1, <2>2, WakeAllInv DEF Inv, Typed
  <1>3. ASSUME DozeEnds PROVE Inv'
    <2>1. Claimed'
      BY <1>3 DEF DozeEnds, Inv, Claimed, Reserved
    <2> QED BY <1>3, <2>1, WorkerStill DEF DozeEnds, Inv, Typed
  <1>4. ASSUME Reserve PROVE Inv'
    <2>1. Claimed'
      BY <1>4 DEF Reserve, Inv, Claimed, Reserved
    <2> QED BY <1>4, <2>1, WorkerStill DEF Reserve, Inv, Typed
  <1>5. ASSUME Count PROVE Inv'
    <2>1. /\ UNCHANGED <<open, wpc, prefetching, pool>>
          /\ pc = "counting" /\ lock = NoThread
          /\ \/ pc' = "fetching" /\ edits_busy = 0
             \/ pc' = "dozing"
      BY <1>5 DEF Count, PoolFree, StandDown, PutBack
    <2>2. Claimed'
      BY <2>1 DEF Inv, Claimed
    <2> QED BY <2>1, <2>2, WorkerStill DEF Inv, Typed
  <1> QED BY <1>1, <1>2, <1>3, <1>4, <1>5 DEF Idles

LEMMA FetchesInv == Inv /\ Fetches => Inv'
  <1> SUFFICES ASSUME Inv, Fetches PROVE Inv'
    OBVIOUS
  <1> USE DEF window, queue, worker, pool, poolq
  <1>1. ASSUME GoesOn PROVE Inv'
    <2>1. Claimed'
      BY <1>1 DEF GoesOn, Fetching, Inv, Claimed, Reserved
    <2> QED BY <1>1, <2>1, WorkerStill DEF GoesOn, Fetching, Inv, Typed
  <1>2. ASSUME NEW how, Fetching(FALSE) \/ Fetching(TRUE), Ends(how) PROVE Inv'
    <2>1. /\ UNCHANGED <<open, wpc, pool>>
          /\ pc = "fetching" /\ pc' = "ended" /\ prefetching' = FALSE
      BY <1>2 DEF Fetching, Ends
    <2>2. Claimed'
      BY <2>1 DEF Inv, Claimed, Reserved
    <2> QED BY <2>1, <2>2, WorkerStill
  <1>3. ASSUME WakeFromFetch PROVE Inv'
    <2>1. /\ WakeAll /\ lock' = NoThread /\ pc' = "after"
          /\ UNCHANGED <<wpc, prefetching, limit, edits, edits_busy, edits_alone, may>>
      BY <1>3 DEF WakeFromFetch, PoolFree
    <2>2. Claimed'
      BY <2>1 DEF Inv, Claimed
    <2> QED BY <2>1, <2>2, WakeAllInv DEF Inv, Typed
  <1>4. ASSUME After PROVE Inv'
    <2>1. Claimed'
      BY <1>4 DEF After, Inv, Claimed, Reserved
    <2> QED BY <1>4, <2>1, WorkerStill DEF After, Inv, Typed
  <1> QED BY <1>1, <1>2, <1>3, <1>4 DEF Fetches, GivesWay, Skips, Lands, Panics

LEMMA WorksInv == Inv /\ Works => Inv'
  <1> SUFFICES ASSUME Inv, Works PROVE Inv'
    OBVIOUS
  <1> USE DEF window, queue, worker, pool, poolq
  <1>1. ASSUME TakeJob PROVE Inv'
    <2>1. Claimed'
      BY <1>1 DEF TakeJob, Inv, Claimed, Reserved
    <2> QED BY <1>1, <2>1, WorkerStill DEF TakeJob, Inv, Typed
  <1>2. ASSUME HoldPool PROVE Inv'
    <2>1. /\ WakeAll /\ lock' = NoThread /\ limit' = 0 /\ pc' = "developing"
          /\ UNCHANGED <<wpc, prefetching, edits, edits_busy, edits_alone, may>>
      BY <1>2 DEF HoldPool, PoolFree
    <2>2. Claimed'
      BY <2>1 DEF Inv, Claimed
    <2> QED BY <2>1, <2>2, WakeAllInv DEF Inv, Typed
  <1>3. ASSUME FinishDevelop PROVE Inv'
    <2>1. Claimed'
      BY <1>3 DEF FinishDevelop, Inv, Claimed, Reserved
    <2> QED BY <1>3, <2>1, WorkerStill DEF FinishDevelop, Inv, Typed
  <1>4. ASSUME ReleasePool PROVE Inv'
    <2>1. /\ WakeAll /\ lock' = NoThread /\ limit' = Cardinality(Threads) /\ pc' = "top"
          /\ UNCHANGED <<wpc, prefetching, edits, edits_busy, edits_alone, may>>
      BY <1>4 DEF ReleasePool, LetPoolGo, PoolFree
    <2>2. Claimed'
      BY <2>1 DEF Inv, Claimed
    <2> QED BY <2>1, <2>2, WakeAllInv DEF Inv, Typed
  <1>5. ASSUME FinishOther PROVE Inv'
    <2>1. Claimed'
      BY <1>5 DEF FinishOther, Inv, Claimed, Reserved
    <2> QED BY <1>5, <2>1, WorkerStill DEF FinishOther, Inv, Typed
  <1> QED BY <1>1, <1>2, <1>3, <1>4, <1>5 DEF Works

-----------------------------------------------------------------------------
(* The steps of the pool's threads *)

(* Steps of the pool leave what holds it back, and the reservation. *)
LEMMA PoolStep ==
    ASSUME UNCHANGED <<window, open, idle, prefetching, queue, worker>>
    PROVE  /\ UNCHANGED <<pc, wpc, open, prefetching>>
           /\ HeldBack' = HeldBack /\ WakeDue' = WakeDue /\ Reserved' = Reserved
           /\ Cap' = Cap
  BY DEF window, queue, worker, HeldBack, WakeDue, Reserved, Cap

LEMMA LookAtInv == ASSUME NEW t \in Threads, Inv, LookAt(t) PROVE Inv'
  <1> USE DEF Inv
  <1>1. /\ UNCHANGED <<limit, edits, edits_busy, edits_alone>>
        /\ at[t] = "woken" /\ lock = NoThread /\ lock' = t /\ t # NoThread
        /\ at' = [at EXCEPT ![t] = "looking"]
        /\ may' = IF Room THEN AtOnce ELSE Nobody
    BY DEF LookAt, poolq, PoolFree
  <1>2. UNCHANGED <<window, open, idle, prefetching, queue, worker>>
    BY DEF LookAt
  <1>3. /\ AtOnce.many \in 0..2 /\ AtOnce.later \in BOOLEAN
        /\ AtOnce \in [many : 0..2, later : BOOLEAN]
        /\ prefetching => AtOnce.many = 0
        /\ AtOnce.later => prefetching \/ open # NoFile
        /\ ~AtOnce.later => AtOnce.many = Cap
    BY DEF AtOnce, Cap, Typed
  <1>4. Nobody \in [many : 0..2, later : BOOLEAN] /\ Nobody.many = 0 /\ ~Nobody.later
    BY DEF Nobody
  <1>5. Typed'
    BY <1>1, <1>2, <1>3, <1>4, PoolStep DEF Typed
  <1>6. InHand' = InHand /\ \A u \in Threads : at'[u] = "alone" <=> at[u] = "alone"
    BY <1>1 DEF InHand, Typed
  <1>7. Locked'
    BY <1>1 DEF Locked, Typed
  <1>8. Counted' /\ AloneIsAlone'
    BY <1>1, <1>6 DEF Counted, AloneIsAlone
  <1>9. Claimed'
    BY <1>1, <1>2, <1>3, <1>4, PoolStep DEF Claimed, Reserved, Typed
  <1>10. AloneIsSaid'
    BY <1>1, <1>4, <1>6 DEF AloneIsSaid, Room
  <1>11. Told'
    BY <1>1, <1>2, <1>3, PoolStep DEF Told, Room
  <1>12. NoneTimed'
    BY <1>1, <1>2, <1>3, <1>4, PoolStep DEF NoneTimed, HeldBack, Typed
  <1>13. OneAwake'
    BY <1>1 DEF OneAwake, Awake, Typed
  <1>14. TwoAwake'
    BY <1>1, <1>2, PoolStep DEF TwoAwake, Awake, Typed
  <1> QED BY <1>5, <1>7, <1>8, <1>9, <1>10, <1>11, <1>12, <1>13, <1>14

LEMMA TimeOutInv == ASSUME NEW t \in Threads, Inv, TimeOut(t) PROVE Inv'
  <1> USE DEF Inv
  <1>1. /\ UNCHANGED <<lock, limit, edits, edits_busy, edits_alone, may>>
        /\ at[t] = "timed"
        /\ at' = [at EXCEPT ![t] = "woken"]
    BY DEF TimeOut, poolq
  <1>2. UNCHANGED <<window, open, idle, prefetching, queue, worker>>
    BY DEF TimeOut
  <1>3. Typed'
    BY <1>1, <1>2, PoolStep DEF Typed
  <1>4. InHand' = InHand /\ \A u \in Threads : at'[u] = "alone" <=> at[u] = "alone"
    BY <1>1 DEF InHand, Typed
  <1>5. Locked'
    BY <1>1 DEF Locked, Typed
  <1>6. Counted' /\ AloneIsAlone' /\ AloneIsSaid'
    BY <1>1, <1>4 DEF Counted, AloneIsAlone, AloneIsSaid
  <1>7. Claimed' /\ Told'
    BY <1>1, <1>2, PoolStep DEF Claimed, Told, Room
  <1>8. NoneTimed'
    BY <1>1, <1>2, PoolStep DEF NoneTimed, Typed
  <1>9. OneAwake'
    BY <1>1 DEF OneAwake, Awake, Typed
  <1>10. TwoAwake'
    BY <1>1, <1>2, PoolStep DEF TwoAwake, Awake, Typed
  <1> QED BY <1>3, <1>5, <1>6, <1>7, <1>8, <1>9, <1>10

(* One that rests without a timeout was told all it may ever be told: there *)
(* is none it could begin.                                                  *)
LEMMA RestInv == ASSUME NEW t \in Threads, Inv, Rest(t) PROVE Inv'
  <1> USE DEF Inv
  <1>1. /\ UNCHANGED <<limit, edits, edits_busy, edits_alone>>
        /\ lock = t /\ t # NoThread /\ at[t] = "looking" /\ lock' = NoThread
        /\ ~(edits_busy < may.many /\ Beginnable # {})
        /\ at' = [at EXCEPT ![t] = IF may.later THEN "timed" ELSE "waiting"]
        /\ may' = Nobody
    BY DEF Rest, poolq, Locked
  <1>2. UNCHANGED <<window, open, idle, prefetching, queue, worker>>
    BY DEF Rest
  <1>3. Typed'
    BY <1>1, <1>2, PoolStep DEF Typed, Nobody
  <1>4. InHand' = InHand /\ \A u \in Threads : at'[u] = "alone" <=> at[u] = "alone"
    BY <1>1 DEF InHand, Typed
  <1>5. Counted' /\ AloneIsAlone' /\ AloneIsSaid'
    BY <1>1, <1>4 DEF Counted, AloneIsAlone, AloneIsSaid
  <1>6. Locked' /\ Told' /\ Claimed'
    BY <1>1, <1>2, PoolStep DEF Locked, Told, Claimed
  <1>7. NoneTimed'
    BY <1>1, <1>2, PoolStep DEF NoneTimed, Typed
  <1>8. Room' = Room /\ Beginnable' = Beginnable
    BY <1>1 DEF Room, Beginnable
  <1>9. OneAwake'
    <2> SUFFICES ASSUME ~HeldBack, Room, Beginnable # {}, edits_busy < Cap
                 PROVE  \E u \in Threads : Awake(u)'
      BY <1>1, <1>2, <1>8, PoolStep DEF OneAwake
    <2>1. may.later
      BY <1>1 DEF Told, HeldBack
    <2> QED BY <1>1, <2>1 DEF Awake, Typed
  <1>10. TwoAwake'
    <2> SUFFICES ASSUME ~HeldBack, edits_busy = 0, limit # 0, Cap = 2, Len(edits) >= 2
                 PROVE  \E u, v \in Threads : u # v /\ Awake(u)' /\ Awake(v)'
      BY <1>1, <1>2, PoolStep DEF TwoAwake
    <2>1. Room
      <3>1. InHand = {}
        BY NoneInHand
      <3>2. ~edits_alone
        BY <3>1 DEF AloneIsSaid, InHand
      <3> QED BY <3>2, ThreadsCount DEF Room, Typed, Cap
    <2>2. 1 \in Beginnable
      BY DEF Beginnable, Typed
    <2>3. may.later
      BY <1>1, <2>1, <2>2 DEF Told, HeldBack
    <2>4. PICK u, v \in Threads : u # v /\ Awake(u) /\ Awake(v)
      BY DEF TwoAwake
    <2>5. \A w \in Threads : Awake(w) => Awake(w)'
      BY <1>1, <2>3 DEF Awake, Typed
    <2> QED BY <2>4, <2>5
  <1> QED BY <1>3, <1>5, <1>6, <1>7, <1>9, <1>10

(* One that begins leaves another awake, if another could begin. *)
LEMMA BeginInv == ASSUME NEW t \in Threads, Inv, Begin(t) PROVE Inv'
  <1> USE DEF Inv
  <1>1. PICK i \in Beginnable :
          /\ edits_alone' = edits[i] /\ edits' = RemoveAt(edits, i)
          /\ at' = [at EXCEPT ![t] = IF edits[i] THEN "alone" ELSE "developing"]
    BY DEF Begin
  <1>2. /\ lock = t /\ t # NoThread /\ at[t] = "looking" /\ lock' = NoThread
        /\ edits_busy < may.many /\ edits_busy' = edits_busy + 1
        /\ limit' = limit /\ may' = Nobody
    BY DEF Begin, Locked
  <1>3. UNCHANGED <<window, open, idle, prefetching, queue, worker>>
    BY DEF Begin
  <1>4. edits_busy \in Nat /\ may.many \in Nat /\ may.many > 0
    BY <1>2, ThreadsCount DEF Counted, Typed
  <1>5. i \in DOMAIN edits /\ edits[i] \in BOOLEAN
    BY DEF Beginnable, Typed
  <1>6. edits' \in Seq(BOOLEAN) /\ Len(edits') = Len(edits) - 1
    BY <1>1, <1>5, RemoveAtEdits DEF Typed
  <1>7. ~edits_alone /\ \A u \in Threads : at[u] # "alone"
    BY <1>2, <1>4 DEF AloneIsSaid
  <1>8. t \notin InHand /\ InHand' = InHand \cup {t}
    BY <1>1, <1>2 DEF InHand, Typed
  <1>9. Typed'
    BY <1>1, <1>2, <1>3, <1>5, <1>6, PoolStep DEF Typed, Nobody
  <1>10. Locked' /\ Told' /\ NoneTimed'
    BY <1>1, <1>2, <1>3, PoolStep DEF Locked, Told, NoneTimed, Typed
  <1>11. Counted'
    BY <1>2, <1>8, ThreadsCount, FS_AddElement DEF Counted
  <1>12. ~Reserved /\ pc # "fetching"
    BY <1>2, <1>4 DEF Claimed, Reserved
  <1>13. Claimed'
    BY <1>2, <1>3, <1>12, PoolStep DEF Claimed
  <1>14. AloneIsSaid'
    BY <1>1, <1>2, <1>5, <1>7 DEF AloneIsSaid, Typed
  <1>15. AloneIsAlone'
    <2> SUFFICES ASSUME NEW u \in Threads, at'[u] = "alone" PROVE InHand' = {u}
      BY DEF AloneIsAlone
    <2>1. u = t /\ edits[i] = TRUE
      BY <1>1, <1>5, <1>7 DEF Typed
    <2>2. edits_busy = 0
      BY <2>1 DEF Beginnable
    <2> QED BY <1>8, <2>1, <2>2, NoneInHand
  <1>16. OneAwake'
    <2> SUFFICES ASSUME ~HeldBack, Room', Beginnable' # {}, edits_busy' < Cap
                 PROVE  \E u \in Threads : Awake(u)'
      BY <1>3, PoolStep DEF OneAwake
    <2>1. edits_busy = 0 /\ Cap = 2
      BY <1>2, <1>4 DEF Cap
    <2>2. limit # 0
      BY <1>2, <1>4 DEF Room
    <2>3. Len(edits) >= 2
      BY <1>6 DEF Beginnable, Typed
    <2>4. PICK u, v \in Threads : u # v /\ Awake(u) /\ Awake(v)
      BY <2>1, <2>2, <2>3 DEF TwoAwake
    <2>5. \A w \in Threads \ {t} : Awake(w) => Awake(w)'
      BY <1>1 DEF Awake, Typed
    <2> QED BY <2>4, <2>5
  <1>17. TwoAwake'
    BY <1>2, <1>4 DEF TwoAwake
  <1> QED BY <1>9, <1>10, <1>11, <1>13, <1>14, <1>15, <1>16, <1>17

LEMMA EndEditInv == ASSUME NEW t \in Threads, Inv, EndEdit(t) PROVE Inv'
  <1> USE DEF Inv
  <1>1. /\ t \in InHand /\ lock = NoThread /\ lock' = NoThread
        /\ edits_busy' = edits_busy - 1 /\ edits_alone' = FALSE
        /\ UNCHANGED <<limit, edits, may>>
        /\ at' = [u \in Threads |-> IF u = t \/ Waiting(u) THEN "woken" ELSE at[u]]
    BY DEF EndEdit, PoolFree, CountOff
  <1>2. UNCHANGED <<window, open, idle, prefetching, queue, worker>>
    BY DEF EndEdit
  <1>3. Typed'
    BY <1>1, <1>2, PoolStep DEF Typed
  <1>4. InHand' = InHand \ {t}
    BY <1>1 DEF InHand, Waiting
  <1>5. Counted'
    BY <1>1, <1>4, ThreadsCount, FS_RemoveElement DEF Counted
  <1>6. edits_busy # 0
    BY <1>1, NoneInHand
  <1>7. Claimed'
    BY <1>1, <1>2, <1>6, PoolStep DEF Claimed
  <1>8. \A u \in Threads : at'[u] # "alone"
    BY <1>1 DEF AloneIsAlone
  <1>9. AloneIsSaid' /\ AloneIsAlone'
    BY <1>1, <1>8 DEF AloneIsSaid, AloneIsAlone
  <1>10. \A u \in Threads : ~Waiting(u)'
    BY <1>1 DEF Waiting
  <1> QED BY <1>1, <1>3, <1>5, <1>7, <1>9, <1>10, PoolUp

(* The thread notified is another than the one awake already. *)
LEMMA WantInv == ASSUME NEW alone \in BOOLEAN, Inv, Want(alone) PROVE Inv'
  <1> USE DEF Inv
  <1>1. /\ lock = NoThread /\ lock' = NoThread
        /\ edits' = Append(edits, alone)
        /\ UNCHANGED <<limit, edits_busy, edits_alone, may>>
    BY DEF Want, PoolFree
  <1>2. UNCHANGED <<window, open, idle, prefetching, queue, worker>>
    BY DEF Want
  <1>3. \/ \E t \in Threads : Waiting(t) /\ at' = [at EXCEPT ![t] = "woken"]
        \/ (\A t \in Threads : ~Waiting(t)) /\ at' = at
    BY DEF Want
  <1>4. edits' \in Seq(BOOLEAN) /\ Len(edits') = Len(edits) + 1
    BY <1>1, AppendProperties DEF Typed
  <1>5. Typed'
    BY <1>1, <1>2, <1>3, <1>4, PoolStep DEF Typed
  <1>6. InHand' = InHand /\ \A u \in Threads : at'[u] = "alone" <=> at[u] = "alone"
    BY <1>3 DEF InHand, Waiting, Typed
  <1>7. Counted' /\ AloneIsAlone' /\ AloneIsSaid'
    BY <1>1, <1>6 DEF Counted, AloneIsAlone, AloneIsSaid
  <1>8. Locked' /\ Told' /\ Claimed'
    BY <1>1, <1>2, PoolStep DEF Locked, Told, Claimed
  <1>9. CASE \E t \in Threads : Waiting(t) /\ at' = [at EXCEPT ![t] = "woken"]
    <2>1. PICK t \in Threads : Waiting(t) /\ at' = [at EXCEPT ![t] = "woken"]
      BY <1>9
    <2>2. Awake(t)' /\ \A u \in Threads : Awake(u) => Awake(u)'
      BY <2>1 DEF Awake, Typed
    <2>3. NoneTimed'
      BY <1>1, <1>2, <2>1, PoolStep DEF NoneTimed, Typed
    <2>4. TwoAwake'
      <3> SUFFICES ASSUME ~HeldBack, edits_busy = 0, limit # 0, Cap = 2, Len(edits) >= 1
                   PROVE  \E u, v \in Threads : u # v /\ Awake(u)' /\ Awake(v)'
        BY <1>1, <1>2, <1>4, PoolStep DEF TwoAwake, Typed
      <3>1. InHand = {}
        BY NoneInHand
      <3>2. Room /\ 1 \in Beginnable
        BY <3>1, ThreadsCount DEF AloneIsSaid, InHand, Room, Beginnable, Typed, Cap
      <3>3. PICK u \in Threads : Awake(u)
        BY <3>2 DEF OneAwake
      <3>4. at[u] # "timed"
        BY DEF NoneTimed, Cap
      <3>5. u # t
        BY <2>1, <3>3, <3>4 DEF Awake, Waiting
      <3> QED BY <2>2, <3>3, <3>5
    <2> QED BY <1>5, <1>7, <1>8, <2>2, <2>3, <2>4 DEF OneAwake
  <1>10. CASE (\A t \in Threads : ~Waiting(t)) /\ at' = at
    <2>1. \A t \in Threads : ~Waiting(t)'
      BY <1>10 DEF Waiting
    <2> QED BY <1>1, <1>5, <1>7, <1>8, <2>1, PoolUp
  <1> QED BY <1>3, <1>9, <1>10

-----------------------------------------------------------------------------
(* The invariant holds *)

LEMMA InitInv == Init => Inv
  <1> SUFFICES ASSUME Init PROVE Inv
    OBVIOUS
  <1>1. /\ at = [t \in Threads |-> "woken"] /\ pc = "top" /\ wpc = "idle"
        /\ prefetching = FALSE /\ edits_alone = FALSE /\ edits = <<>>
        /\ edits_busy = 0 /\ limit = Cardinality(Threads) /\ lock = NoThread
        /\ may = [many |-> 0, later |-> FALSE]
    BY DEF Init, Nobody
  <1>2. InHand = {} /\ \A t \in Threads : at[t] = "woken"
    BY <1>1 DEF InHand
  <1>3. Typed
    <2>1. at \in [Threads -> {"woken", "looking", "waiting", "timed", "developing", "alone"}]
      BY <1>1
    <2>2. edits \in Seq(BOOLEAN)
      BY <1>1, EmptySeq
    <2>3. may \in [many : 0..2, later : BOOLEAN]
      BY <1>1
    <2> QED BY <1>1, <2>1, <2>2, <2>3 DEF Typed
  <1>4. Counted
    BY <1>1, <1>2, FS_EmptySet DEF Counted
  <1>5. Locked /\ Claimed /\ Told
    BY <1>1 DEF Locked, Claimed, Reserved, Told
  <1>6. AloneIsSaid /\ AloneIsAlone
    BY <1>1, <1>2 DEF AloneIsSaid, AloneIsAlone
  <1>7. NoneTimed /\ OneAwake
    BY <1>1, <1>2 DEF NoneTimed, OneAwake, Room
  <1>8. TwoAwake
    BY <1>1 DEF TwoAwake
  <1> QED BY <1>3, <1>4, <1>5, <1>6, <1>7, <1>8 DEF Inv

LEMMA NextInv == Inv /\ [Next]_vars => Inv'
  <1> SUFFICES ASSUME Inv, [Next]_vars PROVE Inv'
    OBVIOUS
  <1>1. CASE User
    BY <1>1, UserInv
  <1>2. CASE Handler
    BY <1>2, HandlerInv
  <1>3. CASE Thread
    BY <1>3, IdlesInv, FetchesInv, WorksInv DEF Thread
  <1>4. CASE Quieten
    BY <1>4, WindowStill DEF Quieten, window, queue, worker, pool, Inv, Typed
  <1>5. ASSUME NEW t \in Threads, PoolThread(t) PROVE Inv'
    BY <1>5, LookAtInv, BeginInv, RestInv, TimeOutInv, EndEditInv DEF PoolThread
  <1>6. ASSUME NEW alone \in BOOLEAN, Want(alone) PROVE Inv'
    BY <1>6, WantInv
  <1>7. CASE UNCHANGED vars
    BY <1>7, WindowStill DEF vars, window, queue, worker, pool, Inv, Typed
  <1> QED BY <1>1, <1>2, <1>3, <1>4, <1>5, <1>6, <1>7 DEF Next

(* Every reachable state satisfies the inductive invariant. *)
THEOREM Invariance == Spec => []Inv
  BY InitInv, NextInv, PTL DEF Spec

(* A neighbor's base and a reduced develop are never made at once, whatever *)
(* the order of the flag, the count and the pool's look (claim).            *)
THEOREM NeverBothCorrect == Spec => []NeverBoth
  <1>1. Inv => NeverBoth
    BY NoneInHand DEF Inv, Claimed, NeverBoth
  <1> QED BY <1>1, Invariance, PTL

(* The reduced develop of a frame under a network root has none beside it.  *)
THEOREM AloneCorrect == Spec => []AloneIsAlone
  <1>1. Inv => AloneIsAlone
    BY DEF Inv
  <1> QED BY <1>1, Invariance, PTL

(* No wake of the pool is lost. *)
THEOREM AwakeCorrect == Spec => []AwakeIfReady
  <1>1. Inv => AwakeIfReady
    <2> SUFFICES ASSUME Inv, Ready, ~WakeDue
                 PROVE  \E t \in Threads : at[t] \in {"woken", "looking", "timed"}
      BY DEF AwakeIfReady
    <2>1. edits_busy \in Nat
      BY ThreadsCount DEF Inv, Counted
    <2>2. ~prefetching /\ edits_busy < Cap
      BY <2>1 DEF Ready, AtOnce, Cap
    <2> QED BY <2>2 DEF Inv, OneAwake, HeldBack, Ready, Awake
  <1> QED BY <1>1, Invariance, PTL

(* Once the pool was counted, none is begun till the reservation is let go. *)
THEOREM ReservedCorrect == Spec => ReservedIsNext
  <1>1. Inv /\ [Next]_vars => [Reserved => edits_busy' <= edits_busy]_vars
    <2> SUFFICES ASSUME Inv, Next, Reserved PROVE edits_busy' <= edits_busy
      OBVIOUS
    <2>1. edits_busy \in Nat
      BY ThreadsCount DEF Inv, Counted
    <2> USE DEF pool, poolq
    <2>2. CASE User
      BY <2>1, <2>2 DEF User, SendOpen, SendOpenAgain, ChangeEdit, SendDevelop, Leave, Back,
           SetOpen, Filter, NeighborsAgain, SendOther
    <2>3. CASE Handler
      BY <2>1, <2>3 DEF Handler, QueueOpen, SendNeighbors, Left, SetOpen, WakePool, TellWorker,
           Resend, NeighborsAgain
    <2>4. CASE Idles
      BY <2>1, <2>4 DEF Idles, Look, Settle, DozeEnds, Reserve, Count
    <2>5. CASE Fetches
      <3>1. CASE GoesOn \/ GivesWay \/ Skips \/ Lands \/ Panics
        <4>1. Fetching(TRUE) \/ Fetching(FALSE)
          BY <3>1 DEF GoesOn, GivesWay, Skips, Lands, Panics
        <4> QED BY <2>1, <4>1 DEF Fetching
      <3>2. CASE WakeFromFetch
        BY <2>1, <3>2 DEF WakeFromFetch
      <3>3. CASE After
        <4>1. UNCHANGED pool
          BY <3>3 DEF After
        <4> QED BY <2>1, <4>1
      <3> QED BY <2>5, <3>1, <3>2, <3>3 DEF Fetches
    <2>6. CASE Works
      <3>1. CASE TakeJob
        <4>1. UNCHANGED pool
          BY <3>1 DEF TakeJob
        <4> QED BY <2>1, <4>1
      <3>2. CASE HoldPool
        BY <2>1, <3>2 DEF HoldPool
      <3>3. CASE ReleasePool
        BY <2>1, <3>3 DEF ReleasePool
      <3>4. CASE FinishDevelop
        BY <2>1, <3>4 DEF FinishDevelop
      <3>5. CASE FinishOther
        BY <2>1, <3>5 DEF FinishOther
      <3> QED BY <2>6, <3>1, <3>2, <3>3, <3>4, <3>5 DEF Works
    <2>7. CASE Quieten
      BY <2>1, <2>7 DEF Quieten
    <2>8. ASSUME NEW t \in Threads, PoolThread(t) PROVE edits_busy' <= edits_busy
      <3>1. CASE Begin(t)
        <4>1. lock # NoThread /\ edits_busy < may.many
          BY <3>1 DEF Begin
        <4> QED BY <2>1, <4>1 DEF Inv, Claimed
      <3>2. CASE EndEdit(t)
        BY <2>1, <3>2 DEF EndEdit, CountOff
      <3>3. CASE LookAt(t) \/ Rest(t) \/ TimeOut(t)
        BY <2>1, <3>3 DEF LookAt, Rest, TimeOut
      <3> QED BY <2>8, <3>1, <3>2, <3>3 DEF PoolThread
    <2>9. CASE \E alone \in BOOLEAN : Want(alone)
      BY <2>1, <2>9 DEF Want
    <2> QED BY <2>2, <2>3, <2>4, <2>5, <2>6, <2>7, <2>8, <2>9 DEF Next, Thread
  <1> QED BY <1>1, Invariance, PTL DEF Spec, ReservedIsNext

-----------------------------------------------------------------------------
(* The window's frame, what waits for it, and what the worker has in hand   *)

WindowTyped ==
    /\ cur \in Files \cup {NoFile} /\ sent \in Nat /\ told \in Seq(Files)
    /\ rev \in [Files -> Nat] /\ acts \in Nat
    /\ open \in Files \cup {NoFile} /\ idle \in 0..2

ListSet == [gen : Nat, waiting : Seq(NeighborSet), quiet : 1..2]

QueueTyped ==
    slot \in JobSet /\ others \subseteq Asks /\ neighbors \in ListSet /\ changed \subseteq Files

Endings == {"", "done", "gave way", "panicked"}

WorkerTyped ==
    /\ job \in JobSet /\ landed \in Nat /\ base \in BOOLEAN
    /\ fetch \in NeighborSet /\ stage \in 0..Stages
    /\ ended \in Endings /\ shelf \subseteq NeighborSet

OnStrip(n) == \E j \in DOMAIN Beside[cur] : Beside[cur][j] = n.file

(* The open frame is the one selected, and a list is sent for a frame.      *)
Selected ==
    /\ open \in {NoFile, cur}
    /\ wpc \in {"waking", "sending", "again"} => cur # NoFile

(* Nothing is of an open that was not sent. *)
Sent ==
    /\ neighbors.gen <= sent /\ landed <= sent
    /\ slot.gen <= sent /\ job.gen <= sent

Popping == pc \in {"claiming", "counting"}

InPrefetch == pc \in {"claiming", "counting", "fetching", "ended", "after"}

(* The neighbor popped is beside the frame whose open landed, as long as    *)
(* that is the open last sent.                                              *)
Popped ==
    /\ Popping => neighbors # NoNeighbors /\ neighbors.gen = landed
    /\ InPrefetch /\ landed = sent => OnStrip(fetch)

(* The worker settles the reservation before it waits. *)
Settled == pc \in {"settling", "asleep"} => ~prefetching

Lists == /\ WindowTyped /\ QueueTyped /\ WorkerTyped /\ wanted \in Nat
         /\ Selected /\ Sent /\ Popped /\ WaitingIsBeside /\ Settled

(* The types are those of the pool's proof, and these. *)
LEMMA Typing == Inv /\ Lists => TypeOK
  <1>1. Inv => edits_busy \in Nat
    BY ThreadsCount DEF Inv, Counted
  <1> QED BY <1>1 DEF Inv, Typed, Lists, WindowTyped, QueueTyped, WorkerTyped, ListSet, Endings, TypeOK

(* What the strip shows of the neighbors are some of them. *)
LEMMA ShownBeside ==
    ASSUME NEW f \in Files, NEW list \in Shown(f)
    PROVE  /\ list \in Seq(Files)
           /\ \A i \in DOMAIN list : \E j \in DOMAIN Beside[f] : Beside[f][j] = list[i]
  <1> DEFINE picks(n) == {p \in [1..n -> 1..Len(Beside[f])] : \A i, j \in 1..n : i < j => p[i] < p[j]}
             lists(n) == {[i \in 1..n |-> Beside[f][pick[i]]] : pick \in picks(n)}
  <1>a. list \in UNION {lists(n) : n \in 0..Len(Beside[f])}
    BY Zenon DEF Shown
  <1>b. \A n : \A pick \in picks(n) : pick \in [1..n -> 1..Len(Beside[f])]
    BY Zenon
  <1>c. \A n : \A l \in lists(n) : \E pick \in picks(n) : l = [i \in 1..n |-> Beside[f][pick[i]]]
    BY Zenon
  <1> HIDE DEF picks, lists
  <1>d. PICK n \in 0..Len(Beside[f]) : list \in lists(n)
    BY <1>a, Zenon
  <1>e. PICK pick \in picks(n) : list = [i \in 1..n |-> Beside[f][pick[i]]]
    BY <1>c, <1>d
  <1>1. pick \in [1..n -> 1..Len(Beside[f])] /\ list = [i \in 1..n |-> Beside[f][pick[i]]]
    BY <1>b, <1>e
  <1>2. Beside[f] \in Seq(Files) /\ DOMAIN Beside[f] = 1..Len(Beside[f])
    BY LenProperties
  <1>3. n \in Nat
    BY <1>2, LenProperties
  <1>4. list \in [1..n -> Files]
    BY <1>1, <1>2
  <1>5. list \in Seq(Files)
    BY <1>3, <1>4, SeqDef
  <1>6. \A i \in DOMAIN list : \E j \in DOMAIN Beside[f] : Beside[f][j] = list[i]
    BY <1>1, <1>2
  <1> QED BY <1>5, <1>6

(* A list of neighbors is of the frame it was made for. *)
LEMMA NeighborsOfList ==
    ASSUME WindowTyped, NEW g \in Nat, cur \in Files, NEW list \in Shown(cur)
    PROVE  /\ NeighborsOf(g, list) \in ListSet
           /\ NeighborsOf(g, list).gen = g
           /\ \A i \in DOMAIN NeighborsOf(g, list).waiting :
                OnStrip(NeighborsOf(g, list).waiting[i])
           /\ list \in Seq(Files)
  <1>1. /\ list \in Seq(Files)
        /\ \A i \in DOMAIN list : \E j \in DOMAIN Beside[cur] : Beside[cur][j] = list[i]
    BY ShownBeside
  <1>2. DOMAIN list = 1..Len(list) /\ Len(list) \in Nat /\ \A i \in DOMAIN list : list[i] \in Files
    BY <1>1, LenProperties, ElementOfSeq
  <1>3. \A i \in DOMAIN list : Neighbor(list[i]) \in NeighborSet
    BY <1>2 DEF Neighbor, NeighborSet, WindowTyped
  <1>4. [i \in DOMAIN list |-> Neighbor(list[i])] \in Seq(NeighborSet)
    BY <1>2, <1>3, SeqDef
  <1> QED BY <1>1, <1>4 DEF NeighborsOf, OnStrip, Neighbor, ListSet

LEMMA NoNeighborsType ==
    /\ NoNeighbors \in ListSet
    /\ NoNeighbors.gen = 0 /\ NoNeighbor \in NeighborSet
    /\ NoNeighbors.waiting = <<>>
  BY EmptySeq DEF NoNeighbors, NoNeighbor, NeighborSet, ListSet

(* A neighbor put back to the front of the list, and one popped from it.    *)
LEMMA PutBackList ==
    ASSUME NEW w \in Seq(NeighborSet), NEW n \in NeighborSet
    PROVE  /\ <<n>> \o w \in Seq(NeighborSet)
           /\ \A i \in DOMAIN (<<n>> \o w) :
                (<<n>> \o w)[i] = n \/ \E j \in DOMAIN w : (<<n>> \o w)[i] = w[j]
  <1>1. <<n>> \in Seq(NeighborSet) /\ Len(<<n>>) = 1 /\ <<n>>[1] = n
    OBVIOUS
  <1>2. /\ <<n>> \o w \in Seq(NeighborSet)
        /\ Len(<<n>> \o w) = 1 + Len(w)
        /\ \A i \in 1..(1 + Len(w)) : (<<n>> \o w)[i] = IF i <= 1 THEN <<n>>[i] ELSE w[i - 1]
    BY <1>1, ConcatProperties
  <1>3. Len(w) \in Nat /\ DOMAIN w = 1..Len(w) /\ DOMAIN (<<n>> \o w) = 1..(1 + Len(w))
    BY <1>2, LenProperties
  <1> QED BY <1>1, <1>2, <1>3

LEMMA PopList ==
    ASSUME NEW w \in Seq(NeighborSet), w # <<>>
    PROVE  /\ Head(w) \in NeighborSet /\ Tail(w) \in Seq(NeighborSet)
           /\ \E j \in DOMAIN w : Head(w) = w[j]
           /\ \A i \in DOMAIN Tail(w) : \E j \in DOMAIN w : Tail(w)[i] = w[j]
  <1>1. /\ Head(w) \in NeighborSet /\ Tail(w) \in Seq(NeighborSet)
        /\ Len(Tail(w)) = Len(w) - 1
        /\ \A i \in 1..Len(Tail(w)) : Tail(w)[i] = w[i + 1]
    BY HeadTailProperties
  <1>2. /\ Len(w) \in Nat /\ Len(w) > 0 /\ DOMAIN w = 1..Len(w)
        /\ DOMAIN Tail(w) = 1..Len(Tail(w)) /\ Head(w) = w[1]
    BY <1>1, LenProperties, EmptySeq
  <1> QED BY <1>1, <1>2

LEMMA InitLists == Init => Lists
  <1> SUFFICES ASSUME Init PROVE Lists
    OBVIOUS
  <1>1. NoJob \in JobSet /\ NoJob.gen = 0
    BY DEF NoJob, Job, JobSet
  <1>2. /\ wpc = "idle" /\ cur = NoFile /\ sent = 0 /\ told = <<>>
        /\ rev = [f \in Files |-> 0] /\ acts = 0 /\ open = NoFile /\ idle = 0
    BY DEF Init
  <1>3. /\ slot = NoJob /\ others = {} /\ neighbors = NoNeighbors /\ changed = {}
        /\ job = NoJob /\ fetch = NoNeighbor /\ shelf = {}
    BY DEF Init
  <1>4. landed = 0 /\ stage = 0 /\ wanted = 0 /\ pc = "top"
    BY DEF Init
  <1>5. base = FALSE /\ ended \in Endings
    BY DEF Init, Endings
  <1>6. WindowTyped
    <2>1. told \in Seq(Files)
      BY <1>2, EmptySeq
    <2>2. rev \in [Files -> Nat]
      BY <1>2
    <2> QED BY <1>2, <2>1, <2>2 DEF WindowTyped
  <1>7. QueueTyped
    BY <1>1, <1>3, NoNeighborsType DEF QueueTyped
  <1>8. WorkerTyped
    <2>1. job \in JobSet /\ fetch \in NeighborSet /\ shelf \subseteq NeighborSet
      BY <1>1, <1>3, NoNeighborsType
    <2>2. landed \in Nat /\ stage \in 0..Stages
      BY <1>4
    <2> QED BY <1>5, <2>1, <2>2 DEF WorkerTyped
  <1>9. Sent
    <2>1. neighbors.gen = 0 /\ landed = 0 /\ slot.gen = 0 /\ job.gen = 0 /\ sent = 0
      BY <1>1, <1>2, <1>3, <1>4, NoNeighborsType
    <2> QED BY <2>1 DEF Sent
  <1>10. Selected /\ Popped /\ WaitingIsBeside /\ Settled
    BY <1>2, <1>3, <1>4 DEF Selected, Popped, Popping, InPrefetch, WaitingIsBeside, Settled
  <1>11. wanted \in Nat
    BY <1>4
  <1> QED BY <1>6, <1>7, <1>8, <1>9, <1>10, <1>11 DEF Lists

(* Steps of the window that leave the lists and the newest open as they     *)
(* are.                                                                     *)
LEMMA WindowLists ==
    ASSUME Lists,
           UNCHANGED <<cur, sent, prefetching, neighbors, worker, wanted>>
              \/ (UNCHANGED <<cur, sent, prefetching, neighbors, wanted,
                              job, landed, base, fetch, stage, ended, shelf>> /\ Notify),
           WindowTyped', Selected',
           slot' \in JobSet, slot'.gen <= sent, others' \subseteq Asks, changed' \subseteq Files
    PROVE  Lists'
  <1>1. /\ UNCHANGED <<cur, sent, prefetching, neighbors, wanted,
                       job, landed, base, fetch, stage, ended, shelf>>
        /\ pc' = pc \/ pc' = "top"
    BY DEF worker, Notify
  <1>2. QueueTyped' /\ WorkerTyped' /\ (wanted \in Nat)'
    BY <1>1 DEF Lists, QueueTyped, WorkerTyped
  <1>3. Sent'
    BY <1>1 DEF Lists, Sent
  <1>4. Popped'
    BY <1>1 DEF Lists, Popped, Popping, InPrefetch, OnStrip
  <1>5. WaitingIsBeside' /\ Settled'
    BY <1>1 DEF Lists, WaitingIsBeside, Settled
  <1> QED BY <1>2, <1>3, <1>4, <1>5 DEF Lists

(* Steps of the window that let the neighbors go, or send those of the      *)
(* frame selected, while the worker looks at none.                          *)
LEMMA SendLists ==
    ASSUME Lists, QueueFree,
           UNCHANGED <<cur, sent, prefetching, slot, others, wanted,
                       job, landed, base, fetch, stage, ended, shelf>>,
           Notify, changed' = changed, WindowTyped', Selected',
           \/ neighbors' = NoNeighbors
           \/ cur \in Files /\ \E list \in Shown(cur) : neighbors' = NeighborsOf(sent, list)
    PROVE  Lists'
  <1>1. pc' = pc \/ pc' = "top"
    BY DEF Notify
  <1> DEFINE Fine(l) == /\ l \in ListSet /\ l.gen <= sent
                        /\ l # NoNeighbors => \A i \in DOMAIN l.waiting : OnStrip(l.waiting[i])
  <1>2. Fine(neighbors')
    <2>1. CASE neighbors' = NoNeighbors
      BY <2>1, NoNeighborsType DEF Lists, WindowTyped
    <2>2. ASSUME cur \in Files, NEW list \in Shown(cur), neighbors' = NeighborsOf(sent, list)
          PROVE  Fine(neighbors')
      BY <2>2, NeighborsOfList DEF Lists, WindowTyped
    <2> QED BY <2>1, <2>2
  <1>3. QueueTyped' /\ WorkerTyped' /\ (wanted \in Nat)'
    BY <1>2 DEF Lists, QueueTyped, WorkerTyped
  <1>4. Sent'
    BY <1>2 DEF Lists, Sent
  <1>5. Popped'
    BY <1>1 DEF Lists, Popped, Popping, InPrefetch, OnStrip, QueueFree
  <1>6. WaitingIsBeside'
    BY <1>2 DEF WaitingIsBeside, OnStrip
  <1>7. Settled'
    BY <1>1 DEF Lists, Settled
  <1> QED BY <1>3, <1>4, <1>5, <1>6, <1>7 DEF Lists

LEMMA UserLists == Lists /\ User => Lists'
  <1> SUFFICES ASSUME Lists, User PROVE Lists'
    OBVIOUS
  <1> USE DEF Acts
  <1>0. /\ acts \in Nat /\ sent \in Nat /\ rev \in [Files -> Nat]
        /\ slot \in JobSet /\ slot.gen <= sent /\ others \subseteq Asks /\ changed \subseteq Files
    BY DEF Lists, WindowTyped, QueueTyped, Sent
  (* A new open: nothing so far is of it. *)
  <1> DEFINE New == /\ sent' = sent + 1
                    /\ UNCHANGED <<prefetching, neighbors, others, changed, wanted,
                                   job, landed, base, fetch, stage, ended, shelf>>
                    /\ pc' = pc \/ pc' = "top"
                    /\ slot' \in JobSet /\ slot'.gen <= sent + 1
                    /\ WindowTyped' /\ Selected'
  <1>1. ASSUME New PROVE Lists'
    <2>1. QueueTyped' /\ WorkerTyped' /\ (wanted \in Nat)'
      BY <1>1 DEF Lists, QueueTyped, WorkerTyped
    <2>2. /\ neighbors.gen \in Nat /\ landed \in Nat /\ job.gen \in Nat /\ slot'.gen \in Nat
          /\ neighbors.gen <= sent /\ landed <= sent /\ job.gen <= sent
      BY <1>1 DEF Lists, QueueTyped, WorkerTyped, Sent, JobSet, ListSet
    <2>3. Sent'
      BY <1>0, <1>1, <2>2 DEF Sent
    <2>4. landed' # sent' /\ neighbors'.gen # sent'
      BY <1>0, <1>1, <2>2
    <2>5. Popped'
      BY <1>1, <2>4 DEF Lists, Popped, Popping
    <2>6. WaitingIsBeside' /\ Settled'
      BY <1>1, <2>4 DEF Lists, WaitingIsBeside, Settled
    <2> QED BY <1>1, <2>1, <2>3, <2>5, <2>6 DEF Lists
  <1>2. ASSUME NEW f \in Files, SendOpen(f) PROVE Lists'
    <2>1. WindowTyped' /\ Selected'
      BY <1>0, <1>2 DEF SendOpen, Lists, WindowTyped, Selected
    <2>2. slot' = slot /\ slot.gen \in Nat
      BY <1>0, <1>2 DEF SendOpen, queue, JobSet
    <2>3. slot' \in JobSet /\ slot'.gen <= sent + 1
      BY <1>0, <2>2
    <2>4. New
      BY <1>2, <2>1, <2>3 DEF SendOpen, queue, worker, pool, poolq
    <2> QED BY <1>1, <2>4
  <1>3. ASSUME NEW f \in Files, SendOpenAgain(f) PROVE Lists'
    <2>1. WindowTyped' /\ Selected'
      BY <1>0, <1>3 DEF SendOpenAgain, Queued, Lists, WindowTyped, Selected
    <2>2. slot' \in JobSet /\ slot'.gen = sent + 1
      <3>1. slot' = [kind |-> "open", file |-> f, gen |-> sent + 1, rev |-> rev[f]]
        BY <1>3 DEF SendOpenAgain, Queued, Job
      <3>2. rev[f] \in Nat
        BY <1>0
      <3> QED BY <1>0, <3>1, <3>2 DEF JobSet
    <2> QED BY <1>0, <1>1, <1>3, <2>1, <2>2 DEF SendOpenAgain, Queued, Notify, pool, poolq
  <1>4. ASSUME NEW f \in Files, ChangeEdit(f) PROVE Lists'
    <2>1. WindowTyped' /\ Selected'
      BY <1>0, <1>4 DEF ChangeEdit, Lists, WindowTyped, Selected
    <2> QED BY <1>0, <1>4, <2>1, WindowLists DEF ChangeEdit, pool, poolq
  <1>5. ASSUME SendDevelop PROVE Lists'
    <2>1. WindowTyped' /\ Selected'
      BY <1>0, <1>5 DEF SendDevelop, Lists, WindowTyped, Selected
    <2>2. slot' \in JobSet /\ slot'.gen = sent
      BY <1>0, <1>5 DEF SendDevelop, Job, JobSet
    <2> QED BY <1>0, <1>5, <2>1, <2>2, WindowLists DEF SendDevelop, pool, poolq
  <1>6. ASSUME Leave PROVE Lists'
    <2>1. WindowTyped' /\ Selected'
      BY <1>0, <1>6 DEF Leave, Lists, WindowTyped, Selected
    <2> QED BY <1>6, <2>1, SendLists DEF Leave, pool, poolq
  <1>7. ASSUME Back PROVE Lists'
    <2>1. WindowTyped' /\ Selected'
      BY <1>0, <1>7 DEF Back, SetOpen, Lists, WindowTyped, Selected
    <2> QED BY <1>0, <1>7, <2>1, WindowLists DEF Back, SetOpen, queue, worker, pool, poolq
  <1>8. ASSUME Filter PROVE Lists'
    <2>1. PICK list \in Shown(cur) : NeighborsAgain(list)
      BY <1>8 DEF Filter
    <2>2. cur \in Files
      BY <1>8 DEF Filter, Lists, WindowTyped, Selected
    <2>3. list \in Seq(Files)
      BY <2>2, ShownBeside
    <2>4. WindowTyped' /\ Selected'
      BY <1>0, <1>8, <2>1, <2>3 DEF Filter, NeighborsAgain, Lists, WindowTyped, Selected
    <2>5. CASE Ours
      BY <1>8, <2>1, <2>2, <2>4, <2>5, SendLists DEF Filter, NeighborsAgain, pool, poolq
    <2>6. CASE ~Ours
      BY <1>0, <1>8, <2>1, <2>4, <2>6, WindowLists DEF Filter, NeighborsAgain, worker, pool, poolq
    <2> QED BY <2>5, <2>6
  <1>9. ASSUME NEW k \in Asks, SendOther(k) PROVE Lists'
    <2>1. WindowTyped' /\ Selected'
      BY <1>0, <1>9 DEF SendOther, Lists, WindowTyped, Selected
    <2> QED BY <1>0, <1>9, <2>1, WindowLists DEF SendOther, pool, poolq
  <1> QED BY <1>2, <1>3, <1>4, <1>5, <1>6, <1>7, <1>8, <1>9 DEF User

LEMMA HandlerLists == Lists /\ Handler => Lists'
  <1> SUFFICES ASSUME Lists, Handler PROVE Lists'
    OBVIOUS
  <1>0. /\ acts \in Nat /\ sent \in Nat /\ rev \in [Files -> Nat]
        /\ slot \in JobSet /\ slot.gen <= sent /\ others \subseteq Asks /\ changed \subseteq Files
    BY DEF Lists, WindowTyped, QueueTyped, Sent
  <1>1. ASSUME QueueOpen PROVE Lists'
    <2>1. WindowTyped' /\ Selected'
      BY <1>0, <1>1 DEF QueueOpen, Queued, Lists, WindowTyped, Selected
    <2>2. cur \in Files
      BY <1>1 DEF QueueOpen, Lists, WindowTyped, Selected
    <2>3. slot' \in JobSet /\ slot'.gen = sent
      BY <1>0, <1>1, <2>2 DEF QueueOpen, Queued, Job, JobSet
    <2> QED BY <1>0, <1>1, <2>1, <2>3, WindowLists DEF QueueOpen, Queued, poolq
  <1>2. ASSUME SendNeighbors PROVE Lists'
    <2>1. PICK list \in Shown(cur) : neighbors' = NeighborsOf(sent, list) /\ told' = list
      BY <1>2 DEF SendNeighbors
    <2>2. cur \in Files
      BY <1>2 DEF SendNeighbors, Lists, WindowTyped, Selected
    <2>3. list \in Seq(Files)
      BY <2>2, ShownBeside
    <2>4. WindowTyped' /\ Selected'
      BY <1>0, <1>2, <2>1, <2>3 DEF SendNeighbors, Lists, WindowTyped, Selected
    <2> QED BY <1>2, <2>1, <2>2, <2>4, SendLists DEF SendNeighbors, pool, poolq
  <1>3. ASSUME Left PROVE Lists'
    <2>1. WindowTyped' /\ Selected'
      BY <1>0, <1>3 DEF Left, SetOpen, Lists, WindowTyped, Selected
    <2> QED BY <1>0, <1>3, <2>1, WindowLists DEF Left, SetOpen, queue, worker, pool, poolq
  <1>4. ASSUME WakePool PROVE Lists'
    <2>1. WindowTyped' /\ Selected'
      BY <1>0, <1>4 DEF WakePool, Lists, WindowTyped, Selected
    <2> QED BY <1>0, <1>4, <2>1, WindowLists DEF WakePool, queue, worker, poolq
  <1>5. ASSUME TellWorker PROVE Lists'
    <2>1. WindowTyped' /\ Selected'
      BY <1>0, <1>5 DEF TellWorker, Lists, WindowTyped, Selected
    <2> QED BY <1>0, <1>5, <2>1, WindowLists DEF TellWorker, queue, pool, poolq
  <1>6. ASSUME Resend PROVE Lists'
    <2>1. PICK list \in Shown(cur) : NeighborsAgain(list)
      BY <1>6 DEF Resend
    <2>2. cur \in Files
      BY <1>6 DEF Resend, Lists, WindowTyped, Selected
    <2>3. list \in Seq(Files)
      BY <2>2, ShownBeside
    <2>4. WindowTyped' /\ Selected'
      BY <1>0, <1>6, <2>1, <2>3 DEF Resend, NeighborsAgain, Lists, WindowTyped, Selected
    <2>5. CASE Ours
      BY <1>6, <2>1, <2>2, <2>4, <2>5, SendLists DEF Resend, NeighborsAgain, pool, poolq
    <2>6. CASE ~Ours
      BY <1>0, <1>6, <2>1, <2>4, <2>6, WindowLists DEF Resend, NeighborsAgain, worker, pool, poolq
    <2> QED BY <2>5, <2>6
  <1> QED BY <1>1, <1>2, <1>3, <1>4, <1>5, <1>6 DEF Handler

(* Steps of the worker that leave the lists and what it popped, and those   *)
(* of the pool.                                                             *)
LEMMA ThreadLists ==
    ASSUME Lists, UNCHANGED <<window, open, neighbors>>,
           idle' \in 0..2, QueueTyped', WorkerTyped', (wanted \in Nat)',
           slot'.gen <= sent, job'.gen <= sent, landed' <= sent,
           Popping' => Popping /\ landed' = landed,
           InPrefetch' => InPrefetch /\ landed' = landed /\ fetch' = fetch,
           Settled'
    PROVE  Lists'
  <1> USE DEF window
  <1>1. WindowTyped' /\ Selected'
    BY DEF Lists, WindowTyped, Selected
  <1>2. Sent'
    BY DEF Lists, Sent
  <1>3. Popped'
    BY DEF Lists, Popped, OnStrip
  <1>4. WaitingIsBeside'
    BY DEF Lists, WaitingIsBeside
  <1> QED BY <1>1, <1>2, <1>3, <1>4 DEF Lists

(* The neighbor popped goes back to the front of its open's list. *)
LEMMA PutBackWaits ==
    ASSUME Lists, NEW quiet \in 1..2, PutBack(quiet), UNCHANGED <<cur, sent>>,
           neighbors # NoNeighbors,
           neighbors.gen = sent => OnStrip(fetch)
    PROVE  /\ neighbors' \in ListSet /\ neighbors'.gen = neighbors.gen
           /\ WaitingIsBeside'
  <1>1. /\ neighbors \in ListSet /\ fetch \in NeighborSet
        /\ neighbors.waiting \in Seq(NeighborSet)
    BY DEF Lists, QueueTyped, WorkerTyped, ListSet
  <1> DEFINE w == <<fetch>> \o neighbors.waiting
  <1>2. /\ w \in Seq(NeighborSet)
        /\ \A i \in DOMAIN w : w[i] = fetch \/ \E j \in DOMAIN neighbors.waiting :
                                                  w[i] = neighbors.waiting[j]
    BY <1>1, PutBackList
  <1>3. neighbors' = [neighbors EXCEPT !.waiting = w, !.quiet = quiet]
    BY DEF PutBack
  <1> HIDE DEF w
  <1>4. /\ neighbors' \in ListSet /\ neighbors'.gen = neighbors.gen
        /\ neighbors'.waiting = w
    BY <1>1, <1>2, <1>3 DEF ListSet
  <1>5. ASSUME neighbors'.gen = sent' PROVE \A i \in DOMAIN w : OnStrip(w[i])
    <2>1. \A j \in DOMAIN neighbors.waiting : OnStrip(neighbors.waiting[j])
      BY <1>4, <1>5 DEF Lists, WaitingIsBeside, OnStrip
    <2> QED BY <1>2, <1>4, <1>5, <2>1
  <1>6. WaitingIsBeside'
    BY <1>4, <1>5 DEF WaitingIsBeside, OnStrip
  <1> QED BY <1>4, <1>6

LEMMA IdlesLists == Lists /\ Idles => Lists'
  <1> SUFFICES ASSUME Lists, Idles PROVE Lists'
    OBVIOUS
  <1>0. /\ WindowTyped /\ QueueTyped /\ WorkerTyped /\ wanted \in Nat
        /\ Sent /\ Popped /\ WaitingIsBeside /\ Settled /\ Selected
    BY DEF Lists
  <1>1. ASSUME Look PROVE Lists'
    <2>1. /\ UNCHANGED <<window, open, idle, slot, others, job, landed, base, stage, ended, wanted>>
          /\ shelf' \subseteq shelf /\ changed' = {} /\ pc = "top"
      BY <1>1 DEF Look, TakeChanged, pool, poolq
    <2>2. WindowTyped' /\ Selected' /\ (wanted \in Nat)'
      BY <1>0, <2>1 DEF WindowTyped, Selected, window
    <2>3. /\ slot'.gen <= sent' /\ job'.gen <= sent' /\ landed' <= sent'
          /\ neighbors \in ListSet /\ fetch \in NeighborSet
      BY <1>0, <2>1 DEF Sent, QueueTyped, WorkerTyped, window
    <2>4. ASSUME NEW roomy \in BOOLEAN, DueFetch(roomy), fetch' = Head(neighbors.waiting),
                 neighbors' = [neighbors EXCEPT !.waiting = Tail(@)],
                 pc' = "claiming", UNCHANGED prefetching
          PROVE  Lists'
      <3>1. /\ neighbors.waiting \in Seq(NeighborSet) /\ neighbors.waiting # <<>>
            /\ neighbors # NoNeighbors /\ neighbors.gen = landed
            /\ neighbors.gen \in Nat /\ landed \in Nat /\ neighbors.gen # 0
        BY <1>0, <2>3, <2>4 DEF DueFetch, OfTheOpen, OfTheLanded, ListSet, WorkerTyped
      <3> DEFINE w == Tail(neighbors.waiting)
      <3>2. /\ fetch' \in NeighborSet /\ w \in Seq(NeighborSet)
            /\ \E j \in DOMAIN neighbors.waiting : fetch' = neighbors.waiting[j]
            /\ \A i \in DOMAIN w : \E j \in DOMAIN neighbors.waiting :
                  w[i] = neighbors.waiting[j]
        BY <2>4, <3>1, PopList
      <3>3. neighbors' = [neighbors EXCEPT !.waiting = w]
        BY <2>4
      <3> HIDE DEF w
      <3>4. /\ neighbors' \in ListSet /\ neighbors'.gen = neighbors.gen
            /\ neighbors'.waiting = w
        BY <2>3, <3>2, <3>3 DEF ListSet
      <3>5. neighbors' # NoNeighbors
        BY <3>1, <3>4, NoNeighborsType
      <3>6. neighbors.gen = sent => \A j \in DOMAIN neighbors.waiting : OnStrip(neighbors.waiting[j])
        BY <1>0, <3>1 DEF WaitingIsBeside, OnStrip
      <3>7. UNCHANGED <<cur, sent, landed>>
        BY <2>1 DEF window
      <3>8. Popped'
        BY <3>1, <3>2, <3>4, <3>5, <3>6, <3>7 DEF Popped, OnStrip
      <3>9. WaitingIsBeside'
        <4>1. neighbors.gen = sent => \A i \in DOMAIN w : OnStrip(w[i])
          BY <3>2, <3>6
        <4> QED BY <3>4, <3>7, <4>1 DEF WaitingIsBeside, OnStrip
      <3>10. QueueTyped' /\ WorkerTyped'
        BY <1>0, <2>1, <3>2, <3>4 DEF QueueTyped, WorkerTyped
      <3>11. Sent' /\ Settled'
        BY <1>0, <2>3, <2>4, <3>4, <3>7 DEF Sent, Settled
      <3> QED BY <2>2, <3>8, <3>9, <3>10, <3>11 DEF Lists
    <2>5. ASSUME neighbors' \in {neighbors, NoNeighbors}, prefetching' = FALSE,
                 pc' \in {"settling", "dozing", "asleep"}, UNCHANGED fetch
          PROVE  Lists'
      <3>1. QueueTyped' /\ WorkerTyped'
        BY <1>0, <2>1, <2>5, NoNeighborsType DEF QueueTyped, WorkerTyped
      <3>2. Sent'
        BY <1>0, <2>1, <2>3, <2>5, NoNeighborsType DEF Sent, WindowTyped, window
      <3>3. Popped' /\ Settled'
        BY <2>5 DEF Popped, Popping, InPrefetch, Settled
      <3>4. WaitingIsBeside'
        BY <1>0, <2>1, <2>5 DEF WaitingIsBeside, window
      <3> QED BY <2>2, <3>1, <3>2, <3>3, <3>4 DEF Lists
    <2> QED BY <1>1, <2>4, <2>5 DEF Look
  <1>2. ASSUME Settle PROVE Lists'
    BY <1>0, <1>2, ThreadLists DEF Settle, queue, poolq, QueueTyped, WorkerTyped,
       Popping, InPrefetch, Settled, WindowTyped, Sent, window
  <1>3. ASSUME DozeEnds PROVE Lists'
    BY <1>0, <1>3, ThreadLists DEF DozeEnds, queue, pool, poolq, QueueTyped, WorkerTyped,
       Popping, InPrefetch, Settled, WindowTyped, Sent
  <1>4. ASSUME Reserve PROVE Lists'
    BY <1>0, <1>4, ThreadLists DEF Reserve, queue, pool, poolq, QueueTyped, WorkerTyped,
       Popping, InPrefetch, Settled, WindowTyped, Sent
  <1>5. ASSUME Count PROVE Lists'
    <2>1. /\ UNCHANGED <<window, open, idle, prefetching, slot, others, changed, job, landed,
                         base, ended, shelf, wanted>>
          /\ pc = "counting" /\ stage' = 0
      BY <1>5 DEF Count, pool, poolq
    <2>2. CASE pc' = "fetching" /\ UNCHANGED <<neighbors, fetch>>
      <3>1. QueueTyped' /\ WorkerTyped'
        BY <1>0, <2>1, <2>2 DEF QueueTyped, WorkerTyped
      <3> QED BY <1>0, <2>1, <2>2, <3>1, ThreadLists DEF Popping, InPrefetch, Settled,
              WindowTyped, Sent
    <2>3. CASE StandDown
      <3>1. neighbors # NoNeighbors /\ neighbors.gen = landed /\ (landed = sent => OnStrip(fetch))
        BY <1>0, <2>1 DEF Popped, Popping, InPrefetch
      <3>2. neighbors.quiet \in 1..2
        BY <1>0 DEF QueueTyped, ListSet
      <3>3. /\ PutBack(neighbors.quiet) /\ fetch' = NoNeighbor /\ pc' = "dozing"
            /\ UNCHANGED <<cur, sent>>
        BY <2>1, <2>3 DEF StandDown, window
      <3>4. /\ neighbors' \in ListSet /\ neighbors'.gen = neighbors.gen
            /\ WaitingIsBeside'
        BY <3>1, <3>2, <3>3, PutBackWaits
      <3>5. QueueTyped' /\ WorkerTyped'
        BY <1>0, <2>1, <3>3, <3>4, NoNeighborsType DEF QueueTyped, WorkerTyped
      <3>6. Sent' /\ Settled' /\ Popped'
        BY <1>0, <2>1, <3>3, <3>4 DEF Sent, Settled, Popped, Popping, InPrefetch
      <3>7. WindowTyped' /\ Selected' /\ (wanted \in Nat)'
        BY <1>0, <2>1 DEF WindowTyped, Selected, window
      <3> QED BY <3>4, <3>5, <3>6, <3>7 DEF Lists
    <2> QED BY <1>5, <2>2, <2>3 DEF Count
  <1> QED BY <1>1, <1>2, <1>3, <1>4, <1>5 DEF Idles

LEMMA FetchesLists == Lists /\ Fetches => Lists'
  <1> SUFFICES ASSUME Lists, Fetches PROVE Lists'
    OBVIOUS
  <1>0. /\ WindowTyped /\ QueueTyped /\ WorkerTyped /\ wanted \in Nat
        /\ Sent /\ Popped /\ WaitingIsBeside /\ Settled /\ Selected
        /\ idle \in 0..2 /\ slot.gen <= sent /\ job.gen <= sent /\ landed <= sent
    BY DEF Lists, WindowTyped, Sent
  <1>1. ASSUME GoesOn \/ GivesWay \/ Skips \/ Lands \/ Panics PROVE Lists'
    <2>1. /\ UNCHANGED <<window, open, idle, queue, job, landed, base, fetch, wanted>>
          /\ pc = "fetching" /\ pc' \in {"fetching", "ended"}
          /\ ended' \in Endings /\ shelf' \subseteq shelf \cup {fetch}
      BY <1>0, <1>1 DEF GoesOn, GivesWay, Skips, Lands, Panics, Fetching, Ends, pool, poolq,
         Endings, WorkerTyped
    <2>2. stage' \in 0..Stages
      <3>1. CASE GoesOn
        BY <1>0, <3>1 DEF GoesOn, WorkerTyped
      <3>2. CASE GivesWay \/ Skips \/ Lands \/ Panics
        BY <1>0, <3>2 DEF GivesWay, Skips, Lands, Panics, Ends, WorkerTyped
      <3> QED BY <1>1, <3>1, <3>2
    <2>3. QueueTyped' /\ WorkerTyped'
      BY <1>0, <2>1, <2>2 DEF QueueTyped, WorkerTyped, queue
    <2> QED BY <1>0, <2>1, <2>3, ThreadLists DEF Popping, InPrefetch, Settled, window, queue
  <1>2. ASSUME WakeFromFetch PROVE Lists'
    BY <1>0, <1>2, ThreadLists DEF WakeFromFetch, queue, poolq, QueueTyped, WorkerTyped,
       Popping, InPrefetch, Settled, window
  <1>3. ASSUME After PROVE Lists'
    <2>1. /\ UNCHANGED <<window, open, idle, prefetching, slot, others, changed, job, landed,
                         base, shelf, wanted>>
          /\ pc = "after" /\ pc' = "top" /\ stage' = 0 /\ fetch' = NoNeighbor
      BY <1>3 DEF After, pool, poolq
    <2>2. ended' \in Endings
      BY <1>3 DEF After, Endings
    <2>3. neighbors' \in ListSet /\ neighbors'.gen <= sent /\ WaitingIsBeside'
      <3>1. CASE Again /\ PutBack(2)
        <4>1. neighbors # NoNeighbors /\ neighbors.gen = landed /\ (landed = sent => OnStrip(fetch))
          BY <1>0, <2>1, <3>1 DEF Again, Popped, InPrefetch
        <4>2. UNCHANGED <<cur, sent>> /\ 2 \in 1..2
          BY <2>1 DEF window
        <4>3. neighbors' \in ListSet /\ neighbors'.gen = neighbors.gen /\ WaitingIsBeside'
          BY <3>1, <4>1, <4>2, PutBackWaits
        <4> QED BY <1>0, <4>1, <4>3
      <3>2. CASE neighbors' \in {neighbors, NoNeighbors}
        <4>1. neighbors' \in ListSet /\ neighbors'.gen <= sent
          BY <1>0, <3>2, NoNeighborsType DEF Sent, QueueTyped, WindowTyped
        <4>2. WaitingIsBeside'
          BY <1>0, <2>1, <3>2 DEF WaitingIsBeside, window
        <4> QED BY <4>1, <4>2
      <3> QED BY <1>3, <3>1, <3>2 DEF After
    <2>4. QueueTyped' /\ WorkerTyped'
      BY <1>0, <2>1, <2>2, <2>3, NoNeighborsType DEF QueueTyped, WorkerTyped
    <2>5. Sent' /\ Settled' /\ Popped'
      BY <1>0, <2>1, <2>3 DEF Sent, Settled, Popped, Popping, InPrefetch, window
    <2>6. WindowTyped' /\ Selected' /\ (wanted \in Nat)'
      BY <1>0, <2>1 DEF WindowTyped, Selected, window
    <2> QED BY <2>3, <2>4, <2>5, <2>6 DEF Lists
  <1> QED BY <1>1, <1>2, <1>3 DEF Fetches

LEMMA WorksLists == Lists /\ Works => Lists'
  <1> SUFFICES ASSUME Lists, Works PROVE Lists'
    OBVIOUS
  <1>0. /\ WindowTyped /\ QueueTyped /\ WorkerTyped /\ wanted \in Nat
        /\ Sent /\ Popped /\ WaitingIsBeside /\ Settled /\ Selected
        /\ idle \in 0..2 /\ slot.gen <= sent /\ job.gen <= sent /\ landed <= sent
        /\ sent \in Nat
    BY DEF Lists, WindowTyped, Sent
  <1>1. NoJob \in JobSet /\ NoJob.gen = 0
    BY DEF NoJob, Job, JobSet
  <1>2. ASSUME TakeJob PROVE Lists'
    <2>1. /\ UNCHANGED <<window, open, idle, prefetching, neighbors, landed, base, fetch,
                         stage, ended, wanted>>
          /\ shelf' \subseteq shelf /\ changed' = {} /\ pc = "top" /\ pc' = "job"
      BY <1>2 DEF TakeJob, TakeChanged, pool, poolq
    <2>2. /\ job' \in JobSet /\ job'.gen <= sent /\ slot' \in JobSet /\ slot'.gen <= sent
          /\ others' \subseteq others
      <3>1. CASE slot # NoJob /\ job' = slot /\ slot' = NoJob /\ UNCHANGED others
        BY <1>0, <1>1, <3>1 DEF QueueTyped
      <3>2. ASSUME NEW k \in {"picture", "export"}, job' = Job(k, NoFile, 0),
                   others' = others \ {k}, UNCHANGED slot
            PROVE  /\ job' \in JobSet /\ job'.gen <= sent /\ slot' \in JobSet
                   /\ slot'.gen <= sent /\ others' \subseteq others
        <4>1. job' \in JobSet /\ job'.gen = 0
          BY <3>2 DEF Job, JobSet
        <4> QED BY <1>0, <3>2, <4>1 DEF QueueTyped
      <3> QED BY <1>2, <3>1, <3>2 DEF TakeJob
    <2>3. QueueTyped' /\ WorkerTyped'
      BY <1>0, <2>1, <2>2 DEF QueueTyped, WorkerTyped
    <2> QED BY <1>0, <2>1, <2>2, <2>3, ThreadLists DEF Popping, InPrefetch, Settled
  <1>3. ASSUME HoldPool PROVE Lists'
    BY <1>0, <1>3, ThreadLists DEF HoldPool, queue, QueueTyped, WorkerTyped,
       Popping, InPrefetch, Settled
  <1>4. ASSUME FinishDevelop PROVE Lists'
    <2>1. /\ UNCHANGED <<window, open, prefetching, queue, job, fetch, stage, ended, wanted>>
          /\ idle' = 0 /\ pc = "developing" /\ pc' = "releasing" /\ shelf' \subseteq shelf
      BY <1>4 DEF FinishDevelop, pool, poolq
    <2>2. landed' \in Nat /\ landed' <= sent
      <3>1. landed' \in {job.gen, 0, landed}
        BY <1>4 DEF FinishDevelop
      <3>2. job.gen \in Nat /\ landed \in Nat
        BY <1>0 DEF WorkerTyped, JobSet
      <3> QED BY <1>0, <3>1, <3>2
    <2>3. base' \in BOOLEAN
      BY <1>4 DEF FinishDevelop
    <2>4. QueueTyped' /\ WorkerTyped'
      BY <1>0, <2>1, <2>2, <2>3 DEF QueueTyped, WorkerTyped, queue
    <2> QED BY <1>0, <2>1, <2>2, <2>4, ThreadLists DEF Popping, InPrefetch, Settled, queue
  <1>5. ASSUME ReleasePool PROVE Lists'
    <2>1. QueueTyped' /\ WorkerTyped' /\ job'.gen = 0
      BY <1>0, <1>1, <1>5 DEF ReleasePool, queue, QueueTyped, WorkerTyped
    <2> QED BY <1>0, <1>5, <2>1, ThreadLists DEF ReleasePool, queue, Popping, InPrefetch, Settled
  <1>6. ASSUME FinishOther PROVE Lists'
    <2>1. QueueTyped' /\ WorkerTyped' /\ job'.gen = 0
      BY <1>0, <1>1, <1>6 DEF FinishOther, queue, QueueTyped, WorkerTyped
    <2> QED BY <1>0, <1>6, <2>1, ThreadLists DEF FinishOther, queue, pool, poolq, Popping,
            InPrefetch, Settled
  <1> QED BY <1>2, <1>3, <1>4, <1>5, <1>6 DEF Works

LEMMA NextLists == Lists /\ [Next]_vars => Lists'
  <1> SUFFICES ASSUME Lists, [Next]_vars PROVE Lists'
    OBVIOUS
  <1>1. ASSUME UNCHANGED <<window, open, prefetching, queue, worker>>,
               idle' \in 0..2, (wanted \in Nat)'
        PROVE  Lists'
    <2>1. /\ UNCHANGED <<slot, others, neighbors, changed>>
          /\ UNCHANGED <<pc, job, landed, base, fetch, stage, ended, shelf>>
          /\ UNCHANGED <<cur, sent, told, rev, acts, wpc>>
      BY <1>1 DEF queue, worker, window
    <2>2. QueueTyped' /\ WorkerTyped' /\ Settled'
      BY <1>1, <2>1 DEF Lists, QueueTyped, WorkerTyped, Settled
    <2>3. slot'.gen <= sent /\ job'.gen <= sent /\ landed' <= sent
      BY <2>1 DEF Lists, Sent
    <2> QED BY <1>1, <2>1, <2>2, <2>3, ThreadLists DEF Popping, InPrefetch
  <1>2. wanted \in Nat /\ idle \in 0..2
    BY DEF Lists, WindowTyped
  <1>3. CASE Quieten
    BY <1>1, <1>2, <1>3 DEF Quieten, pool, poolq
  <1>4. ASSUME NEW t \in Threads, PoolThread(t) PROVE Lists'
    BY <1>1, <1>2, <1>4 DEF PoolThread, LookAt, Begin, Rest, TimeOut, EndEdit, poolq
  <1>5. ASSUME NEW alone \in BOOLEAN, Want(alone) PROVE Lists'
    BY <1>1, <1>2, <1>5 DEF Want
  <1>6. CASE UNCHANGED vars
    BY <1>1, <1>2, <1>6 DEF vars, pool, poolq
  <1> QED BY <1>3, <1>4, <1>5, <1>6, UserLists, HandlerLists, IdlesLists, FetchesLists,
          WorksLists DEF Next, Thread

(* Every reachable state has the lists as the invariant says. *)
THEOREM ListsInvariance == Spec => []Lists
  BY InitLists, NextLists, PTL DEF Spec

(* The types of every variable. *)
THEOREM TypeCorrect == Spec => []TypeOK
  BY Typing, Invariance, ListsInvariance, PTL

(* A neighbor that gave way is never put back among those of another open   *)
(* (prefetch_next, which looks at the list's generation again).             *)
THEOREM WaitingCorrect == Spec => []WaitingIsBeside
  <1>1. Lists => WaitingIsBeside
    BY DEF Lists
  <1> QED BY <1>1, ListsInvariance, PTL

(* The worker never waits unwoken with the reservation up                   *)
(* (settle_reservation).                                                    *)
THEOREM NoSleepCorrect == Spec => []NoSleepReserved
  <1>1. Lists => NoSleepReserved
    BY DEF Lists, Settled, NoSleepReserved
  <1> QED BY <1>1, ListsInvariance, PTL
=============================================================================
