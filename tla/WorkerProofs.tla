---------------------------- MODULE WorkerProofs ----------------------------
(***************************************************************************)
(* Theorems of Worker, for every folder of frames, every set of edits,     *)
(* every number of fills and of acts.                                      *)
(***************************************************************************)
EXTENDS Worker, TLAPS, SequenceTheorems

USE EditsAssumption

(* Fills are left only of a file that is open, and the fill in hand is the *)
(* next of them.                                                           *)
Fillable ==
    /\ due # NoFills => opened # NoFile
    /\ pc = "job" /\ job.kind = "fill" => due # NoFills /\ due.gen = job.gen

TInv == WindowOK /\ QueueOK /\ WorkerOK /\ AnswersOK /\ Fillable

-----------------------------------------------------------------------------
(* The queue of saves stays a sequence of saves. *)

LEMMA RemoveAtType ==
    ASSUME NEW S, NEW s \in Seq(S), NEW i \in 1..Len(s)
    PROVE  RemoveAt(s, i) \in Seq(S)
  <1>1. SubSeq(s, 1, i - 1) \in Seq(S) /\ SubSeq(s, i + 1, Len(s)) \in Seq(S)
    BY SubSeqProperties, LenProperties
  <1>2. SubSeq(s, 1, i - 1) \o SubSeq(s, i + 1, Len(s)) \in Seq(S)
    BY <1>1, ConcatProperties
  <1> QED BY <1>2 DEF RemoveAt

LEMMA QueuedType ==
    ASSUME keeps \in Seq(Saves), NEW k \in Saves
    PROVE  Queued(k) \in Seq(Saves)
  <1> DEFINE older == {i \in 1..Len(keeps) : keeps[i].file = k.file}
             rest == IF older = {} THEN keeps ELSE RemoveAt(keeps, CHOOSE i \in older : TRUE)
  <1>1. rest \in Seq(Saves)
    <2>1. CASE older = {}
      BY <2>1
    <2>2. CASE older # {}
      <3>1. (CHOOSE i \in older : TRUE) \in 1..Len(keeps)
        BY <2>2
      <3> QED BY <2>2, <3>1, RemoveAtType
    <2> QED BY <2>1, <2>2
  <1>2. Append(rest, k) \in Seq(Saves)
    BY <1>1, AppendProperties
  <1> QED BY <1>2 DEF Queued

LEMMA SaveEditType ==
    ASSUME WindowOK, QueueOK, SaveEdit
    PROVE  saved' \in [Files -> Edits] /\ keeps' \in Seq(Saves)
  <1>1. CASE Unsaved
    <2>1. Keep(cur, panel) \in Saves
      BY <1>1 DEF WindowOK, Unsaved, Keep, Job, Saves
    <2>2. Queued(Keep(cur, panel)) \in Seq(Saves)
      BY <2>1, QueuedType DEF QueueOK
    <2> QED BY <1>1, <2>2 DEF SaveEdit, WindowOK
  <1>2. CASE ~Unsaved
    BY <1>2 DEF SaveEdit, WindowOK, QueueOK
  <1> QED BY <1>1, <1>2

-----------------------------------------------------------------------------
(* What keep_open leaves: the save or nothing waiting, an answer for a      *)
(* frame, and pictures of frames.                                           *)

Hands == [opened : Files \cup {NoFile}, base : Bases,
          shown : Textures \cup {NoTexture}, device : BOOLEAN]

LEMMA KeepOpenTypes ==
    ASSUME AnswersOK, NEW k \in Saves, NEW leaving, NEW h \in Hands, KeepOpen(k, leaving, h)
    PROVE  /\ pending' \in Saves \cup {NoJob}
           /\ answered' \in [Files -> Edits]
           /\ kept' \subseteq Pictures
  <1>1. PICK reads \in BOOLEAN :
            /\ pending' = IF Waits(k, leaving, h, reads) THEN k ELSE NoJob
            /\ answered' = IF Waits(k, leaving, h, reads)
                             THEN answered ELSE [answered EXCEPT ![k.file] = k.edit]
            /\ kept' = kept \cup Makes(k, h, reads)
    BY DEF KeepOpen
  <1>2. Makes(k, h, reads) \subseteq Pictures
    BY DEF Makes, Landed, PictureOf, Saves, NoTexture, Hands, Bases, Textures, Pictures
  <1>3. answered' \in [Files -> Edits]
    BY <1>1 DEF AnswersOK, Saves
  <1> QED BY <1>1, <1>2, <1>3 DEF AnswersOK

LEMMA KeepPendingTypes ==
    ASSUME AnswersOK, NEW leaving, NEW h \in Hands, KeepPending(leaving, h)
    PROVE  /\ pending' \in Saves \cup {NoJob}
           /\ answered' \in [Files -> Edits]
           /\ kept' \subseteq Pictures
  <1>1. CASE pending = NoJob
    BY <1>1 DEF KeepPending, AnswersOK
  <1>2. CASE pending # NoJob
    <2>1. pending \in Saves /\ KeepOpen(pending, leaving, h)
      BY <1>2 DEF KeepPending, AnswersOK
    <2> QED BY <2>1, KeepOpenTypes
  <1> QED BY <1>1, <1>2

-----------------------------------------------------------------------------
(* Types: the initial state, and each action. *)

LEMMA InitTypes == Init => TInv
  <1> SUFFICES ASSUME Init PROVE TInv
    OBVIOUS
  <1>1. NoJob \in Jobs /\ NoBase \in Bases /\ NoScreen \in Screens /\ NoJob.kind = "none"
    BY DEF NoJob, Job, NoBase, NoScreen, Jobs, Bases, Screens
  <1>2. WindowOK
    BY <1>1 DEF Init, WindowOK
  <1>3. QueueOK
    <2>1. <<>> \in Seq(Saves)
      OBVIOUS
    <2> QED BY <2>1 DEF Init, QueueOK
  <1>4. WorkerOK
    BY <1>1 DEF Init, WorkerOK
  <1>5. AnswersOK
    BY <1>1 DEF Init, AnswersOK
  <1> QED BY <1>2, <1>3, <1>4, <1>5 DEF Init, TInv, Fillable

(* A step of the window leaves what the worker holds; a send wakes it.      *)
LEMMA WorkerLeft ==
    ASSUME WorkerOK, Fillable, Wake, UNCHANGED <<job, hand, gpu>>
    PROVE  WorkerOK' /\ Fillable'
  BY DEF WorkerOK, Fillable, Wake, hand, gpu

LEMMA WindowTypes ==
    ASSUME TInv, User \/ Timers
    PROVE  TInv'
  <1>0. WindowOK /\ QueueOK /\ WorkerOK /\ AnswersOK /\ Fillable
    BY DEF TInv
  <1>a. ASSUME UNCHANGED <<pending, inbox, answered, kept, settled>> PROVE AnswersOK'
    BY <1>0, <1>a DEF AnswersOK
  <1>1. ASSUME NEW f \in Files, OpenFrame(f) PROVE TInv'
    <2>1. saved' \in [Files -> Edits] /\ keeps' \in Seq(Saves)
      BY <1>0, <1>1, SaveEditType DEF OpenFrame
    <2>2. WindowOK'
      BY <1>0, <1>1, <2>1 DEF OpenFrame, WindowOK, Acts
    <2>3. slot' \in Asked
      BY <1>0, <1>1, <2>1 DEF OpenFrame, WindowOK, Job, Asked
    <2>4. QueueOK'
      BY <1>0, <1>1, <2>1, <2>3 DEF OpenFrame, QueueOK
    <2>5. WorkerOK' /\ Fillable'
      BY <1>0, <1>1, WorkerLeft DEF OpenFrame
    <2> QED BY <1>a, <1>1, <2>2, <2>4, <2>5 DEF TInv, OpenFrame
  <1>2. ASSUME NEW e \in Edits, Move(e) PROVE TInv'
    <2>1. WindowOK'
      BY <1>0, <1>2 DEF Move, WindowOK, Acts, SameDevelop
    <2> QED
      BY <1>0, <1>a, <1>2, <2>1
      DEF TInv, Move, QueueOK, WorkerOK, Fillable, queue, hand, gpu
  <1>3. ASSUME NEW e \in Edits, AskDevelop(e)
        PROVE  slot' \in Asked /\ gen' \in Nat /\ busy' \in BOOLEAN
    BY <1>0, <1>3 DEF AskDevelop, WindowOK, Job, Asked
  <1>4. ASSUME NEW e \in Edits, Jump(e) PROVE TInv'
    <2>1. slot' \in Asked \cup {NoJob} /\ gen' \in Nat /\ busy' \in BOOLEAN
      BY <1>0, <1>3, <1>4 DEF Jump, WindowOK, QueueOK
    <2>2. keeps' \in Seq(Saves)
      <3>1. Keep(cur, e) \in Saves
        BY <1>0, <1>4 DEF Jump, WindowOK, Keep, Job, Saves
      <3> QED BY <1>0, <1>4, <3>1, QueuedType DEF Jump, QueueOK
    <2>3. WindowOK' /\ QueueOK'
      BY <1>0, <1>4, <2>1, <2>2 DEF Jump, WindowOK, QueueOK, Acts
    <2>4. WorkerOK' /\ Fillable'
      BY <1>0, <1>4, WorkerLeft DEF Jump, AskDevelop
    <2> QED BY <1>a, <1>4, <2>3, <2>4 DEF TInv, Jump
  <1>5. ASSUME NEW shows \in BOOLEAN, ShowEditor(shows) PROVE TInv'
    <2>1. WindowOK'
      BY <1>0, <1>5 DEF ShowEditor, WindowOK, Acts
    <2>2. QueueOK'
      BY <1>0, <1>5 DEF ShowEditor, QueueOK, queue
    <2>3. WorkerOK' /\ Fillable'
      BY <1>0, <1>5, WorkerLeft DEF ShowEditor
    <2> QED BY <1>a, <1>5, <2>1, <2>2, <2>3 DEF TInv, ShowEditor
  <1>6. ASSUME NEW k \in Asks, Ask(k) PROVE TInv'
    <2>1. WindowOK'
      BY <1>0, <1>6 DEF Ask, WindowOK, Acts
    <2>2. QueueOK'
      BY <1>0, <1>6 DEF Ask, QueueOK
    <2>3. WorkerOK' /\ Fillable'
      BY <1>0, <1>6, WorkerLeft DEF Ask
    <2> QED BY <1>a, <1>6, <2>1, <2>2, <2>3 DEF TInv, Ask
  <1>7. ASSUME Close PROVE TInv'
    <2>1. saved' \in [Files -> Edits] /\ keeps' \in Seq(Saves)
      BY <1>0, <1>7, SaveEditType DEF Close
    <2>2. WindowOK' /\ QueueOK'
      BY <1>0, <1>7, <2>1 DEF Close, WindowOK, QueueOK
    <2>3. WorkerOK' /\ Fillable'
      BY <1>0, <1>7, WorkerLeft DEF Close
    <2> QED BY <1>a, <1>7, <2>2, <2>3 DEF TInv, Close
  <1>8. ASSUME Rest PROVE TInv'
    <2>1. slot' \in Asked /\ gen' \in Nat /\ busy' \in BOOLEAN
      BY <1>0, <1>3, <1>8 DEF Rest, WindowOK
    <2>2. WindowOK' /\ QueueOK'
      BY <1>0, <1>8, <2>1 DEF Rest, WindowOK, QueueOK
    <2>3. WorkerOK' /\ Fillable'
      BY <1>0, <1>8, WorkerLeft DEF Rest, AskDevelop
    <2> QED BY <1>a, <1>8, <2>2, <2>3 DEF TInv, Rest
  <1>9. ASSUME SaveRests PROVE TInv'
    <2>1. saved' \in [Files -> Edits] /\ keeps' \in Seq(Saves)
      BY <1>0, <1>9, SaveEditType DEF SaveRests
    <2>2. WindowOK' /\ QueueOK'
      BY <1>0, <1>9, <2>1 DEF SaveRests, WindowOK, QueueOK
    <2>3. WorkerOK' /\ Fillable'
      BY <1>0, <1>9, WorkerLeft DEF SaveRests
    <2> QED BY <1>a, <1>9, <2>2, <2>3 DEF TInv, SaveRests
  <1> QED
    BY <1>1, <1>2, <1>4, <1>5, <1>6, <1>7, <1>8, <1>9 DEF User, Timers

-----------------------------------------------------------------------------
(* Types: what a job leaves in hand. *)

LeftInHand ==
    /\ base' \in Bases /\ shown' \in Textures \cup {NoTexture}
    /\ due' \in FillSets \cup {NoFills}
    /\ askedAgain' \in BOOLEAN /\ device' \in BOOLEAN
    /\ inbox' \in Seq(Outcomes)

LEMMA Blanks ==
    /\ NoBase \in Bases /\ NoScreen \in Screens
    /\ NoJob \in Jobs /\ NoJob.kind = "none" /\ NoJob.gen = 0
    /\ NoTexture.file = NoFile /\ NoTexture \notin Textures
    /\ NoFills \notin FillSets
  BY DEF NoBase, NoScreen, NoJob, Job, NoTexture, NoFills, Bases, Screens, Jobs,
         Textures, FillSets

LEMMA RoundLandsTypes ==
    ASSUME WorkerOK, AnswersOK, NEW f \in Files, NEW e \in Edits, NEW g \in Nat,
           NEW before \in Nat, RoundLands(f, e, g, before)
    PROVE  LeftInHand
  <1> DEFINE again(r, short) == short /\ Ended(r, before) /\ ~askedAgain
             whole(r) == r.left = 0 /\ ~r.lacks
  <1>1. PICK on \in Ends, r \in Rounds(e, before), short \in BOOLEAN :
            /\ short => before # 0 /\ r.moved /\ r.lacks /\ r.left # 0
            /\ base' = [file |-> f, develop |-> IF on = "device" THEN NoEdit ELSE e,
                        filling |-> ~Ended(r, before),
                        lacks |-> r.lacks \/ (Stuck(r, before) /\ r.left # 0),
                        whole |-> whole(r)]
            /\ shown' = IF on = "device"
                          THEN [file |-> f, edit |-> e, gen |-> g,
                                lacks |-> r.lacks, whole |-> whole(r)]
                          ELSE NoTexture
            /\ due' = IF Ended(r, before) /\ ~again(r, short)
                        THEN NoFills ELSE [edit |-> e, gen |-> g, left |-> r.left]
            /\ askedAgain' = IF before = 0 THEN FALSE ELSE askedAgain \/ again(r, short)
            /\ device' = (on # "gone")
            /\ inbox' = Append(inbox, Outcome("developed", g, f, e))
    BY DEF RoundLands
  <1>2. r.left \in Nat /\ r.lacks \in BOOLEAN /\ r.moved \in BOOLEAN
    <2>1. CASE before = 0
      <3>1. r \in [left : 0..Fills[e], lacks : BOOLEAN, moved : {FALSE}]
        BY <1>1, <2>1 DEF Rounds
      <3>2. Fills[e] \in Nat
        BY EditsAssumption
      <3>3. r.left \in 0..Fills[e] /\ r.lacks \in BOOLEAN /\ r.moved \in {FALSE}
        BY <3>1
      <3>4. r.left \in Nat
        BY <3>2, <3>3
      <3>5. r.moved \in BOOLEAN
        BY <3>3, Zenon
      <3> QED BY <3>3, <3>4, <3>5
    <2>2. CASE before # 0
      <3>1. r \in [left : {before - 1, before}, lacks : BOOLEAN, moved : BOOLEAN]
        BY <1>1, <2>2 DEF Rounds
      <3>2. before - 1 \in Nat
        BY <2>2
      <3> QED BY <3>1, <3>2
    <2> QED BY <2>1, <2>2
  <1>3. Ended(r, before) \in BOOLEAN /\ Stuck(r, before) \in BOOLEAN
    BY <1>2 DEF Ended, Stuck
  <1>4. base' \in Bases
    BY <1>1, <1>2, <1>3 DEF Bases
  <1>5. shown' \in Textures \cup {NoTexture}
    BY <1>1, <1>2 DEF Textures
  <1>6. due' \in FillSets \cup {NoFills}
    BY <1>1, <1>2, <1>3 DEF FillSets, Ended
  <1>7. askedAgain' \in BOOLEAN /\ device' \in BOOLEAN
    BY <1>1, <1>3 DEF WorkerOK
  <1>8. inbox' \in Seq(Outcomes)
    <2>1. Outcome("developed", g, f, e) \in Outcomes
      BY DEF Outcome, Outcomes
    <2> QED BY <1>1, <2>1, AppendProperties DEF AnswersOK
  <1> QED BY <1>4, <1>5, <1>6, <1>7, <1>8 DEF LeftInHand

LEMMA FailedTypes ==
    ASSUME AnswersOK, NEW g \in Nat, Failed(g)
    PROVE  inbox' \in Seq(Outcomes)
  <1>1. Outcome("failed", g, NoFile, NoEdit) \in Outcomes
    BY DEF Outcome, Outcomes
  <1> QED BY <1>1, AppendProperties DEF AnswersOK, Failed

LEMMA RoundFailsTypes ==
    ASSUME WorkerOK, AnswersOK, NEW f \in Files, NEW g \in Nat, NEW before \in Nat,
           RoundFails(f, g, before)
    PROVE  LeftInHand
  <1>1. inbox' \in Seq(Outcomes)
    BY FailedTypes DEF RoundFails
  <1>2. base' \in Bases
    BY Blanks DEF RoundFails, BaseLeft, WorkerOK, Bases
  <1> QED BY <1>1, <1>2 DEF RoundFails, GiveUpFills, WorkerOK, LeftInHand

LEMMA PanicsTypes ==
    ASSUME WorkerOK, AnswersOK, NEW told_ \in BOOLEAN, Panics(told_)
    PROVE  LeftInHand
  <1>1. inbox' \in Seq(Outcomes)
    BY FailedTypes DEF Panics, WorkerOK, AnswersOK, Jobs
  <1> QED BY <1>1, Blanks DEF Panics, GiveUpFills, WorkerOK, LeftInHand

-----------------------------------------------------------------------------
(* Types: the steps of the worker and of the device. *)

LEMMA DoneTypes ==
    ASSUME TInv, Done, LeftInHand, opened' \in Files \cup {NoFile},
           due' # NoFills => opened' # NoFile
    PROVE  /\ WindowOK' /\ QueueOK' /\ WorkerOK' /\ Fillable'
           /\ Hand' \in Hands
  <1>1. pc' = "top" /\ job' = NoJob /\ UNCHANGED <<window, queue, lost>>
    BY DEF Done
  <1>2. WindowOK' /\ QueueOK'
    BY <1>1 DEF TInv, WindowOK, QueueOK, window, queue
  <1>3. WorkerOK'
    BY <1>1, Blanks DEF TInv, WorkerOK, LeftInHand
  <1>4. Fillable'
    BY <1>1 DEF Fillable
  <1>5. Hand' \in Hands
    BY DEF Hand, Hands, LeftInHand
  <1> QED BY <1>2, <1>3, <1>4, <1>5

LEMMA DevelopDoneTypes ==
    ASSUME TInv, DevelopDone, LeftInHand, opened' \in Files \cup {NoFile},
           due' # NoFills => opened' # NoFile
    PROVE  TInv'
  <1>1. Done /\ settled' = job.gen /\ KeepPending(FALSE, Hand')
    BY DEF DevelopDone
  <1>2. WindowOK' /\ QueueOK' /\ WorkerOK' /\ Fillable' /\ Hand' \in Hands
    BY <1>1, DoneTypes
  <1>3. /\ pending' \in Saves \cup {NoJob}
        /\ answered' \in [Files -> Edits]
        /\ kept' \subseteq Pictures
    BY <1>1, <1>2, KeepPendingTypes DEF TInv
  <1>4. settled' \in Nat
    BY <1>1 DEF TInv, WorkerOK, Jobs
  <1>5. AnswersOK'
    BY <1>3, <1>4 DEF AnswersOK, LeftInHand
  <1> QED BY <1>2, <1>5 DEF TInv

LEMMA FinishTypes == ASSUME TInv, Finish PROVE TInv'
  <1>0. WindowOK /\ QueueOK /\ WorkerOK /\ AnswersOK /\ Fillable
    BY DEF TInv
  <1>0b. opened \in Files \cup {NoFile} /\ job.gen \in Nat
    BY <1>0 DEF WorkerOK, Jobs
  <1>1. ASSUME FinishOpen PROVE TInv'
    <2>1. job.file \in Files /\ job.edit \in Edits
      BY <1>0, <1>1 DEF FinishOpen, WorkerOK, Asked
    <2>2. CASE opened' = job.file /\ RoundLands(job.file, job.edit, job.gen, 0)
      <3>1. LeftInHand
        BY <1>0, <1>0b, <2>1, <2>2, RoundLandsTypes
      <3> QED BY <1>1, <2>1, <2>2, <3>1, DevelopDoneTypes DEF FinishOpen
    <2>3. CASE opened' = job.file /\ RoundFails(job.file, job.gen, 0)
      <3>1. LeftInHand
        BY <1>0, <1>0b, <2>1, <2>3, RoundFailsTypes
      <3> QED BY <1>1, <2>1, <2>3, <3>1, DevelopDoneTypes DEF FinishOpen
    <2>4. CASE opened' \in {job.file, opened} /\ Panics(TRUE)
      <3>1. LeftInHand /\ due' = NoFills
        BY <1>0, <2>4, PanicsTypes DEF Panics, GiveUpFills
      <3> QED BY <1>0b, <1>1, <2>1, <2>4, <3>1, DevelopDoneTypes DEF FinishOpen
    <2>5. CASE /\ opened' = opened /\ Failed(job.gen)
               /\ UNCHANGED <<base, shown, due, askedAgain, device>>
      <3>1. LeftInHand
        BY <1>0, <1>0b, <2>5, FailedTypes DEF LeftInHand, WorkerOK
      <3> QED BY <1>0, <1>0b, <1>1, <2>5, <3>1, DevelopDoneTypes DEF FinishOpen, Fillable
    <2> QED BY <1>1, <2>2, <2>3, <2>4, <2>5 DEF FinishOpen
  <1>2. ASSUME FinishDevelop PROVE TInv'
    <2>1. job.edit \in Edits /\ opened' = opened
      BY <1>0, <1>2 DEF FinishDevelop, WorkerOK, Asked
    <2>2. CASE UNCHANGED <<base, shown, due, askedAgain, device, inbox>>
      <3>1. LeftInHand
        BY <1>0, <2>2 DEF LeftInHand, WorkerOK, AnswersOK
      <3> QED BY <1>0, <1>0b, <1>2, <2>1, <2>2, <3>1, DevelopDoneTypes DEF FinishDevelop, Fillable
    <2>3. CASE opened # NoFile /\ RoundLands(opened, job.edit, job.gen, 0)
      <3>1. LeftInHand
        BY <1>0, <1>0b, <2>1, <2>3, RoundLandsTypes
      <3> QED BY <1>0b, <1>2, <2>1, <2>3, <3>1, DevelopDoneTypes DEF FinishDevelop
    <2>4. CASE opened # NoFile /\ RoundFails(opened, job.gen, 0)
      <3>1. LeftInHand
        BY <1>0, <1>0b, <2>4, RoundFailsTypes
      <3> QED BY <1>0b, <1>2, <2>1, <2>4, <3>1, DevelopDoneTypes DEF FinishDevelop
    <2>5. CASE opened # NoFile /\ Panics(TRUE)
      <3>1. LeftInHand
        BY <1>0, <2>5, PanicsTypes
      <3> QED BY <1>0b, <1>2, <2>1, <2>5, <3>1, DevelopDoneTypes DEF FinishDevelop
    <2> QED BY <1>2, <2>2, <2>3, <2>4, <2>5 DEF FinishDevelop
  <1>3. ASSUME FinishFill PROVE TInv'
    <2>1. due # NoFills /\ opened # NoFile
      BY <1>0, <1>3 DEF FinishFill, DevelopDone, Done, Fillable
    <2>2. opened \in Files /\ due.edit \in Edits /\ due.gen \in Nat /\ due.left \in Nat
      BY <1>0, <2>1 DEF WorkerOK, FillSets
    <2>3. LeftInHand
      <3>1. CASE RoundLands(opened, due.edit, due.gen, due.left)
        BY <1>0, <2>2, <3>1, RoundLandsTypes
      <3>2. CASE RoundFails(opened, due.gen, due.left)
        BY <1>0, <2>2, <3>2, RoundFailsTypes
      <3>3. CASE Panics(TRUE)
        BY <1>0, <3>3, PanicsTypes
      <3> QED BY <1>3, <3>1, <3>2, <3>3 DEF FinishFill
    <2> QED BY <1>0b, <1>3, <2>1, <2>3, DevelopDoneTypes DEF FinishFill
  <1>4. ASSUME FinishSide PROVE TInv'
    <2>1. LeftInHand /\ (due' # NoFills => opened' # NoFile) /\ opened' = opened
      <3>1. CASE UNCHANGED <<base, shown, due, askedAgain, device, inbox>>
        BY <1>0, <1>4, <3>1 DEF FinishSide, LeftInHand, WorkerOK, AnswersOK, Fillable
      <3>2. CASE Panics(FALSE)
        BY <1>0, <1>4, <3>2, PanicsTypes DEF FinishSide, Panics, GiveUpFills
      <3> QED BY <1>4, <3>1, <3>2 DEF FinishSide
    <2>2. WindowOK' /\ QueueOK' /\ WorkerOK' /\ Fillable'
      BY <1>0b, <1>4, <2>1, DoneTypes DEF FinishSide
    <2>3. AnswersOK'
      BY <1>0, <1>4, <2>1 DEF FinishSide, AnswersOK, LeftInHand
    <2> QED BY <2>2, <2>3 DEF TInv
  <1> QED BY <1>1, <1>2, <1>3, <1>4 DEF Finish

LEMMA HandType == ASSUME TInv PROVE Hand \in Hands
  BY DEF TInv, WorkerOK, Hand, Hands

LEMMA TakeTypes == ASSUME TInv, Take PROVE TInv'
  <1>0. WindowOK /\ QueueOK /\ WorkerOK /\ AnswersOK /\ Fillable /\ Hand \in Hands
    BY HandType DEF TInv
  <1>1. ASSUME UNCHANGED <<window, queue, job, hand, pending, gpu, inbox, answered, kept, settled>>,
               pc' \in {"stopped", "asleep"}
        PROVE  TInv'
    BY <1>0, <1>1 DEF TInv, WindowOK, QueueOK, WorkerOK, AnswersOK, Fillable, window, queue, hand, gpu
  <1>2. ASSUME TakeKeep PROVE TInv'
    <2>1. keeps # <<>> /\ keeps \in Seq(Saves)
      BY <1>0, <1>2 DEF TakeKeep, QueueOK
    <2>2. Head(keeps) \in Saves /\ Tail(keeps) \in Seq(Saves)
      BY <2>1, HeadTailProperties
    <2>3. /\ pending' \in Saves \cup {NoJob}
          /\ answered' \in [Files -> Edits]
          /\ kept' \subseteq Pictures
      BY <1>0, <1>2, <2>2, KeepOpenTypes DEF TakeKeep
    <2> QED
      BY <1>0, <1>2, <2>2, <2>3
      DEF TakeKeep, TInv, WindowOK, QueueOK, WorkerOK, AnswersOK, Fillable, window, hand, gpu
  <1>3. ASSUME TakeAsked PROVE TInv'
    <2> DEFINE leaving == slot.kind = "open" \/ base.file = NoFile
                            \/ ~SameDevelop(slot.edit, pending.edit)
    <2>1. KeepPending(leaving, Hand)
      BY <1>3 DEF TakeAsked
    <2>2. /\ pending' \in Saves \cup {NoJob}
          /\ answered' \in [Files -> Edits]
          /\ kept' \subseteq Pictures
      BY <1>0, <2>1, KeepPendingTypes
    <2>3. job' \in Asked /\ job' \in Jobs /\ job'.kind # "fill"
      BY <1>0, <1>3 DEF TakeAsked, QueueOK, Asked, Jobs
    <2>4. WorkerOK' /\ Fillable'
      BY <1>0, <1>3, <2>3 DEF TakeAsked, GiveUpFills, WorkerOK, Fillable, gpu
    <2>5. WindowOK' /\ QueueOK' /\ AnswersOK'
      BY <1>0, <1>3, <2>2 DEF TakeAsked, WindowOK, QueueOK, AnswersOK, window
    <2> QED BY <2>4, <2>5 DEF TInv
  <1>4. ASSUME TakeFill PROVE TInv'
    <2>1. due \in FillSets
      BY <1>0, <1>4 DEF TakeFill, FillsNext, WorkerOK
    <2>2. job' \in Jobs /\ job'.kind = "fill" /\ job'.gen = due.gen
      BY <1>4, <2>1 DEF TakeFill, Job, Jobs, FillSets
    <2>3. WorkerOK' /\ Fillable'
      BY <1>0, <1>4, <2>1, <2>2, Blanks DEF TakeFill, WorkerOK, Fillable, gpu
    <2>4. WindowOK' /\ QueueOK' /\ AnswersOK'
      BY <1>0, <1>4 DEF TakeFill, LetGo, WindowOK, QueueOK, AnswersOK, window, queue
    <2> QED BY <2>3, <2>4 DEF TInv
  <1>5. ASSUME NEW k \in Asks, TakeSide(k) PROVE TInv'
    <2>1. job' \in Jobs /\ job'.kind \in {"look", "export", "mask"}
      BY <1>5, EditsAssumption DEF TakeSide, Job, Jobs
    <2>2. WorkerOK' /\ Fillable'
      BY <1>0, <1>5, <2>1 DEF TakeSide, WorkerOK, Fillable, hand, gpu
    <2>3. WindowOK' /\ QueueOK' /\ AnswersOK'
      BY <1>0, <1>5 DEF TakeSide, LetGo, WindowOK, QueueOK, AnswersOK, window
    <2> QED BY <2>2, <2>3 DEF TInv
  <1> QED BY <1>1, <1>2, <1>3, <1>4, <1>5 DEF Take, TakeStop, Sleep

LEMMA TopTypes == ASSUME TInv, Top PROVE TInv'
  <1>0. WindowOK /\ QueueOK /\ WorkerOK /\ AnswersOK /\ Fillable
    BY DEF TInv
  <1>1. slot' \in Asked \cup {NoJob}
    <2>1. CASE shown # NoTexture
      <3>1. Job("develop", NoFile, shown.edit, shown.gen) \in Asked
        BY <1>0, <2>1 DEF WorkerOK, Textures, Job, Asked
      <3> QED BY <1>0, <3>1 DEF Top, QueueOK
    <2>2. CASE shown = NoTexture
      BY <1>0, <2>2 DEF Top, Redo, QueueOK
    <2> QED BY <2>1, <2>2
  <1>2. WindowOK' /\ QueueOK' /\ AnswersOK'
    BY <1>0, <1>1 DEF Top, WindowOK, QueueOK, AnswersOK, window
  <1>3. WorkerOK' /\ Fillable'
    BY <1>0 DEF Top, WorkerOK, Fillable
  <1> QED BY <1>2, <1>3 DEF TInv

LEMMA ReceiveTypes == ASSUME TInv, Receive PROVE TInv'
  <1>0. WindowOK /\ QueueOK /\ WorkerOK /\ AnswersOK /\ Fillable
    BY DEF TInv
  <1> DEFINE m == Head(inbox)
  <1>1. inbox # <<>> /\ inbox \in Seq(Outcomes)
    BY <1>0 DEF Receive, AnswersOK
  <1>2. m \in Outcomes /\ inbox' \in Seq(Outcomes)
    BY <1>1, HeadTailProperties DEF Receive
  <1>3. screen' \in Screens
    BY <1>0, <1>2 DEF Receive, WindowOK, Outcomes, Screens
  <1>4. keeps' \in Seq(Saves) /\ pc' \in {pc, "look"} /\ (pc' # pc => pc = "asleep")
    <2>1. ASSUME cur # NoFile PROVE Queued(Keep(cur, panel)) \in Seq(Saves)
      <3>1. Keep(cur, panel) \in Saves
        BY <1>0, <2>1 DEF WindowOK, Keep, Job, Saves
      <3> QED BY <1>0, <3>1, QueuedType DEF QueueOK
    <2> QED BY <1>0, <2>1 DEF Receive, AskAgain, Wake, QueueOK
  <1>5. WindowOK'
    BY <1>0, <1>3 DEF Receive, WindowOK
  <1>6. QueueOK' /\ AnswersOK'
    BY <1>0, <1>2, <1>4 DEF Receive, QueueOK, AnswersOK
  <1>7. WorkerOK' /\ Fillable'
    BY <1>0, <1>4 DEF Receive, WorkerOK, Fillable, hand, gpu
  <1> QED BY <1>5, <1>6, <1>7 DEF TInv

LEMMA DeviceTypes == ASSUME TInv, LoseDevice \/ TellLoss \/ PictureGone PROVE TInv'
  <1>0. WindowOK /\ QueueOK /\ WorkerOK /\ AnswersOK /\ Fillable
    BY DEF TInv
  <1>1. WindowOK' /\ QueueOK'
    BY <1>0 DEF LoseDevice, TellLoss, PictureGone, WindowOK, QueueOK, window, queue
  <1>2. WorkerOK' /\ Fillable'
    BY <1>0 DEF LoseDevice, TellLoss, PictureGone, Wake, WorkerOK, Fillable, hand, gpu
  <1>3. AnswersOK'
    BY <1>0 DEF LoseDevice, TellLoss, PictureGone, AnswersOK
  <1> QED BY <1>1, <1>2, <1>3 DEF TInv

LEMMA StutterTypes == ASSUME TInv, UNCHANGED vars PROVE TInv'
  BY DEF TInv, WindowOK, QueueOK, WorkerOK, AnswersOK, Fillable, vars, window, queue, hand, gpu

(* Types are kept, and the fills left are always of a file that is open.    *)
LEMMA TypesKept == Spec => []TInv
  <1>1. TInv /\ [Next]_vars => TInv'
    BY WindowTypes, ReceiveTypes, DeviceTypes, TopTypes, TakeTypes, FinishTypes, StutterTypes
    DEF Next, Thread
  <1> QED BY InitTypes, <1>1, PTL DEF Spec

(* Every variable of the window, the queue and the worker keeps its type:   *)
(* what the worker opens, holds and answers with is always of a frame of    *)
(* the folder and of an edit, and no set of fills left is empty.            *)
THEOREM TypeCorrect == Spec => []TypeOK
  <1>1. TInv => TypeOK
    BY DEF TInv, TypeOK
  <1> QED BY TypesKept, <1>1, PTL

-----------------------------------------------------------------------------
(* What is in hand is of the file that is open. *)

HandOf(h) ==
    /\ h.base.file \in {NoFile, h.opened}
    /\ h.shown.file \in {NoFile, h.opened}

Matches(p) == p.of = p.file /\ SameDevelop(p.develop, p.edit)

(* What keep_open makes of a save is of the save's own frame and develop.   *)
LEMMA MakesMatch ==
    ASSUME NEW k \in Saves, NEW h \in Hands, HandOf(h), NEW reads,
           NEW p \in Makes(k, h, reads)
    PROVE  Matches(p)
  <1>1. Wanted(k, h, reads) /\ Landed(k, h)
    BY DEF Makes
  <1>2. PICK q \in PictureOf(k, h) :
            p = [file |-> k.file, edit |-> k.edit, of |-> q.file,
                 develop |-> q.develop, whole |-> q.whole]
    BY <1>1 DEF Makes
  <1>3. h.opened = k.file /\ h.base.file = k.file /\ k.file # NoFile
    BY <1>1, EditsAssumption DEF Wanted, Landed, HandOf, Saves
  <1>4. q.file = k.file /\ SameDevelop(q.develop, k.edit)
    BY <1>2, <1>3, Blanks DEF PictureOf, HandOf, Hands, Textures
  <1> QED BY <1>2, <1>4 DEF Matches

LEMMA KeepOpenMatches ==
    ASSUME NEW k \in Saves, NEW leaving, NEW h \in Hands, HandOf(h), KeptIsTheEdits,
           KeepOpen(k, leaving, h)
    PROVE  KeptIsTheEdits'
  <1>1. PICK reads \in BOOLEAN : kept' = kept \cup Makes(k, h, reads)
    BY DEF KeepOpen
  <1>2. \A p \in Makes(k, h, reads) : Matches(p)
    BY MakesMatch
  <1> QED BY <1>1, <1>2 DEF KeptIsTheEdits, Matches

LEMMA KeepPendingMatches ==
    ASSUME AnswersOK, NEW leaving, NEW h \in Hands, HandOf(h), KeptIsTheEdits,
           KeepPending(leaving, h)
    PROVE  KeptIsTheEdits'
  <1>1. CASE pending = NoJob
    BY <1>1 DEF KeepPending, KeptIsTheEdits
  <1>2. CASE pending # NoJob
    BY <1>2, KeepOpenMatches DEF KeepPending, AnswersOK
  <1> QED BY <1>1, <1>2

LEMMA HandKept ==
    ASSUME TInv, HandIsOpened, [Next]_vars
    PROVE  HandIsOpened'
  <1>1. ASSUME UNCHANGED <<opened, base>>, shown' \in {shown, NoTexture} PROVE HandIsOpened'
    BY <1>1, Blanks DEF HandIsOpened
  <1>2. ASSUME NEW f, NEW e, NEW g, NEW before, RoundLands(f, e, g, before),
               f # NoFile, opened' = f
        PROVE  HandIsOpened'
    BY <1>2, Blanks DEF RoundLands, HandIsOpened
  <1>3. ASSUME NEW f, NEW g, NEW before, RoundFails(f, g, before), opened' = f
        PROVE  HandIsOpened'
    <2>1. base' = [(IF base.file = f /\ job.kind # "open" THEN base ELSE NoBase)
                      EXCEPT !.file = f, !.develop = NoEdit]
      BY <1>3 DEF RoundFails, BaseLeft
    <2>2. (IF base.file = f /\ job.kind # "open" THEN base ELSE NoBase) \in Bases
      BY Blanks DEF TInv, WorkerOK
    <2>3. base'.file = f /\ base'.develop = NoEdit
      BY <2>1, <2>2 DEF Bases
    <2> QED BY <1>3, <2>3, Blanks DEF RoundFails, HandIsOpened
  <1>4. ASSUME NEW told_, Panics(told_) PROVE HandIsOpened'
    BY <1>4, Blanks DEF Panics, HandIsOpened, NoBase
  <1>5. CASE FinishOpen
    <2>1. job.file # NoFile
      BY <1>5 DEF FinishOpen, TInv, WorkerOK, Asked
    <2> QED BY <1>1, <1>2, <1>3, <1>4, <1>5, <2>1 DEF FinishOpen
  <1>6. CASE FinishDevelop
    BY <1>1, <1>2, <1>3, <1>4, <1>6 DEF FinishDevelop
  <1>7. CASE FinishFill
    <2>1. opened # NoFile
      BY <1>7 DEF FinishFill, DevelopDone, Done, TInv, Fillable
    <2> QED BY <1>2, <1>3, <1>4, <1>7, <2>1 DEF FinishFill
  <1>8. CASE FinishSide
    BY <1>1, <1>4, <1>8 DEF FinishSide
  <1>9. CASE ~Finish
    <2>1. UNCHANGED <<opened, base>> /\ shown' \in {shown, NoTexture}
      BY <1>9
      DEF Next, vars, hand, User, OpenFrame, Move, Jump, ShowEditor, Ask, Close, Timers, Rest,
          SaveRests, Receive, LoseDevice, TellLoss, PictureGone, Thread, Top, Take, TakeStop,
          TakeKeep, TakeAsked, TakeFill, TakeSide, Sleep
    <2> QED BY <1>1, <2>1
  <1> QED BY <1>5, <1>6, <1>7, <1>8, <1>9 DEF Finish

LEMMA KeptKept ==
    ASSUME TInv, TInv', HandIsOpened, HandIsOpened', KeptIsTheEdits, [Next]_vars
    PROVE  KeptIsTheEdits'
  <1>1. HandOf(Hand) /\ Hand \in Hands
    BY HandType DEF HandIsOpened, HandOf, Hand
  <1>2. HandOf(Hand') /\ Hand' \in Hands
    BY DEF HandIsOpened, HandOf, Hand, TInv, WorkerOK, Hands
  <1>3. CASE TakeKeep
    <2>1. Head(keeps) \in Saves
      BY <1>3, HeadTailProperties DEF TakeKeep, TInv, QueueOK
    <2> QED BY <1>1, <1>3, <2>1, KeepOpenMatches DEF TakeKeep
  <1>4. CASE TakeAsked
    <2> DEFINE leaving == slot.kind = "open" \/ base.file = NoFile
                            \/ ~SameDevelop(slot.edit, pending.edit)
    <2>1. KeepPending(leaving, Hand)
      BY <1>4 DEF TakeAsked
    <2> QED BY <1>1, <2>1, KeepPendingMatches DEF TInv
  <1>5. CASE DevelopDone
    BY <1>2, <1>5, KeepPendingMatches DEF DevelopDone, TInv
  <1>6. CASE ~TakeKeep /\ ~TakeAsked /\ ~DevelopDone
    <2>1. kept' \subseteq kept
      BY <1>6
      DEF Next, vars, User, OpenFrame, Move, Jump, ShowEditor, Ask, Close, Timers, Rest,
          SaveRests, Receive, LoseDevice, TellLoss, PictureGone, Thread, Top, Take, TakeStop,
          TakeFill, TakeSide, LetGo, Sleep, Finish, FinishOpen, FinishDevelop, FinishFill,
          FinishSide
    <2> QED BY <2>1 DEF KeptIsTheEdits
  <1> QED BY <1>3, <1>4, <1>5, <1>6

(* No picture or texture of a frame outlives it in the worker's hands: what *)
(* walks, panics and failed opens leave there is of the file that is open.  *)
THEOREM HandCorrect == Spec => []HandIsOpened
  <1>1. Init => HandIsOpened
    BY DEF Init, HandIsOpened, NoBase, NoTexture
  <1>2. TInv /\ HandIsOpened /\ [Next]_vars => HandIsOpened'
    BY HandKept
  <1> QED BY TypesKept, <1>1, <1>2, PTL DEF Spec

(* Every picture kept under a frame and an edit is a development of that    *)
(* frame, by the walk that edit asks for.                                   *)
THEOREM KeptCorrect == Spec => []KeptIsTheEdits
  <1>1. Init => KeptIsTheEdits
    BY DEF Init, KeptIsTheEdits
  <1>2. TInv /\ TInv' /\ HandIsOpened /\ HandIsOpened' /\ KeptIsTheEdits /\ [Next]_vars
          => KeptIsTheEdits'
    BY KeptKept
  <1> QED BY TypesKept, HandCorrect, <1>1, <1>2, PTL DEF Spec

-----------------------------------------------------------------------------
(* The order of generations.  InOrder is not inductive by itself: the slot  *)
(* holds the newest generation, an open or a develop in hand has neither    *)
(* fills nor a texture of the one before beside it, and the newest          *)
(* generation is in the slot, in hand or done with.                         *)

DevelopInHand == pc = "job" /\ Developing(job)

SlotIsNewest == slot # NoJob => slot.gen = gen

AskedAlone ==
    pc = "job" /\ job.kind \in {"open", "develop"} => due = NoFills /\ shown = NoTexture

NewestAsked ==
    \/ slot # NoJob
    \/ DevelopInHand /\ job.gen = gen
    \/ settled = gen

(* What is in the inbox is sorted and done with. *)
InboxInOrder ==
    /\ \A i, j \in 1..Len(inbox) : i <= j => inbox[i].gen <= inbox[j].gen
    /\ \A i \in 1..Len(inbox) : inbox[i].gen <= settled

OrderInv == InOrder /\ SlotIsNewest /\ AskedAlone /\ NewestAsked

LEMMA InboxGens ==
    ASSUME AnswersOK
    PROVE  Len(inbox) \in Nat /\ \A i \in 1..Len(inbox) : inbox[i].gen \in Nat
  <1>1. \A o \in Outcomes : o.gen \in Nat
    BY DEF Outcomes
  <1>2. inbox \in Seq(Outcomes)
    BY DEF AnswersOK
  <1>3. \A i \in 1..Len(inbox) : inbox[i] \in Outcomes
    BY <1>2, ElementOfSeq
  <1> QED BY <1>1, <1>2, <1>3, LenProperties

LEMMA InboxGrows ==
    ASSUME AnswersOK, InboxInOrder, NEW m \in Outcomes, settled <= m.gen,
           inbox' = Append(inbox, m), settled' = m.gen
    PROVE  InboxInOrder'
  <1>1. inbox \in Seq(Outcomes) /\ settled \in Nat
    BY DEF AnswersOK
  <1>2. /\ Len(inbox') = Len(inbox) + 1
        /\ \A i \in 1..Len(inbox) : inbox'[i] = inbox[i]
        /\ inbox'[Len(inbox) + 1] = m
    BY <1>1, AppendProperties
  <1>3. Len(inbox) \in Nat /\ \A i \in 1..Len(inbox) : inbox[i].gen \in Nat
    BY InboxGens
  <1>4. m.gen \in Nat
    BY DEF Outcomes
  <1> QED BY <1>1, <1>2, <1>3, <1>4 DEF InboxInOrder

LEMMA InboxShrinks ==
    ASSUME AnswersOK, InboxInOrder, inbox # <<>>, inbox' = Tail(inbox), settled' = settled
    PROVE  InboxInOrder'
  <1>1. inbox \in Seq(Outcomes) /\ settled \in Nat
    BY DEF AnswersOK
  <1>2. Len(inbox') = Len(inbox) - 1 /\ \A i \in 1..Len(inbox') : inbox'[i] = inbox[i + 1]
    BY <1>1, HeadTailProperties
  <1>3. Len(inbox) \in Nat
    BY <1>1
  <1> QED BY <1>2, <1>3 DEF InboxInOrder

LEMMA InboxWaits ==
    ASSUME AnswersOK, InboxInOrder, inbox' = inbox, settled' \in Nat, settled <= settled'
    PROVE  InboxInOrder'
  <1>1. \A i \in 1..Len(inbox) : inbox[i].gen \in Nat
    BY InboxGens
  <1> QED BY <1>1 DEF AnswersOK, InboxInOrder

(* What a job that was asked for or a fill does to the order: it is done    *)
(* with, its outcome goes out last, and what it leaves is of its            *)
(* generation.                                                              *)
LEMMA DevelopDoneOrdered ==
    ASSUME TInv, TInv', OrderInv, Done, settled' = job.gen, Developing(job),
           \/ inbox' = inbox
           \/ \E m \in Outcomes : m.gen = job.gen /\ inbox' = Append(inbox, m),
           due' # NoFills => due'.gen = job.gen,
           shown' # NoTexture => shown'.gen = job.gen
    PROVE  OrderInv'
  <1>1. /\ pc = "job" /\ pc' = "top" /\ job' = NoJob
        /\ gen' = gen /\ slot' = slot
    BY DEF Done, window, queue
  <1>2. settled \in Nat /\ gen \in Nat /\ job.gen \in Nat
    BY DEF TInv, WindowOK, AnswersOK, WorkerOK, Jobs
  <1>3. settled <= job.gen /\ job.gen <= gen
    BY <1>1 DEF OrderInv, InOrder
  <1>4. InboxInOrder'
    <2>1. InboxInOrder /\ AnswersOK
      BY DEF OrderInv, InOrder, InboxInOrder, TInv
    <2> QED BY <1>2, <1>3, <2>1, InboxGrows, InboxWaits
  <1>5. InOrder'
    BY <1>1, <1>2, <1>3, <1>4 DEF InOrder, InboxInOrder
  <1>6. SlotIsNewest' /\ AskedAlone'
    BY <1>1 DEF OrderInv, SlotIsNewest, AskedAlone
  <1>7. NewestAsked'
    BY <1>1, <1>2, <1>3 DEF OrderInv, NewestAsked, DevelopInHand
  <1> QED BY <1>5, <1>6, <1>7 DEF OrderInv

LEMMA RoundLandsOrdered ==
    ASSUME NEW f \in Files, NEW e \in Edits, NEW g \in Nat, NEW before,
           RoundLands(f, e, g, before)
    PROVE  /\ \E m \in Outcomes : m.gen = g /\ inbox' = Append(inbox, m)
           /\ due' # NoFills => due'.gen = g
           /\ shown' # NoTexture => shown'.gen = g
  <1>1. Outcome("developed", g, f, e) \in Outcomes /\ Outcome("developed", g, f, e).gen = g
    BY DEF Outcome, Outcomes
  <1> QED BY <1>1 DEF RoundLands

LEMMA FailedOrdered ==
    ASSUME NEW g \in Nat, Failed(g)
    PROVE  \E m \in Outcomes : m.gen = g /\ inbox' = Append(inbox, m)
  <1>1. Outcome("failed", g, NoFile, NoEdit) \in Outcomes
        /\ Outcome("failed", g, NoFile, NoEdit).gen = g
    BY DEF Outcome, Outcomes
  <1> QED BY <1>1 DEF Failed

LEMMA FinishOrdered ==
    ASSUME TInv, TInv', OrderInv, Finish
    PROVE  OrderInv'
  <1>0. WorkerOK /\ Fillable /\ job.gen \in Nat /\ pc = "job"
    BY DEF TInv, WorkerOK, Jobs, Finish, FinishOpen, FinishDevelop, FinishFill, FinishSide,
           DevelopDone, Done
  <1> DEFINE Told == \E m \in Outcomes : m.gen = job.gen /\ inbox' = Append(inbox, m)
             Left == /\ due' # NoFills => due'.gen = job.gen
                     /\ shown' # NoTexture => shown'.gen = job.gen
  <1>1. ASSUME NEW f \in Files, NEW before, RoundFails(f, job.gen, before) PROVE Told /\ Left
    BY <1>0, <1>1, FailedOrdered DEF RoundFails, GiveUpFills
  <1>2. ASSUME Panics(TRUE) PROVE Told /\ Left
    BY <1>0, <1>2, FailedOrdered DEF Panics, GiveUpFills
  <1>3. CASE FinishOpen
    <2>1. /\ job.file \in Files /\ job.edit \in Edits /\ job.kind = "open"
          /\ due = NoFills /\ shown = NoTexture
      BY <1>0, <1>3 DEF FinishOpen, WorkerOK, Asked, OrderInv, AskedAlone
    <2>2. CASE RoundLands(job.file, job.edit, job.gen, 0)
      <3>1. Told /\ Left
        BY <1>0, <2>1, <2>2, RoundLandsOrdered
      <3> QED BY <1>3, <2>1, <3>1, DevelopDoneOrdered DEF FinishOpen, DevelopDone, Developing
    <2>3. CASE RoundFails(job.file, job.gen, 0) \/ Panics(TRUE)
      <3>1. Told /\ Left
        BY <1>1, <1>2, <2>1, <2>3
      <3> QED BY <1>3, <2>1, <3>1, DevelopDoneOrdered DEF FinishOpen, DevelopDone, Developing
    <2>4. CASE Failed(job.gen) /\ UNCHANGED <<base, shown, due, askedAgain, device>>
      <3>1. Told /\ Left
        BY <1>0, <2>1, <2>4, FailedOrdered
      <3> QED BY <1>3, <2>1, <3>1, DevelopDoneOrdered DEF FinishOpen, DevelopDone, Developing
    <2> QED BY <1>3, <2>2, <2>3, <2>4 DEF FinishOpen
  <1>4. CASE FinishDevelop
    <2>1. /\ job.edit \in Edits /\ job.kind = "develop" /\ opened \in Files \cup {NoFile}
          /\ due = NoFills /\ shown = NoTexture
      BY <1>0, <1>4 DEF FinishDevelop, WorkerOK, Asked, OrderInv, AskedAlone
    <2>2. (Told \/ inbox' = inbox) /\ Left
      <3>1. CASE UNCHANGED <<base, shown, due, askedAgain, device, inbox>>
        BY <2>1, <3>1
      <3>2. CASE opened # NoFile /\ RoundLands(opened, job.edit, job.gen, 0)
        BY <1>0, <2>1, <3>2, RoundLandsOrdered
      <3>3. CASE opened # NoFile /\ (RoundFails(opened, job.gen, 0) \/ Panics(TRUE))
        BY <1>1, <1>2, <2>1, <3>3
      <3> QED BY <1>4, <3>1, <3>2, <3>3 DEF FinishDevelop
    <2> QED BY <1>4, <2>1, <2>2, DevelopDoneOrdered DEF FinishDevelop, DevelopDone, Developing
  <1>5. CASE FinishFill
    <2>1. /\ job.kind = "fill" /\ due # NoFills /\ due.gen = job.gen
          /\ opened \in Files /\ due.edit \in Edits
      BY <1>0, <1>5 DEF FinishFill, WorkerOK, Fillable, FillSets
    <2>2. Told /\ Left
      <3>1. CASE RoundLands(opened, due.edit, due.gen, due.left)
        BY <1>0, <2>1, <3>1, RoundLandsOrdered
      <3>2. CASE RoundFails(opened, due.gen, due.left) \/ Panics(TRUE)
        BY <1>1, <1>2, <2>1, <3>2
      <3> QED BY <1>5, <3>1, <3>2 DEF FinishFill
    <2> QED BY <1>5, <2>1, <2>2, DevelopDoneOrdered DEF FinishFill, DevelopDone, Developing
  <1>6. CASE FinishSide
    <2>1. /\ pc' = "top" /\ job' = NoJob /\ gen' = gen /\ slot' = slot
          /\ settled' = settled /\ inbox' = inbox
          /\ due' \in {due, NoFills} /\ shown' \in {shown, NoTexture}
      BY <1>6 DEF FinishSide, Panics, GiveUpFills, Done, window, queue
    <2>2. ~Developing(job)
      BY <1>6 DEF FinishSide, Developing
    <2>3. InOrder'
      BY <2>1 DEF OrderInv, InOrder
    <2>4. SlotIsNewest' /\ AskedAlone' /\ NewestAsked'
      BY <2>1, <2>2 DEF OrderInv, SlotIsNewest, AskedAlone, NewestAsked, DevelopInHand
    <2> QED BY <2>3, <2>4 DEF OrderInv
  <1> QED BY <1>3, <1>4, <1>5, <1>6 DEF Finish

(* A newer generation asked for. *)
LEMMA AskedOrdered ==
    ASSUME TInv, OrderInv, gen' = gen + 1, slot' # NoJob, slot'.gen = gen + 1,
           pc' \in {pc, "look"}, pc' # pc => pc = "asleep",
           UNCHANGED <<job, due, shown, inbox, settled>>
    PROVE  OrderInv'
  <1>1. settled \in Nat /\ gen \in Nat /\ job.gen \in Nat
    BY DEF TInv, WindowOK, AnswersOK, WorkerOK, Jobs
  <1>2. InOrder'
    BY <1>1 DEF OrderInv, InOrder, Developing
  <1>3. SlotIsNewest' /\ AskedAlone' /\ NewestAsked'
    BY DEF OrderInv, SlotIsNewest, AskedAlone, NewestAsked
  <1> QED BY <1>2, <1>3 DEF OrderInv

(* Nothing of the order touched. *)
LEMMA OrderLeft ==
    ASSUME OrderInv, pc' \in {pc, "look", "stopped", "asleep"}, pc' # pc => pc # "job",
           UNCHANGED <<gen, slot, job, due, shown, inbox, settled>>
    PROVE  OrderInv'
  <1>1. InOrder'
    BY DEF OrderInv, InOrder, Developing
  <1>2. SlotIsNewest' /\ AskedAlone'
    BY DEF OrderInv, SlotIsNewest, AskedAlone
  <1>3. NewestAsked'
    BY DEF OrderInv, NewestAsked, DevelopInHand, Developing
  <1> QED BY <1>1, <1>2, <1>3 DEF OrderInv

LEMMA WindowOrdered ==
    ASSUME TInv, OrderInv, User \/ Timers
    PROVE  OrderInv'
  <1>1. gen \in Nat
    BY DEF TInv, WindowOK
  <1>2. ASSUME NEW f \in Files, OpenFrame(f) PROVE OrderInv'
    <2>1. slot' # NoJob /\ slot'.gen = gen + 1
      BY <1>1, <1>2 DEF OpenFrame, Job, NoJob
    <2> QED BY <1>2, <2>1, AskedOrdered DEF OpenFrame, Wake, hand
  <1>3. ASSUME NEW e \in Edits, AskDevelop(e), UNCHANGED <<job, hand, inbox, settled>>
        PROVE  OrderInv'
    <2>1. slot' # NoJob /\ slot'.gen = gen + 1
      BY <1>1, <1>3 DEF AskDevelop, Job, NoJob
    <2> QED BY <1>3, <2>1, AskedOrdered DEF AskDevelop, Wake, hand
  <1>4. ASSUME NEW e \in Edits, Jump(e) PROVE OrderInv'
    <2>1. CASE ~SameDevelop(e, panel)
      BY <1>3, <1>4, <2>1 DEF Jump
    <2>2. CASE SameDevelop(e, panel)
      <3>1. UNCHANGED <<gen, slot, job, due, shown, inbox, settled>>
        BY <1>4, <2>2 DEF Jump, hand
      <3>2. pc' \in {pc, "look"} /\ (pc' # pc => pc # "job")
        BY <1>4, <2>2 DEF Jump, Wake
      <3> QED BY <3>1, <3>2, OrderLeft
    <2> QED BY <2>1, <2>2
  <1>5. ASSUME Rest PROVE OrderInv'
    BY <1>3, <1>5 DEF Rest, TInv, WindowOK
  <1>6. ASSUME \/ \E e \in Edits : Move(e)
               \/ \E shows \in BOOLEAN : ShowEditor(shows)
               \/ \E k \in Asks : Ask(k)
               \/ Close
               \/ SaveRests
        PROVE  OrderInv'
    <2>1. UNCHANGED <<gen, slot, job, due, shown, inbox, settled>>
      BY <1>6 DEF Move, ShowEditor, Ask, Close, SaveRests, queue, hand
    <2>2. pc' \in {pc, "look"} /\ (pc' # pc => pc # "job")
      BY <1>6 DEF Move, ShowEditor, Ask, Close, SaveRests, Wake
    <2> QED BY <2>1, <2>2, OrderLeft
  <1> QED BY <1>2, <1>4, <1>5, <1>6 DEF User, Timers

LEMMA TakeOrdered ==
    ASSUME TInv, OrderInv, Take
    PROVE  OrderInv'
  <1>1. settled \in Nat /\ gen \in Nat
    BY DEF TInv, WindowOK, AnswersOK
  <1>2. CASE TakeStop \/ Sleep
    BY <1>2, OrderLeft DEF TakeStop, Sleep, Free, window, queue, hand
  <1>3. CASE TakeKeep
    <2>1. /\ pc = "look" /\ pc' = "top"
          /\ UNCHANGED <<gen, slot, job, due, shown, inbox, settled>>
      BY <1>3 DEF TakeKeep, window, hand
    <2>2. InOrder'
      BY <2>1 DEF OrderInv, InOrder
    <2> QED BY <2>1, <2>2 DEF OrderInv, SlotIsNewest, AskedAlone, NewestAsked, DevelopInHand
  <1>4. CASE TakeAsked
    <2>1. /\ pc' = "job" /\ job' = slot /\ slot' = NoJob /\ slot # NoJob
          /\ due' = NoFills /\ shown' = NoTexture
          /\ UNCHANGED <<gen, inbox, settled>>
      BY <1>4 DEF TakeAsked, GiveUpFills, window
    <2>2. slot.gen = gen /\ Developing(slot)
      BY <2>1 DEF OrderInv, SlotIsNewest, TInv, QueueOK, Asked, Developing
    <2>3. InOrder'
      BY <1>1, <2>1, <2>2 DEF OrderInv, InOrder
    <2>4. SlotIsNewest' /\ AskedAlone' /\ NewestAsked'
      BY <2>1, <2>2 DEF SlotIsNewest, AskedAlone, NewestAsked, DevelopInHand, Developing
    <2> QED BY <2>3, <2>4 DEF OrderInv
  <1>5. CASE TakeFill
    <2>1. /\ pc = "look" /\ pc' = "job" /\ slot = NoJob /\ due # NoFills
          /\ job'.gen = due.gen /\ job'.kind = "fill"
          /\ shown' = NoTexture
          /\ UNCHANGED <<gen, slot, inbox, due, settled>>
      BY <1>5 DEF TakeFill, Free, FillsNext, Job, window, queue
    <2>2. settled = gen /\ due.gen = settled
      BY <2>1 DEF OrderInv, NewestAsked, InOrder, DevelopInHand
    <2>3. InOrder'
      BY <1>1, <2>1, <2>2 DEF OrderInv, InOrder
    <2>4. SlotIsNewest' /\ AskedAlone' /\ NewestAsked'
      BY <2>1, <2>2 DEF SlotIsNewest, AskedAlone, NewestAsked
    <2> QED BY <2>3, <2>4 DEF OrderInv
  <1>6. ASSUME NEW k \in Asks, TakeSide(k) PROVE OrderInv'
    <2>1. /\ pc = "look" /\ pc' = "job" /\ job'.kind \in {"look", "export", "mask"}
          /\ UNCHANGED <<gen, slot, inbox, due, shown, settled>>
      BY <1>6, EditsAssumption DEF TakeSide, Free, Job, window, hand
    <2>2. ~Developing(job')
      BY <2>1 DEF Developing
    <2>3. InOrder'
      BY <2>1, <2>2 DEF OrderInv, InOrder, Developing
    <2>4. SlotIsNewest' /\ AskedAlone' /\ NewestAsked'
      BY <2>1 DEF OrderInv, SlotIsNewest, AskedAlone, NewestAsked, DevelopInHand
    <2> QED BY <2>3, <2>4 DEF OrderInv
  <1> QED BY <1>2, <1>3, <1>4, <1>5, <1>6 DEF Take

LEMMA TopOrdered ==
    ASSUME TInv, OrderInv, Top
    PROVE  OrderInv'
  <1>1. /\ pc = "top" /\ pc' = "look"
        /\ shown' \in {shown, NoTexture}
        /\ UNCHANGED <<gen, job, due, inbox, settled>>
    BY DEF Top, window
  <1>2. slot' = slot \/ (slot = NoJob /\ shown # NoTexture /\ slot'.gen = shown.gen)
    BY DEF Top, Redo, Job
  <1>3. InOrder'
    BY <1>1 DEF OrderInv, InOrder
  <1>4. SlotIsNewest'
    BY <1>1, <1>2 DEF OrderInv, SlotIsNewest, NewestAsked, DevelopInHand, InOrder
  <1>5. AskedAlone' /\ NewestAsked'
    BY <1>1, <1>2 DEF OrderInv, AskedAlone, NewestAsked, DevelopInHand
  <1> QED BY <1>3, <1>4, <1>5 DEF OrderInv

LEMMA ReceiveOrdered ==
    ASSUME TInv, OrderInv, Receive
    PROVE  OrderInv'
  <1>1. /\ inbox # <<>> /\ inbox' = Tail(inbox)
        /\ pc' \in {pc, "look"} /\ (pc' # pc => pc = "asleep")
        /\ UNCHANGED <<gen, slot, job, due, shown, settled>>
    BY DEF Receive, Wake, hand
  <1>2. InboxInOrder'
    BY <1>1, InboxShrinks DEF TInv, OrderInv, InOrder, InboxInOrder
  <1>3. InOrder'
    BY <1>1, <1>2 DEF OrderInv, InOrder, InboxInOrder
  <1> QED BY <1>1, <1>3 DEF OrderInv, SlotIsNewest, AskedAlone, NewestAsked, DevelopInHand

LEMMA OrderKept ==
    ASSUME TInv, TInv', OrderInv, [Next]_vars
    PROVE  OrderInv'
  <1>1. CASE LoseDevice \/ TellLoss \/ PictureGone
    BY <1>1, OrderLeft DEF LoseDevice, TellLoss, PictureGone, Wake, window, queue, hand
  <1>2. CASE UNCHANGED vars
    BY <1>2, OrderLeft DEF vars, window, queue, hand
  <1> QED
    BY <1>1, <1>2, WindowOrdered, ReceiveOrdered, TopOrdered, TakeOrdered, FinishOrdered
    DEF Next, Thread

LEMMA OrderInits == Init => OrderInv
  <1> SUFFICES ASSUME Init PROVE OrderInv
    OBVIOUS
  <1>1. InOrder
    BY DEF Init, InOrder
  <1> QED BY <1>1 DEF Init, OrderInv, SlotIsNewest, AskedAlone, NewestAsked

LEMMA OrderHolds == Spec => []OrderInv
  <1>1. TInv /\ TInv' /\ OrderInv /\ [Next]_vars => OrderInv'
    BY OrderKept
  <1> QED BY TypesKept, OrderInits, <1>1, PTL DEF Spec

(* Generations are developed newest first and never again, whatever is      *)
(* asked for, lost or left meanwhile.                                       *)
THEOREM OrderCorrect == Spec => []InOrder
  <1>1. OrderInv => InOrder
    BY DEF OrderInv
  <1> QED BY OrderHolds, <1>1, PTL

-----------------------------------------------------------------------------
(* Who owes the window its answer. *)

Owed ==
    \/ slot # NoJob /\ slot.gen = gen
    \/ DevelopInHand /\ job.gen = gen
    \/ \E i \in 1..Len(inbox) : inbox[i].gen = gen

LEMMA OwedMatters == BusyIsOwed <=> (busy => Owed \/ opened = NoFile)
  BY DEF BusyIsOwed, Owed, DevelopInHand

(* An outcome in the inbox stays there when another joins it. *)
LEMMA InboxOwes ==
    ASSUME AnswersOK, NEW m \in Outcomes, inbox' = Append(inbox, m), gen' = gen
    PROVE  /\ (\E i \in 1..Len(inbox) : inbox[i].gen = gen)
                => \E i \in 1..Len(inbox') : inbox'[i].gen = gen'
           /\ m.gen = gen => \E i \in 1..Len(inbox') : inbox'[i].gen = gen'
  <1>1. inbox \in Seq(Outcomes)
    BY DEF AnswersOK
  <1>2. /\ Len(inbox') = Len(inbox) + 1
        /\ \A i \in 1..Len(inbox) : inbox'[i] = inbox[i]
        /\ inbox'[Len(inbox) + 1] = m
    BY <1>1, AppendProperties
  <1>3. Len(inbox) \in Nat
    BY <1>1
  <1> QED BY <1>2, <1>3

(* A job asked for, or a fill, done: told, the newest is owed still; not    *)
(* told, no file is open.                                                   *)
LEMMA FinishOwed ==
    ASSUME TInv, OrderInv, BusyIsOwed, Done, Developing(job),
           \/ \E m \in Outcomes : m.gen = job.gen /\ inbox' = Append(inbox, m)
           \/ inbox' = inbox /\ opened' = NoFile
    PROVE  BusyIsOwed'
  <1>1. /\ pc = "job" /\ gen' = gen /\ slot' = slot /\ busy' = busy
      BY DEF Done, window, queue
  <1>2. settled \in Nat /\ gen \in Nat /\ job.gen \in Nat /\ AnswersOK
    BY DEF TInv, WindowOK, AnswersOK, WorkerOK, Jobs
  <1>3. CASE inbox' = inbox /\ opened' = NoFile
    BY <1>3, OwedMatters
    DEF BusyIsOwed
  <1>4. ASSUME NEW m \in Outcomes, m.gen = job.gen, inbox' = Append(inbox, m)
        PROVE  BusyIsOwed'
    <2>1. CASE slot # NoJob
      BY <1>1, <2>1 DEF BusyIsOwed, OrderInv, SlotIsNewest
    <2>2. CASE slot = NoJob
      <3>1. job.gen = gen
        BY <1>1, <1>2, <2>2 DEF OrderInv, NewestAsked, InOrder
      <3>2. \E i \in 1..Len(inbox') : inbox'[i].gen = gen'
        BY <1>1, <1>2, <1>4, <3>1, InboxOwes
      <3> QED BY <3>2 DEF BusyIsOwed
    <2> QED BY <2>1, <2>2
  <1> QED BY <1>3, <1>4

LEMMA FinishTells ==
    ASSUME TInv, Finish, Developing(job)
    PROVE  /\ Done
           /\ \/ \E m \in Outcomes : m.gen = job.gen /\ inbox' = Append(inbox, m)
              \/ inbox' = inbox /\ opened' = NoFile
  <1> DEFINE Told == \E m \in Outcomes : m.gen = job.gen /\ inbox' = Append(inbox, m)
  <1>1. ASSUME NEW f, NEW before, RoundFails(f, job.gen, before) PROVE Told
    BY <1>1, FailedOrdered DEF RoundFails, TInv, WorkerOK, Jobs
  <1>2. ASSUME Panics(TRUE) PROVE Told
    BY <1>2, FailedOrdered DEF Panics, TInv, WorkerOK, Jobs
  <1>3. ASSUME Failed(job.gen) PROVE Told
    BY <1>3, FailedOrdered DEF TInv, WorkerOK, Jobs
  <1>4. job.gen \in Nat /\ opened \in Files \cup {NoFile}
    BY DEF TInv, WorkerOK, Jobs
  <1>5. CASE FinishOpen
    <2>1. job.file \in Files /\ job.edit \in Edits
      BY <1>5 DEF FinishOpen, TInv, WorkerOK, Asked
    <2>2. RoundLands(job.file, job.edit, job.gen, 0) => Told
      BY <1>4, <2>1, RoundLandsOrdered
    <2> QED BY <1>1, <1>2, <1>3, <1>5, <2>2 DEF FinishOpen, DevelopDone
  <1>6. CASE FinishDevelop
    <2>1. job.edit \in Edits
      BY <1>6 DEF FinishDevelop, TInv, WorkerOK, Asked
    <2>2. opened # NoFile /\ RoundLands(opened, job.edit, job.gen, 0) => Told
      BY <1>4, <2>1, RoundLandsOrdered
    <2> QED BY <1>1, <1>2, <1>6, <2>2 DEF FinishDevelop, DevelopDone
  <1>7. CASE FinishFill
    <2>1. due # NoFills /\ due.gen = job.gen /\ opened # NoFile
      BY <1>7 DEF FinishFill, DevelopDone, Done, TInv, Fillable
    <2>2. due.edit \in Edits
      BY <2>1 DEF TInv, WorkerOK, FillSets
    <2>3. RoundLands(opened, due.edit, due.gen, due.left) => Told
      BY <1>4, <2>1, <2>2, RoundLandsOrdered
    <2> QED BY <1>1, <1>2, <1>7, <2>1, <2>3 DEF FinishFill, DevelopDone
  <1> QED BY <1>5, <1>6, <1>7 DEF Finish, FinishSide, Developing

LEMMA ReceiveOwed ==
    ASSUME TInv, BusyIsOwed, Receive
    PROVE  BusyIsOwed'
  <1>1. /\ inbox # <<>> /\ inbox \in Seq(Outcomes) /\ inbox' = Tail(inbox)
        /\ busy' = (busy /\ inbox[1].gen # gen)
        /\ pc' \in {pc, "look"} /\ (pc' # pc => pc = "asleep")
        /\ UNCHANGED <<gen, slot, job, opened>>
    BY DEF Receive, Answers, Wake, hand, TInv, AnswersOK
  <1>2. Len(inbox) \in Nat /\ Len(inbox') = Len(inbox) - 1
        /\ \A i \in 1..Len(inbox') : inbox'[i] = inbox[i + 1]
    BY <1>1, HeadTailProperties
  <1>3. ASSUME busy', NEW i \in 1..Len(inbox), inbox[i].gen = gen
        PROVE  \E n \in 1..Len(inbox') : inbox'[n].gen = gen'
    <2>1. i # 1
      BY <1>1, <1>3
    <2>2. i - 1 \in 1..Len(inbox') /\ inbox'[i - 1] = inbox[i]
      BY <1>2, <2>1
    <2> QED BY <1>1, <1>3, <2>2
  <1>4. busy' => busy
    BY <1>1
  <1> QED BY <1>1, <1>3, <1>4 DEF BusyIsOwed

LEMMA OwedKept ==
    ASSUME TInv, OrderInv, BusyIsOwed, [Next]_vars
    PROVE  BusyIsOwed'
  <1>1. ASSUME slot' # NoJob, slot'.gen = gen' PROVE BusyIsOwed'
    BY <1>1 DEF BusyIsOwed
  <1>2. ASSUME UNCHANGED <<gen, busy, slot, inbox, opened>>, pc # "job" PROVE BusyIsOwed'
    BY <1>2 DEF BusyIsOwed
  <1>3. ASSUME UNCHANGED <<gen, busy, slot, inbox, opened, job>>, pc' = pc PROVE BusyIsOwed'
    BY <1>3 DEF BusyIsOwed, Developing
  <1>4. ASSUME UNCHANGED <<gen, busy, slot, inbox, opened, job>>, Wake PROVE BusyIsOwed'
    BY <1>2, <1>3, <1>4 DEF Wake
  <1>5. CASE User \/ Timers
    <2>1. gen \in Nat
      BY DEF TInv, WindowOK
    <2>2. ASSUME NEW f \in Files, OpenFrame(f) PROVE BusyIsOwed'
      BY <1>1, <2>1, <2>2 DEF OpenFrame, Job, NoJob
    <2>3. ASSUME NEW e \in Edits, AskDevelop(e) PROVE BusyIsOwed'
      BY <1>1, <2>1, <2>3 DEF AskDevelop, Job, NoJob
    <2>4. ASSUME NEW e \in Edits, Jump(e) PROVE BusyIsOwed'
      <3>1. CASE ~SameDevelop(e, panel)
        BY <2>3, <2>4, <3>1 DEF Jump
      <3>2. CASE SameDevelop(e, panel)
        BY <1>4, <2>4, <3>2 DEF Jump, hand
      <3> QED BY <3>1, <3>2
    <2>5. ASSUME Rest PROVE BusyIsOwed'
      BY <2>3, <2>5 DEF Rest, TInv, WindowOK
    <2>6. ASSUME NEW e \in Edits, Move(e) PROVE BusyIsOwed'
      BY <1>3, <2>6 DEF Move, queue, hand
    <2>7. ASSUME \/ \E shows \in BOOLEAN : ShowEditor(shows)
                 \/ \E k \in Asks : Ask(k)
                 \/ Close
                 \/ SaveRests
          PROVE  BusyIsOwed'
      <3>1. UNCHANGED <<gen, busy, slot, inbox, opened, job>> /\ Wake
        BY <2>7 DEF ShowEditor, Ask, Close, SaveRests, queue, hand
      <3> QED BY <1>4, <3>1
    <2> QED BY <1>5, <2>2, <2>4, <2>5, <2>6, <2>7 DEF User, Timers
  <1>6. CASE LoseDevice \/ TellLoss \/ PictureGone
    BY <1>3, <1>4, <1>6 DEF LoseDevice, TellLoss, PictureGone, window, queue, hand
  <1>7. CASE Top
    <2>1. CASE slot = NoJob
      BY <1>7, <2>1 DEF Top, window, BusyIsOwed, OrderInv, NewestAsked, DevelopInHand, InOrder
    <2>2. CASE slot # NoJob
      BY <1>2, <1>7, <2>2 DEF Top, Redo, window
    <2> QED BY <2>1, <2>2
  <1>8. CASE TakeStop \/ TakeKeep \/ TakeFill \/ Sleep \/ \E k \in Asks : TakeSide(k)
    <2>1. UNCHANGED <<gen, busy, slot, inbox, opened>> /\ pc # "job"
      BY <1>8
      DEF TakeStop, TakeKeep, TakeFill, Sleep, TakeSide, Free, window, queue, hand
    <2> QED BY <1>2, <2>1
  <1>9. CASE TakeAsked
    <2>1. /\ pc' = "job" /\ job' = slot /\ slot # NoJob
          /\ UNCHANGED <<gen, busy, inbox, opened>>
      BY <1>9 DEF TakeAsked, window
    <2>2. slot.gen = gen /\ Developing(slot)
      BY <2>1 DEF OrderInv, SlotIsNewest, TInv, QueueOK, Asked, Developing
    <2> QED BY <2>1, <2>2 DEF BusyIsOwed, Developing
  <1>10. CASE Finish
    <2>1. CASE Developing(job)
      BY <1>10, <2>1, FinishTells, FinishOwed
    <2>2. CASE ~Developing(job)
      <3>1. UNCHANGED <<gen, busy, slot, inbox, opened>>
        BY <1>10, <2>2
        DEF Finish, FinishOpen, FinishDevelop, FinishFill, FinishSide, Developing, Panics, Done,
            window, queue
      <3> QED BY <2>2, <3>1 DEF BusyIsOwed
    <2> QED BY <2>1, <2>2
  <1>11. CASE UNCHANGED vars
    BY <1>3, <1>11 DEF vars, window, queue, hand
  <1> QED
    BY <1>5, <1>6, <1>7, <1>8, <1>9, <1>10, <1>11, ReceiveOwed DEF Next, Thread, Take

(* While the window shows that it is busy somebody owes it the answer: its  *)
(* newest ask waits, is being worked on or is answered, whatever overtook,  *)
(* failed or panicked, but for a develop asked for with no file open.       *)
THEOREM OwedCorrect == Spec => []BusyIsOwed
  <1>1. Init => BusyIsOwed
    BY DEF Init, BusyIsOwed
  <1>2. TInv /\ OrderInv /\ BusyIsOwed /\ [Next]_vars => BusyIsOwed'
    BY OwedKept
  <1> QED BY TypesKept, OrderHolds, <1>1, <1>2, PTL DEF Spec

-----------------------------------------------------------------------------
(* What is made under the newest generation is made for the panel.          *)

(* An edit developed under a generation is, when that is the newest and no  *)
(* slider has moved since, developed as the panel's is.                     *)
Fits(g, e, newest, moved, p) == g = newest /\ ~moved => SameDevelop(e, p)
OfPanel(g, e) == Fits(g, e, gen, debounce, panel)

InboxIsPanels ==
    \A i \in 1..Len(inbox) : inbox[i].kind = "developed" => OfPanel(inbox[i].gen, inbox[i].edit)

(* All an edit goes through on its way to the screen. *)
PanelInv ==
    /\ screen.gen <= gen
    /\ screen # NoScreen => OfPanel(screen.gen, screen.edit)
    /\ InboxIsPanels
    /\ slot # NoJob => OfPanel(slot.gen, slot.edit)
    /\ pc = "job" /\ job.kind \in {"open", "develop"} => OfPanel(job.gen, job.edit)
    /\ due # NoFills => OfPanel(due.gen, due.edit)
    /\ shown # NoTexture => OfPanel(shown.gen, shown.edit)

(* The window asks for nothing, and its panel stays in its class or is left *)
(* to the debounce.                                                         *)
PanelStays == gen' = gen /\ (debounce' \/ (~debounce /\ SameDevelop(panel, panel')))

LEMMA StillOfPanel ==
    ASSUME PanelStays, NEW g, NEW e, OfPanel(g, e)
    PROVE  OfPanel(g, e)'
  BY DEF PanelStays, OfPanel, Fits, SameDevelop

(* Nothing new is developed, or handed on. *)
LEMMA PanelLeft ==
    ASSUME PanelInv, PanelStays, screen' = screen, inbox' = inbox,
           slot' \in {slot, NoJob}, due' \in {due, NoFills}, shown' \in {shown, NoTexture},
           pc' = "job" /\ job'.kind \in {"open", "develop"} => pc = "job" /\ job' = job
    PROVE  PanelInv'
  <1>1. \A g, e : OfPanel(g, e) => OfPanel(g, e)'
    BY StillOfPanel
  <1>2. InboxIsPanels'
    BY <1>1 DEF PanelInv, InboxIsPanels, OfPanel
  <1>3. screen'.gen <= gen' /\ (screen' # NoScreen => OfPanel(screen.gen, screen.edit)')
    BY <1>1 DEF PanelInv, PanelStays, OfPanel
  <1>4. /\ slot' # NoJob => OfPanel(slot.gen, slot.edit)'
        /\ due' # NoFills => OfPanel(due.gen, due.edit)'
        /\ shown' # NoTexture => OfPanel(shown.gen, shown.edit)'
        /\ pc' = "job" /\ job'.kind \in {"open", "develop"} => OfPanel(job.gen, job.edit)'
    BY <1>1 DEF PanelInv, OfPanel
  <1> QED BY <1>2, <1>3, <1>4 DEF PanelInv, OfPanel

(* What is asked for is the panel's, and whatever was made before is older. *)
LEMMA PanelAsked ==
    ASSUME TInv, OrderInv, PanelInv, gen' = gen + 1, panel' \in Edits,
           slot' # NoJob => slot'.edit = panel',
           pc' = "job" => pc = "job",
           UNCHANGED <<screen, inbox, job, due, shown>>
    PROVE  PanelInv'
  <1>1. /\ gen \in Nat /\ settled \in Nat /\ job.gen \in Nat /\ screen.gen \in Nat
        /\ \A i \in 1..Len(inbox) : inbox[i].gen \in Nat
    BY InboxGens DEF TInv, WindowOK, AnswersOK, WorkerOK, Jobs, Screens
  <1>2. settled <= gen /\ screen.gen <= gen /\ \A i \in 1..Len(inbox) : inbox[i].gen <= settled
    BY DEF OrderInv, InOrder, PanelInv, OfPanel
  <1>3. \A g \in Nat : \A e : g <= gen => OfPanel(g, e)'
    BY <1>1 DEF OfPanel, Fits
  <1>4. InboxIsPanels'
    BY <1>1, <1>2, <1>3 DEF InboxIsPanels, OfPanel
  <1>5. screen'.gen <= gen' /\ OfPanel(screen.gen, screen.edit)'
    BY <1>1, <1>2, <1>3
  <1>6. slot' # NoJob => OfPanel(slot.gen, slot.edit)'
    BY DEF OfPanel, Fits, SameDevelop
  <1>7. /\ due' # NoFills => OfPanel(due.gen, due.edit)'
        /\ shown' # NoTexture => OfPanel(shown.gen, shown.edit)'
        /\ pc' = "job" /\ job'.kind \in {"open", "develop"} => OfPanel(job.gen, job.edit)'
    BY <1>1, <1>2, <1>3 DEF OrderInv, InOrder, Developing
  <1> QED BY <1>4, <1>5, <1>6, <1>7 DEF PanelInv, OfPanel

LEMMA WindowPanels ==
    ASSUME TInv, OrderInv, PanelInv, User \/ Timers
    PROVE  PanelInv'
  <1>0. panel \in Edits /\ saved \in [Files -> Edits]
    BY DEF TInv, WindowOK
  <1>1. ASSUME NEW f \in Files, OpenFrame(f) PROVE PanelInv'
    <2>1. panel' = saved'[f] /\ saved' \in [Files -> Edits]
      BY <1>0, <1>1, SaveEditType DEF OpenFrame, TInv, WindowOK, QueueOK
    <2>2. /\ gen' = gen + 1 /\ slot'.edit = panel'
          /\ UNCHANGED <<screen, inbox, job, due, shown>>
      BY <1>1 DEF OpenFrame, Job, hand
    <2>3. pc' = "job" => pc = "job"
      BY <1>1 DEF OpenFrame, Wake
    <2> QED BY <2>1, <2>2, <2>3, PanelAsked
  <1>2. ASSUME NEW e \in Edits, AskDevelop(e), panel' = e, UNCHANGED <<screen, inbox, job, hand>>
        PROVE  PanelInv'
    <2>1. /\ gen' = gen + 1 /\ slot'.edit = panel' /\ (pc' = "job" => pc = "job")
          /\ UNCHANGED <<screen, inbox, job, due, shown>>
      BY <1>2 DEF AskDevelop, Job, Wake, hand
    <2> QED BY <1>2, <2>1, PanelAsked
  <1>3. ASSUME NEW e \in Edits, Jump(e) PROVE PanelInv'
    <2>1. CASE ~SameDevelop(e, panel)
      BY <1>2, <1>3, <2>1 DEF Jump
    <2>2. CASE SameDevelop(e, panel)
      <3>1. PanelStays
        BY <1>3, <2>2 DEF Jump, PanelStays, SameDevelop
      <3>2. UNCHANGED <<screen, inbox, slot, due, shown, job>> /\ (pc' = "job" => pc = "job")
        BY <1>3, <2>2 DEF Jump, Wake, hand
      <3> QED BY <3>1, <3>2, PanelLeft
    <2> QED BY <2>1, <2>2
  <1>4. ASSUME Rest PROVE PanelInv'
    BY <1>0, <1>2, <1>4 DEF Rest
  <1>5. ASSUME NEW e \in Edits, Move(e) PROVE PanelInv'
    <2>1. PanelStays
      BY <1>5 DEF Move, PanelStays, SameDevelop
    <2>2. UNCHANGED <<screen, inbox, slot, due, shown, job, pc>>
      BY <1>5 DEF Move, queue, hand
    <2> QED BY <2>1, <2>2, PanelLeft
  <1>6. ASSUME \/ \E shows \in BOOLEAN : ShowEditor(shows)
               \/ \E k \in Asks : Ask(k)
               \/ Close
               \/ SaveRests
        PROVE  PanelInv'
    <2>1. gen' = gen /\ debounce' = debounce /\ panel' = panel
      BY <1>6 DEF ShowEditor, Ask, Close, SaveRests
    <2>2. PanelStays
      BY <2>1 DEF PanelStays, SameDevelop
    <2>3. UNCHANGED <<screen, inbox, slot, due, shown, job>> /\ (pc' = "job" => pc = "job")
      BY <1>6 DEF ShowEditor, Ask, Close, SaveRests, Wake, queue, hand
    <2> QED BY <2>2, <2>3, PanelLeft
  <1> QED BY <1>1, <1>3, <1>4, <1>5, <1>6 DEF User, Timers

LEMMA ReceivePanels ==
    ASSUME TInv, PanelInv, Receive
    PROVE  PanelInv'
  <1>1. /\ inbox # <<>> /\ inbox' = Tail(inbox) /\ (pc' = "job" => pc = "job")
        /\ gen' = gen /\ debounce' = debounce /\ panel' = panel
        /\ slot' = slot /\ job' = job /\ due' = due /\ shown' = shown
    BY DEF Receive, Wake, hand
  <1>2. \A g, e : OfPanel(g, e) => OfPanel(g, e)'
    BY <1>1 DEF OfPanel, Fits
  <1>3. /\ Len(inbox) \in Nat /\ 1 \in 1..Len(inbox) /\ Head(inbox) = inbox[1]
        /\ Len(inbox') = Len(inbox) - 1 /\ \A i \in 1..Len(inbox') : inbox'[i] = inbox[i + 1]
    BY <1>1, HeadTailProperties, LenProperties DEF TInv, AnswersOK
  <1>4. InboxIsPanels'
    <2> SUFFICES ASSUME NEW i \in 1..Len(inbox'), inbox'[i].kind = "developed"
                 PROVE  Fits(inbox'[i].gen, inbox'[i].edit, gen', debounce', panel')
      BY DEF InboxIsPanels, OfPanel
    <2>1. i + 1 \in 1..Len(inbox) /\ inbox'[i] = inbox[i + 1]
      BY <1>3
    <2>2. Fits(inbox[i + 1].gen, inbox[i + 1].edit, gen, debounce, panel)
      BY <2>1 DEF PanelInv, InboxIsPanels, OfPanel
    <2> QED BY <1>2, <2>1, <2>2 DEF OfPanel
  <1>5. screen'.gen <= gen' /\ (screen' # NoScreen => OfPanel(screen.gen, screen.edit)')
    <2>1. CASE screen' = screen
      BY <1>1, <1>2, <2>1 DEF PanelInv, OfPanel
    <2>2. CASE /\ Answers(inbox[1]) /\ inbox[1].kind = "developed"
               /\ screen' = [gen |-> inbox[1].gen, file |-> inbox[1].file, edit |-> inbox[1].edit]
      <3>1. Fits(inbox[1].gen, inbox[1].edit, gen', debounce', panel')
        BY <1>2, <1>3, <2>2 DEF PanelInv, InboxIsPanels, OfPanel
      <3>2. screen'.gen = gen /\ screen'.gen = inbox[1].gen /\ screen'.edit = inbox[1].edit
        BY <2>2 DEF Answers
      <3>3. gen \in Nat
        BY DEF TInv, WindowOK
      <3> QED BY <1>1, <3>1, <3>2, <3>3 DEF OfPanel
    <2> QED BY <1>3, <2>1, <2>2 DEF Receive
  <1>6. /\ slot' # NoJob => OfPanel(slot.gen, slot.edit)'
        /\ due' # NoFills => OfPanel(due.gen, due.edit)'
        /\ shown' # NoTexture => OfPanel(shown.gen, shown.edit)'
        /\ pc' = "job" /\ job'.kind \in {"open", "develop"} => OfPanel(job.gen, job.edit)'
    BY <1>1, <1>2 DEF PanelInv, OfPanel
  <1> QED BY <1>1, <1>4, <1>5, <1>6 DEF PanelInv, OfPanel

(* A job done: its outcome, its fills and its texture are of its edit.      *)
LEMMA DonePanels ==
    ASSUME TInv, PanelInv, Done, NEW g, NEW e, OfPanel(g, e),
           \/ inbox' = inbox
           \/ \E m : inbox' = Append(inbox, m) /\ (m.kind = "developed" => m.gen = g /\ m.edit = e),
           due' # NoFills => due'.gen = g /\ due'.edit = e,
           shown' # NoTexture => shown'.gen = g /\ shown'.edit = e
    PROVE  PanelInv'
  <1>1. /\ gen' = gen /\ debounce' = debounce /\ panel' = panel /\ screen' = screen
        /\ slot' = slot /\ pc' = "top"
    BY DEF Done, window, queue
  <1>2. \A h, d : OfPanel(h, d) => OfPanel(h, d)'
    BY <1>1 DEF OfPanel, Fits
  <1>3. InboxIsPanels'
    <2>1. CASE inbox' = inbox
      BY <1>2, <2>1 DEF PanelInv, InboxIsPanels, OfPanel
    <2>2. ASSUME NEW m, inbox' = Append(inbox, m), m.kind = "developed" => m.gen = g /\ m.edit = e
          PROVE  InboxIsPanels'
      <3>1. inbox \in Seq(Outcomes \cup {m}) /\ Len(inbox) \in Nat
        BY DEF TInv, AnswersOK
      <3>2. /\ Len(inbox') = Len(inbox) + 1 /\ inbox'[Len(inbox) + 1] = m
            /\ \A i \in 1..Len(inbox) : inbox'[i] = inbox[i]
        BY <2>2, <3>1, AppendProperties
      <3>3. ASSUME NEW i \in 1..Len(inbox'), inbox'[i].kind = "developed"
            PROVE  OfPanel(inbox[i].gen, inbox[i].edit)'
        <4>1. CASE i \in 1..Len(inbox)
          BY <1>2, <3>2, <3>3, <4>1 DEF PanelInv, InboxIsPanels, OfPanel
        <4>2. CASE i = Len(inbox) + 1
          BY <1>2, <2>2, <3>2, <3>3, <4>2
        <4> QED BY <3>1, <3>2, <4>1, <4>2
      <3> QED BY <3>3 DEF InboxIsPanels, OfPanel
    <2> QED BY <2>1, <2>2
  <1>4. /\ screen'.gen <= gen' /\ (screen' # NoScreen => OfPanel(screen.gen, screen.edit)')
        /\ (slot' # NoJob => OfPanel(slot.gen, slot.edit)')
    BY <1>1, <1>2 DEF PanelInv, OfPanel
  <1>5. /\ due' # NoFills => OfPanel(due.gen, due.edit)'
        /\ shown' # NoTexture => OfPanel(shown.gen, shown.edit)'
    BY <1>2
  <1> QED BY <1>1, <1>3, <1>4, <1>5 DEF PanelInv, OfPanel

LEMMA RoundLandsPanels ==
    ASSUME NEW f, NEW e, NEW g, NEW before, RoundLands(f, e, g, before)
    PROVE  /\ \E m : inbox' = Append(inbox, m) /\ (m.kind = "developed" => m.gen = g /\ m.edit = e)
           /\ due' # NoFills => due'.gen = g /\ due'.edit = e
           /\ shown' # NoTexture => shown'.gen = g /\ shown'.edit = e
  <1>1. Outcome("developed", g, f, e).gen = g /\ Outcome("developed", g, f, e).edit = e
    BY DEF Outcome
  <1> QED BY <1>1 DEF RoundLands

LEMMA FailedPanels ==
    ASSUME NEW g, Failed(g)
    PROVE  \E m : inbox' = Append(inbox, m) /\ m.kind # "developed"
  <1>1. Outcome("failed", g, NoFile, NoEdit).kind # "developed"
    BY DEF Outcome
  <1> QED BY <1>1 DEF Failed

LEMMA FinishPanels ==
    ASSUME TInv, OrderInv, PanelInv, Finish
    PROVE  PanelInv'
  <1>0. pc = "job" /\ Done
    BY DEF Finish, FinishOpen, FinishDevelop, FinishFill, FinishSide, DevelopDone, Done
  <1> DEFINE Left(g, e) ==
               /\ \/ inbox' = inbox
                  \/ \E m : inbox' = Append(inbox, m) /\ (m.kind = "developed" => m.gen = g /\ m.edit = e)
               /\ due' # NoFills => due'.gen = g /\ due'.edit = e
               /\ shown' # NoTexture => shown'.gen = g /\ shown'.edit = e
  <1>1. ASSUME NEW f, NEW h, NEW before, RoundFails(f, h, before) PROVE \A g, e : Left(g, e)
    BY <1>1, FailedPanels DEF RoundFails, GiveUpFills
  <1>2. ASSUME Panics(TRUE) PROVE \A g, e : Left(g, e)
    BY <1>2, FailedPanels DEF Panics, GiveUpFills
  <1>3. CASE FinishOpen
    <2>1. OfPanel(job.gen, job.edit) /\ due = NoFills /\ shown = NoTexture
      BY <1>0, <1>3 DEF FinishOpen, PanelInv, OrderInv, AskedAlone, OfPanel
    <2>2. ASSUME Failed(job.gen), UNCHANGED <<base, shown, due, askedAgain, device>>
          PROVE  Left(job.gen, job.edit)
      BY <2>1, <2>2, FailedPanels
    <2>3. ASSUME RoundLands(job.file, job.edit, job.gen, 0) PROVE Left(job.gen, job.edit)
      BY <2>3, RoundLandsPanels
    <2>4. Left(job.gen, job.edit)
      <3> HIDE DEF Left
      <3> QED BY <1>1, <1>2, <1>3, <2>2, <2>3 DEF FinishOpen
    <2> QED BY <1>0, <2>1, <2>4, DonePanels
  <1>4. CASE FinishDevelop
    <2>1. OfPanel(job.gen, job.edit) /\ due = NoFills /\ shown = NoTexture
      BY <1>0, <1>4 DEF FinishDevelop, PanelInv, OrderInv, AskedAlone, OfPanel
    <2>2. ASSUME UNCHANGED <<base, shown, due, askedAgain, device, inbox>>
          PROVE  Left(job.gen, job.edit)
      BY <2>1, <2>2
    <2>3. ASSUME RoundLands(opened, job.edit, job.gen, 0) PROVE Left(job.gen, job.edit)
      BY <2>3, RoundLandsPanels
    <2>4. Left(job.gen, job.edit)
      <3> HIDE DEF Left
      <3> QED BY <1>1, <1>2, <1>4, <2>2, <2>3 DEF FinishDevelop
    <2> QED BY <1>0, <2>1, <2>4, DonePanels
  <1>5. CASE FinishFill
    <2>1. OfPanel(due.gen, due.edit)
      BY <1>0, <1>5 DEF FinishFill, PanelInv, TInv, Fillable, OfPanel
    <2>2. ASSUME RoundLands(opened, due.edit, due.gen, due.left) PROVE Left(due.gen, due.edit)
      BY <2>2, RoundLandsPanels
    <2>3. Left(due.gen, due.edit)
      <3> HIDE DEF Left
      <3> QED BY <1>1, <1>2, <1>5, <2>2 DEF FinishFill
    <2> QED BY <1>0, <2>1, <2>3, DonePanels
  <1>6. CASE FinishSide
    <2>1. /\ gen' = gen /\ debounce' = debounce /\ panel' = panel
          /\ screen' = screen /\ inbox' = inbox /\ slot' = slot /\ pc' = "top"
          /\ due' \in {due, NoFills} /\ shown' \in {shown, NoTexture}
      BY <1>6 DEF FinishSide, Panics, GiveUpFills, Done, window, queue
    <2>2. PanelStays
      BY <2>1 DEF PanelStays, SameDevelop
    <2> QED BY <2>1, <2>2, PanelLeft
  <1> QED BY <1>3, <1>4, <1>5, <1>6 DEF Finish

LEMMA PanelsKept ==
    ASSUME TInv, OrderInv, PanelInv, [Next]_vars
    PROVE  PanelInv'
  <1>1. ASSUME gen' = gen, debounce' = debounce, panel' = panel PROVE PanelStays
    BY <1>1 DEF PanelStays, SameDevelop
  <1>2. CASE LoseDevice \/ TellLoss \/ PictureGone \/ UNCHANGED vars
    <2>1. /\ gen' = gen /\ debounce' = debounce /\ panel' = panel /\ screen' = screen
          /\ inbox' = inbox /\ slot' = slot /\ due' = due /\ shown' = shown /\ job' = job
      BY <1>2 DEF LoseDevice, TellLoss, PictureGone, vars, window, queue, hand
    <2>2. pc' = "job" => pc = "job"
      BY <1>2 DEF LoseDevice, TellLoss, PictureGone, Wake, vars
    <2> QED BY <1>1, <2>1, <2>2, PanelLeft
  <1>3. CASE TakeStop \/ TakeKeep \/ Sleep \/ TakeFill
    <2>1. /\ gen' = gen /\ debounce' = debounce /\ panel' = panel /\ screen' = screen
          /\ inbox' = inbox /\ slot' = slot /\ due' = due /\ shown' \in {shown, NoTexture}
      BY <1>3 DEF TakeStop, TakeKeep, Sleep, TakeFill, window, queue, hand
    <2>2. pc' = "job" => job'.kind = "fill"
      BY <1>3 DEF TakeStop, TakeKeep, Sleep, TakeFill, Job
    <2> QED BY <1>1, <2>1, <2>2, PanelLeft
  <1>4. ASSUME NEW k \in Asks, TakeSide(k) PROVE PanelInv'
    <2>1. /\ gen' = gen /\ debounce' = debounce /\ panel' = panel /\ screen' = screen
          /\ inbox' = inbox /\ slot' = slot /\ due' = due /\ shown' = shown
      BY <1>4 DEF TakeSide, window, hand
    <2>2. job'.kind \notin {"open", "develop"}
      BY <1>4, EditsAssumption DEF TakeSide, Job
    <2> QED BY <1>1, <2>1, <2>2, PanelLeft
  <1>5. CASE TakeAsked
    <2>1. /\ gen' = gen /\ debounce' = debounce /\ panel' = panel /\ screen' = screen
          /\ inbox' = inbox /\ slot' = NoJob /\ slot # NoJob /\ job' = slot
          /\ due' = NoFills /\ shown' = NoTexture
      BY <1>5 DEF TakeAsked, GiveUpFills, window
    <2>2. \A g, e : OfPanel(g, e) => OfPanel(g, e)'
      BY <2>1 DEF OfPanel
    <2>3. InboxIsPanels'
      BY <2>1, <2>2 DEF PanelInv, InboxIsPanels, OfPanel
    <2>4. Fits(slot.gen, slot.edit, gen', debounce', panel')
      BY <2>1, <2>2 DEF PanelInv, OfPanel
    <2>5. screen'.gen <= gen' /\ (screen' # NoScreen => OfPanel(screen.gen, screen.edit)')
      BY <2>1, <2>2 DEF PanelInv, OfPanel
    <2> QED BY <2>1, <2>3, <2>4, <2>5 DEF PanelInv, OfPanel
  <1>6. CASE Top
    <2>1. /\ gen' = gen /\ debounce' = debounce /\ panel' = panel /\ screen' = screen
          /\ inbox' = inbox /\ due' = due /\ shown' \in {shown, NoTexture} /\ pc' = "look"
      BY <1>6 DEF Top, window
    <2>2. \A g, e : OfPanel(g, e) => OfPanel(g, e)'
      BY <2>1 DEF OfPanel
    <2>3. \/ slot' = slot
          \/ shown # NoTexture /\ slot'.gen = shown.gen /\ slot'.edit = shown.edit
      BY <1>6 DEF Top, Redo, Job
    <2>4. slot' # NoJob => OfPanel(slot.gen, slot.edit)'
      BY <2>2, <2>3 DEF PanelInv, OfPanel
    <2>5. InboxIsPanels'
      BY <2>1, <2>2 DEF PanelInv, InboxIsPanels, OfPanel
    <2>6. /\ screen'.gen <= gen' /\ (screen' # NoScreen => OfPanel(screen.gen, screen.edit)')
          /\ (due' # NoFills => OfPanel(due.gen, due.edit)')
          /\ (shown' # NoTexture => OfPanel(shown.gen, shown.edit)')
      BY <2>1, <2>2 DEF PanelInv, OfPanel
    <2> QED BY <2>1, <2>4, <2>5, <2>6 DEF PanelInv, OfPanel
  <1> QED
    BY <1>2, <1>3, <1>4, <1>5, <1>6, WindowPanels, ReceivePanels, FinishPanels
    DEF Next, Thread, Take

LEMMA PanelsHold == Spec => []PanelInv
  <1>1. Init => PanelInv
    BY DEF Init, PanelInv, InboxIsPanels, NoScreen, OfPanel
  <1>2. TInv /\ OrderInv /\ PanelInv /\ [Next]_vars => PanelInv'
    BY PanelsKept
  <1> QED BY TypesKept, OrderHolds, <1>1, <1>2, PTL DEF Spec

(* The picture on screen under the newest generation is what the panel's    *)
(* edit looks like, through redos of a lost device, rounds of fills, and    *)
(* pictures that land late, unless a slider moved that has not rested.      *)
THEOREM ScreenCorrect == Spec => []ScreenIsPanels
  <1>1. PanelInv => ScreenIsPanels
    BY DEF PanelInv, ScreenIsPanels, OfPanel, Fits
  <1> QED BY PanelsHold, <1>1, PTL

-----------------------------------------------------------------------------
(* The worker implements NewestWins.                                        *)

LEMMA NewestStep ==
    ASSUME TInv, OrderInv, OrderInv', [Next]_vars
    PROVE  [Newest!Next]_(Newest!vars)
  <1>0. settled \in Nat /\ gen \in Nat /\ job.gen \in Nat
    BY DEF TInv, WindowOK, AnswersOK, WorkerOK, Jobs
  <1>1. ASSUME gen' = gen + 1, ~stopping, UNCHANGED <<job, settled, stopping>>,
               pc' = pc \/ (pc = "asleep" /\ pc' = "look")
        PROVE  Newest!Ask
    BY <1>1 DEF Newest!Ask, Developing
  <1>2. ASSUME UNCHANGED <<gen, job, settled, stopping>>,
               pc' = pc \/ (pc # "job" /\ pc' # "job")
        PROVE  UNCHANGED Newest!vars
    BY <1>2 DEF Newest!vars, Developing
  <1>3. CASE User \/ Timers
    <2>1. ASSUME NEW f \in Files, OpenFrame(f) PROVE Newest!Ask
      BY <1>1, <2>1 DEF OpenFrame, Acts, Wake
    <2>2. ASSUME NEW e \in Edits, Jump(e) PROVE [Newest!Ask]_(Newest!vars)
      <3>1. CASE ~SameDevelop(e, panel)
        BY <1>1, <2>2, <3>1 DEF Jump, AskDevelop, Acts, Wake
      <3>2. CASE SameDevelop(e, panel)
        BY <1>2, <2>2, <3>2 DEF Jump, Wake
      <3> QED BY <3>1, <3>2
    <2>3. ASSUME Rest PROVE Newest!Ask
      BY <1>1, <2>3 DEF Rest, AskDevelop, Wake
    <2>4. ASSUME Close PROVE Newest!Leave
      BY <2>4 DEF Close, Newest!Leave, Wake, Developing
    <2>5. ASSUME \/ \E e \in Edits : Move(e)
                 \/ \E shows \in BOOLEAN : ShowEditor(shows)
                 \/ \E k \in Asks : Ask(k)
                 \/ SaveRests
          PROVE  UNCHANGED Newest!vars
      <3>1. UNCHANGED <<gen, job, settled, stopping>>
        BY <2>5 DEF Move, ShowEditor, Ask, SaveRests, queue
      <3>2. pc' = pc \/ (pc # "job" /\ pc' # "job")
        BY <2>5 DEF Move, ShowEditor, Ask, SaveRests, Wake
      <3> QED BY <1>2, <3>1, <3>2
    <2> QED BY <1>3, <2>1, <2>2, <2>3, <2>4, <2>5 DEF User, Timers, Newest!Next
  <1>4. CASE Receive \/ LoseDevice \/ TellLoss \/ PictureGone
    <2>1. UNCHANGED <<gen, job, settled, stopping>>
      BY <1>4 DEF Receive, LoseDevice, TellLoss, PictureGone, window, queue
    <2>2. pc' = pc \/ (pc # "job" /\ pc' # "job")
      BY <1>4 DEF Receive, LoseDevice, TellLoss, PictureGone, Wake
    <2> QED BY <1>2, <2>1, <2>2
  <1>5. CASE Top \/ TakeStop \/ TakeKeep \/ Sleep
    BY <1>2, <1>5 DEF Top, TakeStop, TakeKeep, Sleep, Free, window, queue
  <1>6. CASE TakeAsked
    <2>1. /\ pc = "look" /\ pc' = "job" /\ job' = slot /\ slot # NoJob /\ ~stopping
          /\ UNCHANGED <<gen, settled, stopping>>
      BY <1>6 DEF TakeAsked, window
    <2>2. slot.gen = gen /\ Developing(slot) /\ settled <= gen
      BY <2>1 DEF OrderInv, SlotIsNewest, InOrder, TInv, QueueOK, Asked, Developing
    <2>3. CASE settled = gen
      BY <2>1, <2>2, <2>3 DEF Newest!vars, Developing
    <2>4. CASE settled < gen
      BY <2>1, <2>2, <2>4 DEF Newest!Next, Newest!Take, Developing
    <2> QED BY <1>0, <2>2, <2>3, <2>4
  <1>7. CASE TakeFill
    <2>1. /\ pc = "look" /\ pc' = "job" /\ due # NoFills /\ job'.gen = due.gen
          /\ UNCHANGED <<gen, settled, stopping>>
      BY <1>7 DEF TakeFill, Free, FillsNext, Job, window, queue
    <2>2. due.gen = settled
      BY <2>1 DEF OrderInv, InOrder
    <2> QED BY <2>1, <2>2 DEF Newest!vars, Developing
  <1>8. ASSUME NEW k \in Asks, TakeSide(k) PROVE UNCHANGED Newest!vars
    <2>1. /\ pc = "look" /\ job'.kind \in {"look", "export", "mask"}
          /\ UNCHANGED <<gen, settled, stopping>>
      BY <1>8, EditsAssumption DEF TakeSide, Free, Job, window
    <2> QED BY <2>1 DEF Newest!vars, Developing
  <1>9. CASE Finish
    <2>1. /\ pc = "job" /\ pc' = "top" /\ UNCHANGED <<gen, stopping>>
          /\ settled' = IF Developing(job) THEN job.gen ELSE settled
      BY <1>9
      DEF Finish, FinishOpen, FinishDevelop, FinishFill, FinishSide, DevelopDone, Done,
          Developing, window, queue
    <2>2. CASE Developing(job)
      <3>1. settled <= job.gen
        BY <2>1, <2>2 DEF OrderInv, InOrder
      <3>2. CASE settled = job.gen
        BY <2>1, <2>2, <3>2 DEF Newest!vars
      <3>3. CASE settled < job.gen
        BY <2>1, <2>2, <3>3 DEF Newest!Next, Newest!Settle
      <3> QED BY <1>0, <3>1, <3>2, <3>3
    <2>3. CASE ~Developing(job)
      BY <2>1, <2>3 DEF Newest!vars
    <2> QED BY <2>2, <2>3
  <1>10. CASE UNCHANGED vars
    BY <1>2, <1>10 DEF vars, window, queue
  <1> QED
    BY <1>3, <1>4, <1>5, <1>6, <1>7, <1>8, <1>9, <1>10 DEF Next, Thread, Take

(* The worker keeps the promise of NewestWins: it takes the newest ask,     *)
(* skips those passed over for good, and is done with one before it takes   *)
(* another.  That it takes the newest in the end is left to the runs.       *)
THEOREM NewestSafe == Spec => Newest!Spec
  <1>1. Init => Newest!Init
    BY DEF Init, Newest!Init
  <1>2. TInv /\ OrderInv /\ OrderInv' /\ [Next]_vars => [Newest!Next]_(Newest!vars)
    BY NewestStep
  <1> QED BY TypesKept, OrderHolds, <1>1, <1>2, PTL DEF Spec, Newest!Spec
=============================================================================
