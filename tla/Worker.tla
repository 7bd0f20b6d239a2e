------------------------------- MODULE Worker -------------------------------
(***************************************************************************)
(* The editor's worker thread (greycard-engine/src/worker), the window     *)
(* that sends it jobs (greycard-ui), and the queue between them.           *)
(*                                                                         *)
(* The window asks for developments of the open frame under ever newer     *)
(* generations; the queue keeps the newest open or develop only.  The      *)
(* worker takes one job at a time, in an order of its own, answers an open *)
(* or a develop with a picture or a failure, goes on to make the fills the *)
(* picture was shown without, and keeps the pictures of a saved edit from  *)
(* the develop it has in hand.  The GPU device may be lost at any time.    *)
(*                                                                         *)
(* A develop is modelled by what it leaves in the worker's hands.  The     *)
(* edit stands for the edit with the frame's quarter turn, and a frame for *)
(* a file with its version.                                                *)
(***************************************************************************)
EXTENDS Integers, SequencesExt

CONSTANTS
    Files,      \* the frames of the folder
    Edits,      \* what a frame's panel may hold
    Plain,      \* the edit of a frame nobody edited
    DevelopOf,  \* [Edits -> what the walk makes]: same_develop's classes
    Fills,      \* [Edits -> Nat]: the most fills a first round leaves
    Device,     \* whether the window lent the worker its GPU device
    Asks,       \* the other jobs sent, among "look", "export", "mask"
    MaxActs,    \* bound: how many times the user acts in a behaviour
    NoFile,     \* no frame
    NoEdit      \* no edit

ASSUME EditsAssumption ==
    /\ Plain \in Edits
    /\ NoEdit \notin Edits
    /\ NoFile \notin Files
    /\ DOMAIN DevelopOf = Edits
    /\ Fills \in [Edits -> Nat]
    /\ Device \in BOOLEAN
    /\ Asks \subseteq {"look", "export", "mask"}
    /\ MaxActs \in Nat

VARIABLES
    (* the window's thread *)
    cur,        \* the frame open in the editor, or NoFile
    panel,      \* the edit on the panel
    saved,      \* the edit in each frame's sidecar
    gen,        \* the newest generation asked for
    anyOpen,    \* the editor shows its frame, and not the grid
    debounce,   \* a develop waits for the slider to rest
    busy,       \* the window shows that a develop is under way
    screen,     \* the development on screen
    acts,       \* how often the user acted
    (* the queue, under its lock *)
    slot,       \* the newest open or develop
    keeps,      \* saves to keep pictures of, one a frame
    side,       \* the other jobs
    told,       \* the window said that the device was lost
    stopping,   \* the editor is leaving
    (* the worker's thread *)
    pc,         \* where the loop is
    job,        \* the job in hand
    opened,     \* the file decoded
    base,       \* what the last walk kept of it, and its picture on the CPU
    shown,      \* the texture on screen, when the walk ended on the device
    due,        \* the fills left to make
    askedAgain, \* the fills were asked for again, once a develop
    pending,    \* a save that waits for the develop still to land
    device,     \* the worker has a GPU context
    lost,       \* "no", or the device is lost: "found", then "told"
    (* what leaves the worker *)
    inbox,      \* outcomes on their way to the window
    answered,   \* the edit each frame's last answered save was of
    kept,       \* pictures handed to the keeping thread and not gone since
    settled     \* history: the generation last done with

window == <<cur, panel, saved, gen, anyOpen, debounce, busy, screen, acts>>
queue  == <<slot, keeps, side, told, stopping>>
hand   == <<opened, base, shown, due, askedAgain>>
gpu    == <<device, lost>>
vars   == <<window, queue, pc, job, hand, pending, gpu, inbox, answered, kept, settled>>

-----------------------------------------------------------------------------
(* Jobs and what the worker holds *)

Job(kind, file, edit, g) == [kind |-> kind, file |-> file, edit |-> edit, gen |-> g]
NoJob == Job("none", NoFile, NoEdit, 0)

(* A save of a frame under an edit. *)
Keep(file, edit) == Job("keep", file, edit, 0)

(* `develop` is the edit whose picture the CPU walk kept, NoEdit when the   *)
(* picture is a texture; `whole` says whether the picture has everything    *)
(* its edit asks for, `lacks` whether left_out says that it has not.        *)
NoBase == [file |-> NoFile, develop |-> NoEdit, filling |-> FALSE,
           lacks |-> FALSE, whole |-> FALSE]
NoTexture == [file |-> NoFile, edit |-> NoEdit, gen |-> 0,
              lacks |-> FALSE, whole |-> FALSE]
NoFills == [edit |-> NoEdit, gen |-> 0, left |-> 0]
NoScreen == [gen |-> 0, file |-> NoFile, edit |-> NoEdit]

SameDevelop(e, f) == DevelopOf[e] = DevelopOf[f]

Developing(j) == j.kind \in {"open", "develop", "fill"}

Outcome(kind, g, file, edit) == [kind |-> kind, gen |-> g, file |-> file, edit |-> edit]

-----------------------------------------------------------------------------
(* Types *)

Saves    == [kind : {"keep"}, file : Files, edit : Edits, gen : {0}]
Asked    == [kind : {"open"}, file : Files, edit : Edits, gen : Nat]
              \cup [kind : {"develop"}, file : {NoFile}, edit : Edits, gen : Nat]
Jobs     == [kind : {"none", "open", "develop", "fill", "look", "export", "mask"},
             file : Files \cup {NoFile}, edit : Edits \cup {NoEdit}, gen : Nat]
Bases    == [file : Files \cup {NoFile}, develop : Edits \cup {NoEdit},
             filling : BOOLEAN, lacks : BOOLEAN, whole : BOOLEAN]
Textures == [file : Files, edit : Edits, gen : Nat, lacks : BOOLEAN, whole : BOOLEAN]
FillSets == [edit : Edits, gen : Nat, left : Nat \ {0}]
Outcomes == [kind : {"developed", "failed"}, gen : Nat,
             file : Files \cup {NoFile}, edit : Edits \cup {NoEdit}]
Pictures == [file : Files, edit : Edits, of : Files, develop : Edits, whole : BOOLEAN]
Screens  == [gen : Nat, file : Files \cup {NoFile}, edit : Edits \cup {NoEdit}]

WindowOK ==
    /\ cur \in Files \cup {NoFile} /\ panel \in Edits /\ saved \in [Files -> Edits]
    /\ gen \in Nat /\ anyOpen \in BOOLEAN /\ debounce \in BOOLEAN /\ busy \in BOOLEAN
    /\ screen \in Screens /\ acts \in Nat

QueueOK ==
    /\ slot \in Asked \cup {NoJob} /\ keeps \in Seq(Saves) /\ side \subseteq Asks
    /\ told \in BOOLEAN /\ stopping \in BOOLEAN

WorkerOK ==
    /\ pc \in {"top", "look", "asleep", "job", "stopped"}
    /\ job \in Jobs /\ (job.kind \in {"open", "develop"} => job \in Asked)
    /\ opened \in Files \cup {NoFile} /\ base \in Bases
    /\ shown \in Textures \cup {NoTexture} /\ due \in FillSets \cup {NoFills}
    /\ askedAgain \in BOOLEAN /\ device \in BOOLEAN /\ lost \in {"no", "found", "told"}

AnswersOK ==
    /\ pending \in Saves \cup {NoJob} /\ inbox \in Seq(Outcomes)
    /\ answered \in [Files -> Edits] /\ kept \subseteq Pictures /\ settled \in Nat

TypeOK == WindowOK /\ QueueOK /\ WorkerOK /\ AnswersOK

Init ==
    /\ cur = NoFile /\ panel = Plain /\ saved = [f \in Files |-> Plain]
    /\ gen = 0 /\ anyOpen = FALSE /\ debounce = FALSE /\ busy = FALSE
    /\ screen = NoScreen /\ acts = 0
    /\ slot = NoJob /\ keeps = <<>> /\ side = {} /\ told = FALSE /\ stopping = FALSE
    /\ pc = "top" /\ job = NoJob
    /\ opened = NoFile /\ base = NoBase /\ shown = NoTexture /\ due = NoFills
    /\ askedAgain = FALSE /\ pending = NoJob
    /\ device = Device /\ lost = "no"
    /\ inbox = <<>> /\ answered = saved /\ kept = {} /\ settled = 0

-----------------------------------------------------------------------------
(* Keeping the pictures of a saved edit, from what is in hand: keep_open *)

Hand == [opened |-> opened, base |-> base, shown |-> shown, device |-> device]

(* The picture in hand of k's edit: the CPU walk's, else the texture.  Its  *)
(* `lacks` is the left_out of the one or of the other.                      *)
PictureOf(k, h) ==
    IF h.base.develop # NoEdit /\ SameDevelop(h.base.develop, k.edit)
      THEN {[file |-> h.base.file, develop |-> h.base.develop,
             lacks |-> h.base.lacks, whole |-> h.base.whole]}
    ELSE IF h.shown # NoTexture /\ SameDevelop(h.shown.edit, k.edit) /\ h.device
      THEN {[file |-> h.shown.file, develop |-> h.shown.edit,
             lacks |-> h.shown.lacks, whole |-> h.shown.whole]}
    ELSE {}

(* Mutant: a save is not held against the file that is open. *)
WantedAnyFile(k, h, reads) ==
    /\ k.edit # Plain /\ reads
    /\ ~ \E p \in kept : p.file = k.file /\ p.edit = k.edit

(* The save is of an edit of the open file, which can be read, and its      *)
(* pictures are neither kept nor being made.                                *)
Wanted(k, h, reads) ==
    /\ k.edit # Plain /\ h.opened = k.file /\ reads
    /\ ~ \E p \in kept : p.file = k.file /\ p.edit = k.edit

Landed(k, h) == h.base.file # NoFile /\ ~h.base.filling /\ PictureOf(k, h) # {}

Waits(k, leaving, h, reads) == Wanted(k, h, reads) /\ ~Landed(k, h) /\ ~leaving

Makes(k, h, reads) ==
    IF Wanted(k, h, reads) /\ Landed(k, h)
      THEN {[file |-> k.file, edit |-> k.edit, of |-> p.file,
             develop |-> p.develop, whole |-> p.whole] :
                p \in {q \in PictureOf(k, h) : ~q.lacks}}
      ELSE {}

(* Every save is answered but one that waits: made, left to show the        *)
(* camera's picture, found kept, or reset.  A file that cannot be hashed    *)
(* and a read back that fails leave the frame.                              *)
KeepOpen(k, leaving, h) ==
    \E reads \in BOOLEAN :
        /\ pending' = IF Waits(k, leaving, h, reads) THEN k ELSE NoJob
        /\ answered' = IF Waits(k, leaving, h, reads)
                         THEN answered ELSE [answered EXCEPT ![k.file] = k.edit]
        /\ kept' = kept \cup Makes(k, h, reads)

KeepPending(leaving, h) ==
    IF pending = NoJob THEN UNCHANGED <<pending, answered, kept>>
                       ELSE KeepOpen(pending, leaving, h)

-----------------------------------------------------------------------------
(* The window *)

(* Mutant: a send does not notify. *)
WakeNobody == pc' = pc

(* A send wakes the worker where it waits for the queue, and nowhere else.  *)
Wake == pc' = IF pc = "asleep" THEN "look" ELSE pc

Acts == acts < MaxActs /\ acts' = acts + 1 /\ ~stopping

(* A save of a frame queued: the frame's last one, of which there is one at *)
(* most, is dropped.                                                        *)
Queued(k) ==
    LET older == {i \in 1..Len(keeps) : keeps[i].file = k.file}
    IN  Append(IF older = {} THEN keeps ELSE RemoveAt(keeps, CHOOSE i \in older : TRUE), k)

Unsaved == cur # NoFile /\ panel # saved[cur]

(* The panel's edit written to the open frame's sidecar, when it is not     *)
(* there yet, and its pictures asked for.                                   *)
SaveEdit ==
    IF Unsaved
      THEN /\ saved' = [saved EXCEPT ![cur] = panel]
           /\ keeps' = Queued(Keep(cur, panel))
      ELSE UNCHANGED <<saved, keeps>>

(* Mutant: a develop is asked for under the generation of the last. *)
AskDevelopSameGen(e) ==
    /\ gen' = gen /\ busy' = TRUE
    /\ slot' = Job("develop", NoFile, e, gen)
    /\ Wake

AskDevelop(e) ==
    /\ gen' = gen + 1 /\ busy' = TRUE
    /\ slot' = Job("develop", NoFile, e, gen + 1)
    /\ Wake

(* Another frame, or the same again: the outgoing edit saved, the incoming  *)
(* frame's edit on the panel, and its open asked for.  The debounce of a    *)
(* slider moved before is left running.                                     *)
OpenFrame(f) ==
    /\ Acts
    /\ SaveEdit
    /\ cur' = f /\ panel' = saved'[f]
    /\ gen' = gen + 1 /\ busy' = TRUE /\ anyOpen' = TRUE
    /\ slot' = Job("open", f, saved'[f], gen + 1)
    /\ Wake
    /\ UNCHANGED <<debounce, screen, side, told, stopping, job, hand, pending,
                   gpu, inbox, answered, kept, settled>>

(* A slider moved: what the engine must see is developed once it rests.     *)
Move(e) ==
    /\ Acts /\ cur # NoFile /\ anyOpen /\ e # panel
    /\ panel' = e
    /\ debounce' = (debounce \/ ~SameDevelop(e, panel))
    /\ UNCHANGED <<cur, saved, gen, anyOpen, busy, screen, queue, pc, job, hand,
                   pending, gpu, inbox, answered, kept, settled>>

Rest ==
    /\ debounce /\ ~stopping
    /\ debounce' = FALSE
    /\ AskDevelop(panel)
    /\ UNCHANGED <<cur, panel, saved, anyOpen, screen, acts, keeps, side, told,
                   stopping, job, hand, pending, gpu, inbox, answered, kept, settled>>

(* An undo, a redo, a state of the history or a quarter turn: written at    *)
(* once, and developed at once when the engine must see it.                 *)
Jump(e) ==
    /\ Acts /\ cur # NoFile /\ anyOpen /\ e # panel
    /\ panel' = e /\ saved' = [saved EXCEPT ![cur] = e]
    /\ keeps' = Queued(Keep(cur, e))
    /\ IF SameDevelop(e, panel) THEN Wake /\ UNCHANGED <<gen, busy, slot>>
                                ELSE AskDevelop(e)
    /\ UNCHANGED <<cur, anyOpen, debounce, screen, side, told, stopping, job, hand,
                   pending, gpu, inbox, answered, kept, settled>>

(* The save timer. *)
SaveRests ==
    /\ Unsaved /\ ~stopping
    /\ SaveEdit
    /\ Wake
    /\ UNCHANGED <<cur, panel, gen, anyOpen, debounce, busy, screen, acts, slot,
                   side, told, stopping, job, hand, pending, gpu, inbox, answered, kept, settled>>

(* To the grid and back, on the frame still open. *)
ShowEditor(shows) ==
    /\ Acts /\ cur # NoFile /\ anyOpen = ~shows
    /\ anyOpen' = shows
    /\ Wake
    /\ UNCHANGED <<cur, panel, saved, gen, debounce, busy, screen, queue, job, hand,
                   pending, gpu, inbox, answered, kept, settled>>

(* An export, a learned mask, or the people, the landscape or the masks'    *)
(* picture of the open frame asked for.                                     *)
Ask(k) ==
    /\ Acts
    /\ side' = side \cup {k}
    /\ Wake
    /\ UNCHANGED <<cur, panel, saved, gen, anyOpen, debounce, busy, screen, slot, keeps,
                   told, stopping, job, hand, pending, gpu, inbox, answered, kept, settled>>

(* The quit: the open frame's edit saved, and the worker stopped. *)
Close ==
    /\ ~stopping
    /\ SaveEdit
    /\ stopping' = TRUE
    /\ Wake
    /\ UNCHANGED <<cur, panel, gen, anyOpen, debounce, busy, screen, acts, slot, side,
                   told, job, hand, pending, gpu, inbox, answered, kept, settled>>

(* Mutant: a failure does not end the wait. *)
AnswersDeveloped(m) == m.gen = gen /\ m.kind = "developed"

(* Outcomes of older generations are thrown away. *)
Answers(m) == m.gen = gen

(* Mutant: a picture that lands asks for its save's pictures only while the *)
(* edit is still to be saved.                                               *)
AskAgainUnsaved(held) == Unsaved /\ (panel # Plain \/ held)

(* A picture that lands under the saved edit asks for its pictures again.   *)
(* The reset edit's are asked for while the frame still has some.           *)
AskAgain(held) == cur # NoFile /\ ~Unsaved /\ (panel # Plain \/ held)

(* An outcome reaches the window: one of an older generation is thrown      *)
(* away; a picture that lands is shown, and when the saved edit is the one  *)
(* on the panel its pictures are asked for again.                           *)
Receive ==
    LET m == Head(inbox) IN
    /\ inbox # <<>>
    /\ inbox' = Tail(inbox)
    /\ busy' = (busy /\ ~Answers(m))
    /\ IF Answers(m) /\ m.kind = "developed"
         THEN /\ screen' = [gen |-> m.gen, file |-> m.file, edit |-> m.edit]
              /\ \E held \in BOOLEAN :
                   IF AskAgain(held)
                     THEN keeps' = Queued(Keep(cur, panel)) /\ Wake
                     ELSE UNCHANGED <<keeps, pc>>
         ELSE UNCHANGED <<screen, keeps, pc>>
    /\ UNCHANGED <<cur, panel, saved, gen, anyOpen, debounce, acts, slot, side, told,
                   stopping, job, hand, pending, gpu, answered, kept, settled>>

-----------------------------------------------------------------------------
(* The device *)

LoseDevice ==
    /\ Device /\ lost = "no"
    /\ lost' = "found"
    /\ UNCHANGED <<window, queue, pc, job, hand, pending, device, inbox, answered, kept, settled>>

(* The window's device-lost callback: the editor is to start again, so the  *)
(* picture on screen is not made again.                                     *)
TellLoss ==
    /\ lost = "found"
    /\ lost' = "told" /\ told' = TRUE
    /\ Wake
    /\ UNCHANGED <<window, slot, keeps, side, stopping, job, hand, pending, device,
                   inbox, answered, kept, settled>>

(* A picture leaves the cache, or is dropped before it was stored. *)
PictureGone ==
    /\ \E p \in kept : kept' = kept \ {p}
    /\ UNCHANGED <<window, queue, pc, job, hand, pending, gpu, inbox, answered, settled>>

-----------------------------------------------------------------------------
(* The worker: the loop's head and the job it takes *)

(* Mutant: the redo of a lost picture overwrites what was asked for since. *)
RedoAnyhow == ~told /\ shown # NoTexture

Redo == ~told /\ shown # NoTexture /\ slot = NoJob

(* A lost device is taken up here, once: the context and the texture on it  *)
(* go, and a picture the window will not make anew is developed again under *)
(* its own generation, unless a newer job is already asked for.             *)
Top ==
    LET loses == device /\ (told \/ lost # "no")
    IN
    /\ pc = "top" /\ pc' = "look"
    /\ told' = FALSE
    /\ device' = (device /\ ~loses)
    /\ shown' = IF loses THEN NoTexture ELSE shown
    /\ slot' = IF loses /\ Redo THEN Job("develop", NoFile, shown.edit, shown.gen) ELSE slot
    /\ UNCHANGED <<window, keeps, side, stopping, job, opened, base, due, askedAgain,
                   pending, lost, inbox, answered, kept, settled>>

TakeStop ==
    /\ pc = "look" /\ stopping
    /\ pc' = "stopped"
    /\ UNCHANGED <<window, queue, job, hand, pending, gpu, inbox, answered, kept, settled>>

(* A save first of all: done in one go, the loop begun again after it. *)
TakeKeep ==
    /\ pc = "look" /\ ~stopping /\ keeps # <<>>
    /\ keeps' = Tail(keeps)
    /\ KeepOpen(Head(keeps), FALSE, Hand)
    /\ pc' = "top"
    /\ UNCHANGED <<window, slot, side, told, stopping, job, hand, gpu, inbox, settled>>

(* Mutant: the fills of the develop before are left due. *)
FillsStay == due' = due

GiveUpFills == due' = NoFills

(* Then the newest open or develop.  It gives up the fills of the last; a   *)
(* save that waited is made from what is in hand if the frame or its        *)
(* develop is left, and the texture goes.                                   *)
TakeAsked ==
    LET leaving == slot.kind = "open" \/ base.file = NoFile
                     \/ ~SameDevelop(slot.edit, pending.edit)
    IN
    /\ pc = "look" /\ ~stopping /\ keeps = <<>> /\ slot # NoJob
    /\ job' = slot /\ slot' = NoJob
    /\ KeepPending(leaving, Hand)
    /\ GiveUpFills /\ shown' = NoTexture
    /\ pc' = "job"
    /\ UNCHANGED <<window, keeps, side, told, stopping, opened, base, askedAgain, gpu, inbox, settled>>

Free == pc = "look" /\ ~stopping /\ keeps = <<>> /\ slot = NoJob

FillsNext == due # NoFills /\ anyOpen

(* Any other job lets a save that waited go. *)
LetGo == pending' = NoJob /\ UNCHANGED <<answered, kept>>

(* Then what the open frame's panel waits on, then its next fill (an export *)
(* before a fill), its masks, and exports last.                             *)
Before(k) ==
    CASE k = "look"   -> {}
      [] k = "export" -> IF FillsNext THEN {"look"} ELSE {"look", "mask"}
      [] k = "mask"   -> {"look"}

TakeSide(k) ==
    /\ Free /\ k \in side /\ side \cap Before(k) = {}
    /\ k = "mask" => ~FillsNext
    /\ side' = side \ {k}
    /\ job' = Job(k, NoFile, NoEdit, 0)
    /\ LetGo
    /\ pc' = "job"
    /\ UNCHANGED <<window, slot, keeps, told, stopping, hand, gpu, inbox, settled>>

TakeFill ==
    /\ Free /\ FillsNext /\ side \cap {"look", "export"} = {}
    /\ job' = Job("fill", NoFile, due.edit, due.gen)
    /\ LetGo
    /\ shown' = NoTexture
    /\ pc' = "job"
    /\ UNCHANGED <<window, queue, opened, base, due, askedAgain, gpu, inbox, settled>>

Sleep ==
    /\ Free /\ side = {} /\ ~FillsNext
    /\ pc' = "asleep"
    /\ UNCHANGED <<window, queue, job, hand, pending, gpu, inbox, answered, kept, settled>>

-----------------------------------------------------------------------------
(* The worker: a job done *)

(* Where a walk ends: on the device, on the CPU for this picture, or on the *)
(* CPU from now on, an op having failed.                                    *)
Ends == IF device THEN {"device", "picture", "gone"} ELSE {"gone"}

(* What a round leaves: how many fills, whether a part of the edit was      *)
(* missing or failed, and whether a fill was made or failed.  The first     *)
(* round makes no fill; each later one tries one, and leaves no fewer when  *)
(* it fails for now, or when one made before lay on it and is undone by it. *)
Rounds(e, before) ==
    IF before = 0
      THEN [left : 0..Fills[e], lacks : BOOLEAN, moved : {FALSE}]
      ELSE {r \in [left : {before - 1, before}, lacks : BOOLEAN, moved : BOOLEAN] :
                IF r.moved THEN r.left < before \/ r.lacks \/ before < Fills[e]
                           ELSE r.left = before}

(* Mutant: a round that leaves no fewer fills is not the last. *)
StuckWhenIdle(r, before) == before # 0 /\ ~r.moved

(* A round of fills that made or failed none, or left no fewer: it is the   *)
(* last.                                                                    *)
Stuck(r, before) == before # 0 /\ (~r.moved \/ r.left >= before)

(* Mutant: rounds are not over when no fill is left. *)
EndedStuck(r, before) == Stuck(r, before)

Ended(r, before) == Stuck(r, before) \/ r.left = 0

(* A round of develop_round on file f from the frame kept b, for a job of   *)
(* generation g, with the fills before it (none in a first round), its      *)
(* outcome delivered.  What rounds that ended left is out of the picture; a *)
(* fill the card was short of is asked for again, once.                     *)
RoundLands(f, e, g, before) ==
    \E on \in Ends, r \in Rounds(e, before), short \in BOOLEAN :
        LET again == short /\ Ended(r, before) /\ ~askedAgain
            whole == r.left = 0 /\ ~r.lacks
        IN
        /\ short => before # 0 /\ r.moved /\ r.lacks /\ r.left # 0
        /\ base' = [file |-> f, develop |-> IF on = "device" THEN NoEdit ELSE e,
                    filling |-> ~Ended(r, before),
                    lacks |-> r.lacks \/ (Stuck(r, before) /\ r.left # 0), whole |-> whole]
        /\ shown' = IF on = "device"
                      THEN [file |-> f, edit |-> e, gen |-> g,
                            lacks |-> r.lacks, whole |-> whole]
                      ELSE NoTexture
        /\ due' = IF Ended(r, before) /\ ~again THEN NoFills ELSE [edit |-> e, gen |-> g, left |-> r.left]
        /\ askedAgain' = IF before = 0 THEN FALSE ELSE askedAgain \/ again
        /\ device' = (on # "gone")
        /\ inbox' = Append(inbox, Outcome("developed", g, f, e))

(* Mutant: a job's failure is told to nobody. *)
FailedUntold(g) == inbox' = inbox

Failed(g) == inbox' = Append(inbox, Outcome("failed", g, NoFile, NoEdit))

(* Mutant: the walk that failed leaves the base of the file before. *)
BaseStays(f) == [base EXCEPT !.develop = NoEdit]

BaseLeft(f) ==
    [(IF base.file = f /\ job.kind # "open" THEN base ELSE NoBase)
        EXCEPT !.file = f, !.develop = NoEdit]

(* The walk fails: what it kept stays, with no picture of an edit. *)
RoundFails(f, g, before) ==
    /\ base' = BaseLeft(f)
    /\ shown' = NoTexture /\ GiveUpFills
    /\ askedAgain' = (before # 0 /\ askedAgain)
    /\ Failed(g)
    /\ UNCHANGED device

(* A panic: the base in hand is not trusted, and the job's asker is told. *)
Panics(told_) ==
    /\ base' = NoBase /\ shown' = NoTexture /\ GiveUpFills
    /\ IF told_ THEN Failed(job.gen) ELSE UNCHANGED inbox
    /\ UNCHANGED <<askedAgain, device>>

Done ==
    /\ pc = "job" /\ pc' = "top"
    /\ job' = NoJob
    /\ UNCHANGED <<window, queue, lost>>

(* A save that waited for this develop: its pictures now. *)
DevelopDone == Done /\ settled' = job.gen /\ KeepPending(FALSE, Hand')

(* The file decoded is the worker's before the develop; one that cannot be  *)
(* decoded leaves the worker on the file before.                            *)
FinishOpen ==
    /\ job.kind = "open"
    /\ \/ /\ opened' = job.file
          /\ \/ RoundLands(job.file, job.edit, job.gen, 0)
             \/ RoundFails(job.file, job.gen, 0)
             \/ Panics(TRUE)
       \/ /\ opened' = opened
          /\ \/ Panics(TRUE)
             \/ /\ Failed(job.gen)
                /\ UNCHANGED <<base, shown, due, askedAgain, device>>
    /\ DevelopDone

(* A develop is of the file opened last; with none opened nothing is done,  *)
(* nor said.                                                                *)
FinishDevelop ==
    /\ job.kind = "develop"
    /\ opened' = opened
    /\ IF opened = NoFile
         THEN UNCHANGED <<base, shown, due, askedAgain, device, inbox>>
         ELSE \/ RoundLands(opened, job.edit, job.gen, 0)
              \/ RoundFails(opened, job.gen, 0)
              \/ Panics(TRUE)
    /\ DevelopDone

FinishFill ==
    /\ job.kind = "fill"
    /\ opened' = opened
    /\ \/ RoundLands(opened, due.edit, due.gen, due.left)
       \/ RoundFails(opened, due.gen, due.left)
       \/ Panics(TRUE)
    /\ DevelopDone

(* A panic in a frame of a set is that frame's own failure. *)
FinishSide ==
    /\ job.kind \in {"look", "export", "mask"}
    /\ opened' = opened
    /\ \/ UNCHANGED <<base, shown, due, askedAgain, device, inbox>>
       \/ job.kind # "export" /\ Panics(FALSE)
    /\ Done
    /\ UNCHANGED <<pending, answered, kept, settled>>

-----------------------------------------------------------------------------
User == \/ \E f \in Files : OpenFrame(f)
        \/ \E e \in Edits : Move(e) \/ Jump(e)
        \/ \E shows \in BOOLEAN : ShowEditor(shows)
        \/ \E k \in Asks : Ask(k)
        \/ Close

Timers == Rest \/ SaveRests

Take == \/ TakeStop \/ TakeKeep \/ TakeAsked \/ TakeFill \/ Sleep
        \/ \E k \in Asks : TakeSide(k)

Finish == FinishOpen \/ FinishDevelop \/ FinishFill \/ FinishSide

Thread == Top \/ Take \/ Finish

Next == User \/ Timers \/ Receive \/ LoseDevice \/ TellLoss \/ PictureGone \/ Thread

Spec == Init /\ [][Next]_vars

(* The worker's thread runs, the window's event loop turns and its timers   *)
(* fire.  Nothing is asked of the user, nor of the device.                  *)
Fairness == /\ WF_vars(Thread)
            /\ WF_vars(Receive)
            /\ WF_vars(Rest)
            /\ WF_vars(SaveRests)

FairSpec == Spec /\ Fairness

-----------------------------------------------------------------------------
(* What must hold *)

(* What the worker holds of a frame is of the file it has open: a texture   *)
(* or a picture of the frame before never outlives it, through opens that   *)
(* fail and walks that panic.                                               *)
HandIsOpened ==
    /\ base.file \in {NoFile, opened}
    /\ shown.file \in {NoFile, opened}
    /\ base.develop # NoEdit => base.file # NoFile

(* A picture kept under an edit's key is a development of that edit's own   *)
(* frame, by the walk that edit asks for: whatever was developed, left or   *)
(* opened between the save and the keeping (keep_open's guards).            *)
KeptIsTheEdits ==
    \A p \in kept : p.of = p.file /\ SameDevelop(p.develop, p.edit)

(* Opens and develops are taken newest first and never again: outcomes      *)
(* leave in the order of their generations, the job in hand and the fills   *)
(* left are no older than any of them, and what is asked for is newer.      *)
InOrder ==
    /\ \A i, j \in 1..Len(inbox) : i <= j => inbox[i].gen <= inbox[j].gen
    /\ \A i \in 1..Len(inbox) : inbox[i].gen <= settled
    /\ settled <= gen
    /\ pc = "job" /\ Developing(job) => settled <= job.gen /\ job.gen <= gen
    /\ due # NoFills => due.gen = settled
    /\ shown # NoTexture => shown.gen = settled

(* While the window shows that it is busy, its newest generation is asked   *)
(* for, in hand, or answered and on the way: it never waits for an answer   *)
(* nobody owes.  A develop asked for before any file was opened is the one  *)
(* that nobody answers.                                                     *)
BusyIsOwed ==
    busy => \/ slot # NoJob /\ slot.gen = gen
            \/ pc = "job" /\ Developing(job) /\ job.gen = gen
            \/ \E i \in 1..Len(inbox) : inbox[i].gen = gen
            \/ opened = NoFile

(* The picture on screen under the newest generation is developed by the    *)
(* walk the panel's edit asks for, unless a slider moved that has not       *)
(* rested yet.                                                              *)
ScreenIsPanels ==
    screen # NoScreen /\ screen.gen = gen /\ ~debounce
        => SameDevelop(screen.edit, panel)

(* A save of an edit whose picture is in hand has been answered, or is on   *)
(* its way: a save that waited and was let go is asked for again when its   *)
(* picture lands in the window.                                             *)
SavedInHand ==
    /\ cur # NoFile /\ opened = cur /\ ~Unsaved /\ ~stopping
    /\ screen.gen = gen /\ Landed(Keep(cur, panel), Hand)

SaveIsAnswered ==
    SavedInHand ~> (~SavedInHand \/ answered[cur] = panel)

(* The busy bar goes: the window's newest open or develop is answered,      *)
(* however many came before it.                                             *)
BusyEnds == (busy /\ opened # NoFile) ~> (~busy \/ stopping)

(* The rounds of fills end by themselves while the editor shows the frame,  *)
(* whatever a model fails or a fill undoes.                                 *)
FillsEnd == due # NoFills ~> (due = NoFills \/ ~anyOpen \/ stopping)

(* The thread ends once the editor leaves. *)
StopEnds == stopping ~> pc = "stopped"

(* What the window is promised of its asks. *)
Newest == INSTANCE NewestWins WITH
    asked   <- gen,
    taken   <- IF pc = "job" /\ Developing(job) THEN job.gen ELSE settled,
    settled <- settled,
    left    <- stopping

NewestWins == Newest!FairSpec

-----------------------------------------------------------------------------
(* What the repository says, and the code does not do *)

(* A develop that lands for a frame no longer selected is thrown away: the  *)
(* picture on screen under the newest generation is the open frame's.       *)
ScreenIsCurrentFrame == screen.gen = gen => screen.file = cur

(* A picture without something its edit asks for is not kept under the      *)
(* edit's key, rounds of fills that ended with fills left among them.       *)
KeptIsWhole == \A p \in kept : p.whole

(* A save is answered at the latest when its frame is left. *)
LeftIsAnswered ==
    \A f \in Files \ {cur} :
        \/ answered[f] = saved[f]
        \/ pending.file = f
        \/ \E i \in 1..Len(keeps) : keeps[i].file = f

(* The ops go to the CPU once the worker is told that the device is lost:   *)
(* it is not asleep with the loss still to take up.                         *)
LossIsTakenUp == ~(pc = "asleep" /\ told /\ device)
=============================================================================
