# greycard in TLA+

Specifications of the concurrent core of greycard (a raw photo editor in Rust,
sixteen crates) and of the copies its machines share, model-checked with TLC, with the main theorems proved with
TLAPS. `PROJECT.json` maps every definition to the lines it was translated
from, lists the runs, the mutants that show each property can fail, the
hazards the properties are for, and the disagreements found between the code
and its own documents.

## 1. The system

`docs/architecture.md` in the repository is the map of the crates. What matters
here is which threads there are, what state each keeps, and what they send one
another.

| Part | Code | State it keeps | Operations | Hard because |
|---|---|---|---|---|
| Window | `greycard-ui/src/panel/{browser,edit,history,deliver}.rs`, `edited.rs` | the open frame, the panel's edit, sidecars, the newest generation, debounce and save timers, the picture on screen | open, move a slider, undo, turn, save, to the grid, quit; receives outcomes | timers fire after the frame they were started for was left; answers arrive late |
| Worker's queue | `greycard-engine/src/worker/handle.rs` | one slot for the newest open or develop, saves (one a frame), flags and queues for the rest | `send`, `stop`, `gpu_lost_teller` | the slot is overwritten; what is lost by that? |
| Worker thread | `worker/{engine,develop,keep}.rs` | decoded file, base kept from the last walk, texture on screen, fills left, a save that waits, the GPU context | one job at a time in an order of its own | jobs fail, panic, lose the device, and leave parts of the last one in hand |
| Edited pictures | `edited_pictures.rs`, `worker/keep.rs` | which frames are edited and under what key; a keeping thread with one waiting place; marks of what is being made | note, hold, read a key, settle, reset, store | five threads, each in several locked sections |
| Reduced develops, thumbnail pool, previews | `reduced.rs`, `thumbpool.rs`, `previews.rs` | what was tried, what waits for a model; the pool's queues | make, want, forget, hold | run behind the window's develop, must give way |
| Prefetch and shelf | `worker/prefetch.rs`, `worker/shelf.rs` | the neighbors' due list, bases under a budget | make a neighbor's base, put, take, fit | memory reservation against the reduced develops |
| Export queue | `queue.rs`, `worker/export.rs`, `export_queue.rs` | sets, tallies, names taken | run, cancel, claim a name | cancel against the frame in hand |
| Edits and sidecars | `greycard-edit/src/{sync,meta,line,sidecar}.rs` | a frame's line of states, each with an id hashed over the one before; its meta, each field with the save that set it; the saves, and the ones absorbed in joins | record, undo, save, compare and join two copies, migrate | lines capped, undone and joined before are joined again; clocks are skewed; both machines must make the same join |
| Library | `greycard-library` | SQLite index, roots, thumbnail cache, carried copies | index, carry, evict | copies moved under the index; crashes between two files |
| Archive and sync | `greycard-ui/src/{archive,sync,carry}.rs`, `greycard-library/src/{lib,sync_note}.rs` | per frame: one queued write, one job out; in the index: pending rows, what was last written on each copy and its size and mtime | write through, check, settle, catch up, retry, note at quit | a job reads, checks, writes and records in steps, while the window saves, the user leaves, the archive goes, the window closes or another machine writes |
| Instance, GPU marker | `instance.rs`, `gpu_marker.rs` | a lock and a socket; a marker file | hand a launch over; read after a crash | races of two launches |
| Image processing | `greycard-core`, `-render`, `-gpu`, `-lens`, `-match`, `-ai` | none shared | pure functions on pictures | numeric; not TLC's subject |

How they interact: the window calls `Worker::send`, which takes the queue's
lock, changes one field and notifies. The worker takes a job under that lock,
does it without the lock, and calls `deliver`, which posts an `Outcome` to the
window's event loop. A save's pictures are made on a third thread from what the
worker has in hand. The thumbnail pool's threads read which frames are edited
and make the rest. The device-lost callback runs on whichever thread finds the
loss.

A save of a frame also goes to its copy on the archive, behind the save: the
window queues a write, a thread of its own notes it in the index, looks at the
copy, and writes it, or hands what it found there back to the window, which
compares it with what it holds by then, takes it, or joins the two. Nothing is
locked between machines: each finds out from the copy itself, by its stat and by
the revisions in it, what the others did.

Prefetching is the one place where the worker and the thumbnail pool meet: the
idle worker raises a flag, counts what the pool has in hand, and makes a
neighbor's base only when nothing is; the pool's threads read the flag under a
lock of their own before they begin a reduced develop.

What makes each part correct:

- **Worker, queue and window**: the newest ask is done and answered, older ones
  never come back, the busy bar always has an answer coming, what is on screen
  is the panel's, what is kept under an edit's key is that edit's picture of
  that frame, rounds of fills end, a quit ends the thread.
- **Prefetch and reduced develops**: never both at once, neither starves the
  other, no wake is lost, a neighbor is of the frame it was sent with, its base
  is one an open would take.
- **Edited pictures**: a frame never shows a picture of an edit it no longer
  has once the newer is kept; a reset or a rewritten sidecar is not undone by a
  store that was under way.
- **Thumbnail pool**: no frame is in two threads' hands; what was forgotten is
  never delivered as of the new folder; what is near is made in the end.
- **Shelf**: within its budget; a base taken is one the edit would make.
- **Export queue**: no two exports write one name; a canceled set stops; every
  frame is tallied once.
- **Archive**: no write takes off the copy what it holds, no settle takes off a
  local file what was saved in it; what is recorded of the copy is true of it; a
  save that has not gone is known to be owed, through a crash, a quit or a job
  lost, and goes in the end.
- **Edits**: two machines join the same two copies into the same sidecar; an edit
  is lost to nothing but the cap, in its order; the other machine's edit is one
  undo away; a join repeated adds nothing; a value set from another does not
  give way to it again; copies converge.

## 2. The modules

| Module | What it is |
|---|---|
| `Worker` | the worker thread, its queue, and the editor window's asks and answers |
| `NewestWins` | what the worker promises of the asks, in four actions; `Worker` implements it under a refinement mapping |
| `MCWorker` | the frames, edits and fills of the runs |
| `WorkerProofs` | theorems of `Worker` |
| `Prefetch` | the idle worker's prefetch, the reduced develops of the pool, the reservation between them, and the window as far as it moves either |
| `MCPrefetch` | the strip of the runs |
| `PrefetchProofs` | theorems of `Prefetch` |
| `SavesSpread` | what machines that share an archive promise of a frame's saves, in four actions; `ArchiveSync` and `Copies` each implement it under a mapping of its own |
| `ArchiveSync` | one frame's sidecar on several machines and on an archive: when each is written and taken |
| `MCArchiveSync` | its instances |
| `ArchiveSyncProofs` | theorems of `ArchiveSync` |
| `SidecarJoin` | two copies of a sidecar compared and joined, as operators |
| `SidecarJoinProofs` | what those operators keep of any two lines, as lemmas |
| `SidecarCapProofs` | what the join's cap takes, and in which order; joins of a copy seen before |
| `Copies` | machines that edit, undo, rate and meet at an archive: what is in each copy |
| `MCCopies` | its machines, looks and clocks |
| `CopiesProofs` | theorems of `Copies` |
| `InductionFacts` | recursion up to a bound, induction and ranks in a finite order, as facts about sets: the provers cannot instantiate the library's, which take an operator |

### Worker

*State.* The window's variables are `State`'s (`cur`, `panel`, `gen`,
`debounce`, `busy`, `screen`) and the sidecars (`saved`). The queue's are
`Queue`'s fields: `slot` is `develop`, the one place an open and a develop
share. The worker's are the locals of `run`: `opened`, `base` (what the last
walk kept, `FrameKept`), `shown` (the texture, `ShownTexture`), `due`
(`FillsDue`), `pending` (a save that waits). `inbox`, `answered` and `kept` are
what left it. `settled` is a history variable: the generation last done with.

*Actions.* A handler of the window is one action with all it sends (open a
frame: save the frame left, send the open). The worker's turn is three: `Top`
(the loop's head, where the loss of the device is taken up), `Take` (under the
queue's lock: one job in the code's order, or sleep), `Finish` (the job's work
and all its tail: outcome, fills left, the waiting save). Between them any
window handler may run, and so may the device's loss. A walk is modelled by
what it leaves: on the CPU or the device, with fills made, failed, undone or
still to make, or a failure, or a panic.

*Abstracted.* An edit stands for the edit with the frame's quarter turn, a
frame for a file with its version. Two edits are the same develop when
`same_develop` says so; `DevelopOf` gives the classes. Whether the keeping
reads its file back, and whether a walk ends on the device, are choices. The
keeping thread takes what it is handed at once, and what it kept may vanish at
any time (`PictureGone`: evicted, cleared), so keeping is asked for again.
Culling, the lens database, models and their settling timers, people on other
frames, thumbnails and a panic inside `keep_open` are left out.

### Prefetch

*State.* `open`, `idle` and `prefetching` are `Edited`'s `open`, `touched` and
`prefetching`, read by the worker and the pool with none of their locks held
against the other. `slot`, `others`, `neighbors`, `changed` are the queue's;
`lock`, `limit`, `edits`, `edits_busy`, `edits_alone` the pool's; `at` says
where each pool thread is, `"waiting"` on its condition variable or `"timed"`
on it with a timeout; `may` is what `at_once` told the thread that looks.

*Actions.* A section under the queue's lock that takes the pool's lock is
split where it does: `Look`, then `Settle` or `Reserve` and `Count`;
`SendOpen`, then `QueueOpen`. `QueueFree` and `PoolFree` say who holds which.
Leaving the editor is four steps, as in `set_open_frame`: the neighbors let go,
no frame open, the pool woken, the worker told. A pool thread's turn is
`LookAt` (it takes the lock and asks how many may be in hand) and `Begin` or
`Rest`. A wake is of one thread chosen freely (`notify_one`) or of all.

*Abstracted.* A base is made in `Stages` stages with an ask before each.
`idle` has three values: busy, quiet, quiet for longer; the quiet that doubles
with each give-way goes from the first to the second. Whether the shelf has
room for two bases is a choice at each look, and the shelf holds the
prefetched bases only. The queue's word on the open landed and the worker's
are one variable. The flag, the open frame and the quiet that the pool's
`at_once` reads one after another are read in one step, and so are the wake,
the `touch` and the slot of a send. Reduced develops are known by whether they
run alone (under a network root). Thumbnails, previews, the pool's hold, a save
that waits, and two environment variables for measurement are left out.

### ArchiveSync

*State.* Per machine: `window` (whether it is open, and its index reader too),
`listed` (whether the frame is among `State.files`), `mem` (`State.sidecars`, of
the frame once its sidecar is read), `file`, the index's `row` (`pending`) and record (`archive_writes`: `wrote` is its revision,
`stat` whether its size and mtime are those the copy has), and `Sync`'s
`deferred`, `queued`, `in_flight` (`job`) and `caught_up`. Shared: the `copy`,
and whether the archive `answers`. A sidecar is who saved it, the number of the
save and the set of sidecars it went on from, which is all that `compare` reads
of a sidecar with revisions; a join is the same on every machine.

*Actions.* The job is split where another thread, machine or the archive may
come between: the row noted, the look, the sidecar loaded (and settled), it kept
beside the frame, the copy checked and read, the write, the record. The
window's handlers are whole: a landing with the settle or the next write it
sends, a quit with its save and the rows it notes. A folder is listed from the
index's rows: the frame stands in (`StandsIn`: `from_row` not `read`) until the
user does something that needs the sidecar, and only then is it the window's to
write (`Held`: `file_writable`). `Read` is that read and its landing; `Turn` leaves
the folder, or lists it again, standing in once more. So a landing that has
something to settle finds one of three: a frame held, settled in place; one not
listed, settled by a job; one standing in, of which nothing is settled
(`settle_held`, sync.rs:1511-1519). `JobLost` is a job's panic or
its thread gone; `Crash` ends a process at any step.

*Assumed away with `Gap = FALSE`.* The stat check and the rename over the copy
are not one step in the code, nor the rename and the stat recorded; the
repository says so and accepts it (`docs/notes/233`, and `check`'s doc). The
runs and two theorems hold those steps together, so that what they show is not
about that window of a few milliseconds; `Gap = TRUE` opens it. So does it the
other one: between a sidecar's read, on a thread, and its landing an export may be
recorded in the file (rows.rs:839-846), and `Read` then brings an older sidecar.

*Left out.* A frame followed on the archive while its local root is away
(`follow_offline`, `bring_home`, `write_followed_at_quit`), copies that cannot be
told apart, a frame moved or deleted (`gone_or_moved`), one held
for a delete (not written, as a row standing in is not), a sidecar read again after
an import, a read that fails, XMP, sidecars with no
revision, a thread that cannot be started, an index that cannot be written, more
than one archive (each is written in turn), and the caps of 200 revisions and 64
absorbed hashes.

### SidecarJoin and Copies

*Values.* A state's id is a hash over the id before it, the edit and the label;
here it is the sequence of those, so ids are equal when and only when the code's
are. A save's hash is a number handed out per content (`minted` keeps what each
is of), ordered by `HashRank`, since ties are broken by the hex. A line is its
states in order, the current last. Of the meta there is one field, the rating.

*Operators.* `join_line` is followed rule by rule: `CappedAway` (ii), `Matches`
(iii), `Walk` with what is shared, capped away, dropped as a repeat or the older
copy's own (iv), `Room`, `Branched`, and `CapJoin` with its kinds in turn. A loop is
a recursive function of how many steps it has made, from what it began with, so
that the lemmas can speak of each step. One rule never
fires: the older copy's current recorded "where it stood" (sync.rs:952-962)
needs `said` to be false of a current that is not the branch's own, and such a
current is in the newer copy by id or content, or was dropped because its edit
stands there under a reconciled label. It is modelled all the same.

*Actions of Copies.* A change and its save are one action (`Edit`, `Undo`,
`Rate`), as are a join and its save (`Settle`); `Push` and `Take` are the two
ways a copy goes over another whole. That the writes are not lost, and when they
are made, is `ArchiveSync`'s. `aside` is a history variable: the edits that an
undo or a cap has put out of some line.

*Left out.* Snapshots, export records, versions (joined by id, each line as
here), the other meta fields (joined as the rating is), the redo stack, which is
the session's, a jump in the log, copies saved by builds without ids or
revisions, the save count, and the caps of revisions and absorbed hashes.

### SavesSpread

*What it says.* Each place, a machine's copy or the archive's, knows a set of
saves. A save adds one of its own, a take or a join what is or was on the
archive, and what a machine puts on the archive it knew itself. So no place
forgets a save, and none has one that did not reach it through the archive.

*Why two modules implement it.* `ArchiveSync` takes a sidecar for the set of
saves it knows and asks when it is written, through jobs, crashes and
outages; `Copies` writes whole copies and asks what is in them, with the lists of
revisions, the absorbed hashes and the stamps that `compare` and `join` read. That
each is seen as the same machine of saves is why the one may leave the
contents out and the other the jobs. In `ArchiveSync` the file is what a
machine knows, and it holds with the frame listed as long as its window is open; in `Copies` it
is the lineage of the copy. `compare` looks only the latest save up in a
lineage: that whoever knows it knows the rest (`AheadKnowsAll`,
`LineageHonest`) is what each mapping rests on.

## 3. Runs

Two frames are enough for "the frame before" and "the frame now", for which
nothing in the code tells more apart; only what waits beside a frame takes a
third, since the neighbor of one of two frames is always the other. Three
generations are enough for one in hand, one in the slot and one newer.
`MaxActs` bounds the user's acts (a return to the frame left is not one of
them: each needs a leave, which is), and nothing bounds the worker, the
timers, the device or the pool.

| Run | Bounds | Shows |
|---|---|---|
| `Worker_safety` | a device that may be lost at any step, and the CPU after it; 3 edits, 1 fill; look, export and mask jobs; 3 acts | types; a busy window is owed an answer; the screen shows the panel's develop; what is in hand is the open file's; what is kept is the saved edit's; generations in order |
| `Worker_liveness` | device; 2 edits, 1 fill; 2 acts | the busy bar goes, fills end, a quit ends, a save is answered; `Worker` implements `NewestWins`, liveness included |
| `Prefetch_safety` | 4 threads (two at once needs four), 2 reduced develops, 2 acts | types; never both; alone is alone; no wake lost; the reservation holds; no sleep under it |
| `Prefetch_rounds` | 3 frames, 2 threads, 2 acts, exports and pictures | what waits is beside the open frame; prefetches that give way end |
| `Prefetch_liveness` | 2 threads, 1 reduced develop, 1 act | the reservation is let go; reduced develops are made |
| `Archive_held` | 2 machines, 2 saves each, each window closed or crashed once; the archive may be away at first; the frame listed throughout, standing in or read | types; lineages honest; a job's row stands; the record is true; `ArchiveSync` implements `SavesSpread` (neither the copy nor a file loses a save) |
| `Archive_turns` | 2 machines, 1 save and 1 turn each, 1 outage, 1 job lost | what is saved is owed until recorded; rows clear and saves arrive, but for what section 4 names |
| `Join_copies` | 2 machines, clocks a second apart; 3 and 2 changes; lines of 4 states | the seven properties of a line and of a join; a copy ahead knows all; nothing leaves the archive unless put aside; copies converge; `Copies` implements `SavesSpread` |

Two machines make every pair of copies; a save on each and one on top is the
shortest way apart and back, so two saves each also have one behind a write
still out. Three earlier states in place of fifty are the least in which a cap
has a shared state, one of each copy's own and a repeat to choose from, and five
changes are enough for each rule of the walk and of the cap to fire (each was
seen to, by an invariant that says it does not). `Archive_held` has no outage after the first and no
job lost, which `Archive_turns` has; what it checks is proved for any number of
both (section 5). The machines of `Archive_held` are interchangeable; those of `Copies` are ordered by name and clock.

One fill is the shortest chain of rounds, two the shortest in which a fill can
undo another; one act before another is the shortest race of an open with a
develop. Frames, and the pool's threads, are interchangeable: symmetry is used
in the runs of invariants, and of `ReservedIsNext`, which speaks of no frame or
thread, but not in the runs with liveness. Deadlock is not checked: both
systems stop when the user does, and `Worker` when its thread ends.

*Disagreements found.* Four runs end in a violation, each of a sentence of the
repository's own; `PROJECT.json` quotes them under `findings`.

| Run | What happens |
|---|---|
| `Worker_stale` | a develop overwrites a queued open, so the frame before is shown as the new one |
| `Archive_settle` | a settle of a frame let go of records an older sidecar with the stat of a newer one, which the next write then goes over unread |
| `Archive_quit` | a job that outlives its window's close clears the row noted for the save after its own |
| `Join_rating` | a rating that was cleared comes back, by way of a copy that never had one |

Others met on the way have a property in their module, and no run of their own.
Each is violated under the run named with the constants changed as given (and no
symmetry):

| Property | Run, changed | What happens |
|---|---|---|
| `KeptIsWhole` | `Worker_safety`, `Edits = {Neutral, Healed}`, `Fills <- MCFills`, `Asks = {}` | rounds of fills that end with fills left keep a picture without them, on a device |
| `LeftIsAnswered` | the same, `Device = FALSE` | a save that waits for its fills is dropped at the next fill (engine.rs:511); leave the frame and nobody answers it |
| `LossIsTakenUp` | as for `KeptIsWhole` | a loss told to a sleeping worker is not taken up until the next job (engine.rs:175, 431) |
| `WaitingIsSent` | `Prefetch_safety`, `Threads = {T1, T2}`, `Files = {A, B}`, `Beside <- Two`, `Asks = {}`, `MaxEdits = 0`, `MaxActs = 4` | a neighbor that gave way goes back into a list that no longer names it (engine.rs:393) |
| `ShelfServes` | the same, `MaxActs = 2` | between the change of an edit and the list sent again the old neighbor is begun, and its base shelved |
| `SavesSpread`, `FileKeeps` | `Archive_held`, `MaxTurns = 1`, `MaxCloses = 0` | a settle on a job's thread lands over a save made since it loaded (sync.rs:1612 says nothing else for the frame runs beside it) |
| `FileKeeps` | `Archive_held`, `Gap = TRUE` | a read lands after an export was recorded in the file, and the next save goes over the record (rows.rs:843-846 guards reads of another list only) |
| `Covered` | `Archive_turns`, three machines, `MaxSaves = 3`, `MaxTurns = 2`, `MaxOutages = 1`, `MaxCloses = 1`, `MaxLost = 0` (too many states to search: along the schedule below) | a save goes over the join a settle left in the file, is recorded, and nothing owes the join |
| `RowsTaken` | `Archive_turns`, `MaxOutages = 0`, `MaxTurns = 0`, `MaxLost = 0` | a write finds the copy not behind and lands for a frame standing in: it is not settled, and the archive counts as caught up, so its row waits with no one to take it up; nor does a look after an outage end it, which sends the row from disk to be refused again. `settle`'s doc (sync.rs:1468-1471, and 1512-1514) has such a frame settled on a job, 1516-1517 has the next save or catch-up take it |

`RowsTaken` fails in one more way, with an outage: a write whose record finds the
archive gone leaves its row, and nothing makes it due again (sync.rs:1140, 1177).
`RowsClear` and `SavesArrive` hold with the first excepted by name (`Refused`), and
`RowsClear` with the second too (`Unrecorded`).

The schedule of `Covered`, 88 steps, follows from `Archive_settle`. B's window crashes
with its save `s` written and not recorded; A joins `s` with its own into `b` and
writes it; B, back and away from the frame again, settles `b` on a job's thread, and
before it records C writes `c`, a join of `b`, over it: B's record of `b` has the
stat of `c`. B has saved on disk meanwhile; the settle goes over that save
(`FileKeeps`), so the write queued for it carries `b`. A, away, saves on disk and finds
`c`, and while its job joins it the user comes back, has the frame read and saves `x`:
the join goes over `x` in the
file, `x` is queued. The archive goes before the join is written, and comes back; B
writes `b` over `c` unread; A's `x`, which knows `b`, is written and recorded. The
join is in A's file, not on the copy, and no row or write is left for it.

Two more came of the proofs of `Copies`, which say less for them than the code's
comments do:

- *What is shared.* The cap takes "the shared states after the first, since both copies
  have them" and the newer copy's own "only when a newer branch is itself longer than
  the cap" (sync.rs:979-983). The walk takes a state for shared, by its content, with all
  that stands before it in the newer copy. With `History = 4`, an older copy of edits
  0, 1, 2, 3, 4 and a newer one of 0, 9, 1, 2, where 1 and 2 were recorded apart, join
  into 0, 2, 3, 4, 2: the newer's own 9 is gone and the older's 3 stays. `CapKeepsOwn`
  says it of the states that are not in the other copy and that the ids do not show
  it to have had, and of shared states that are so by their id.
- *How long a line is.* No state with the kept one's id goes (sync.rs:1001), and a line may hold an
  id twice: an undo after a join, and the same edit again, make the same id once more.
  So a join may stay over its cap. `TypeOK` says how: it then holds three states at
  most, some more than once.

## 4. Fairness

`Worker`: weak fairness of the worker's thread, of the event loop's receipt of
outcomes and of the debounce and save timers. Each is a thread or a timer of
its own that nothing disables while it waits. The user and the device are not
asked for anything. `Top`, `Take` and `Finish` are one fair action: a thread
that runs makes its next step, and which outcome a walk has stays free, so a
model that fails each time is among the behaviours `FillsEnd` is checked on.

`Prefetch`: time passes (`WF` of `Quieten`); the threads are fair in the strong
sense, since each waits for locks that others take over and over, and a
`std::sync::Mutex` that is free again and again is had in the end. A timed wait
ends (`TimeOut`, `DozeEnds` are steps of their threads). The user is not fair:
`EditsEnd` and `NeighborsEnd` hold because the user acts a bounded number of
times, and would not if a slider moved for ever.

`ArchiveSync`: weak fairness of each machine's job, its window's landings, its
looks at the roots and its index reader, of the process's end after a quit, and
of the archive's return: threads of their own, a poll, and the assumption that
an archive that never comes back owes nothing. Nobody has to save, have a sidecar
read, come back, quit or press retry: `Read` and `Turn` are the user's.
`SavesArrive` and `RowsClear` say what becomes of a write due, and end where the
code lets go of it (`LetGo`): the window closed, a job lost, or the write refused for
a frame standing in. `RowsClear` ends also where a write was not recorded
(`Unrecorded`); the save has reached the copy by then.

`Copies`: every machine meets the archive again and again (`Push`, `Take` and
`Settle` weakly fair). The fairness of `Settle` is written out, with `Apart` for
its enabledness, since TLC would make the whole join to find that out.

## 5. Proofs

`tlapm` checks the seven proof modules. The only assumptions are
`EditsAssumption`, `ThreadsAssumption`, `ArchiveAssumption`,
`CopiesAssumption` and `HistoryAssumption` (kinds of the constants; finitely
many threads; no frame is "no frame"; a line has room for one earlier state), which TLC evaluates
in each run, and those a theorem states itself. They put no bound on frames,
edits, fills, threads, acts, reduced develops, machines, saves, clocks or caps.

`WorkerProofs`:

- *Types* (`TypeCorrect`). The inductive part beyond `TypeOK` is `Fillable`:
  fills are left only of an open file, and a fill in hand is the next of them.
- *In hand* (`HandCorrect`, inductive with the types) and *kept*
  (`KeptCorrect`, from the guards of `keep_open` and `HandCorrect`).
- *Order* (`OrderCorrect`). `InOrder` alone is not inductive. It needs that the
  slot holds the newest generation (`SlotIsNewest`), that an open or a develop
  in hand has no fills or texture of an earlier one beside it (`AskedAlone`:
  taking one clears them), and that the newest generation is in the slot, in
  hand or done with (`NewestAsked`).
- *Owed* (`OwedCorrect`). By cases on who owes the newest generation its
  answer; a develop with no file opened is the named exception.
- *Screen* (`ScreenCorrect`). That the picture on screen is the panel's needs
  the same of all an edit goes through on its way there (`PanelInv`: the slot,
  the job, the fills left, the texture, the outcomes posted): what is made under
  the newest generation is of the panel's develop, or a slider's debounce is
  running and will ask again.
- *Refinement* (`NewestSafe`). Initial states map to initial states, and each
  step, under `OrderInv`, to a step of `NewestWins` or a stutter.

`PrefetchProofs` proves an invariant `Inv` and reads four theorems off it, then a
second, `Lists`, with three:

- *Never both* and the *reservation* (`NeverBothCorrect`, `ReservedCorrect`).
  `Claimed` carries them: once the pool was counted with the flag up, whoever
  holds the pool's lock was told that none may be begun. A look begun before
  the flag was raised still holds the lock while the worker waits to count, so
  the count sees what it begins. This is why the count has to take the lock: a
  mutant that reads it without is refuted.
- *Alone* (`AloneCorrect`). `AloneIsSaid` ties the flag to the threads.
- *Wakes* (`AwakeCorrect`). When nothing holds the pool back and a reduced
  develop could begin, one thread is awake (`OneAwake`). To keep that when a
  thread begins one of two, two have to be awake while two may begin
  (`TwoAwake`); to keep *that* when a third is wanted, `notify_one` must not
  reach a thread counted already, which it could if one waited with a timeout
  (`NoneTimed`: with no frame open and nothing held back none does).
- *Types* (`TypeCorrect`), with the lists the strip may show of any frame.
- *Waiting* (`WaitingCorrect`). `WaitingIsBeside` needs that the neighbor in
  the worker's hand is beside the frame of the open that landed as long as no
  other was sent (`Popped`), and that nothing is of an open not yet sent
  (`Sent`); the one that gave way goes back only into the list it was taken from.
- *No sleep* (`NoSleepCorrect`): the reservation is settled before the worker
  waits (`Settled`).

`ArchiveSyncProofs`:

- *Types* and *rows* (`TypeCorrect`, `LeavesRowCorrect`). Per machine
  (`MachineFine`): a closed window has nothing out, and a job past its first
  step has its row.
- *Lineage* (`LineageCorrect`). Inductive as it stands, given that each sidecar
  a machine carries is one of `Everywhere`'s or none: a save and a join add to
  what they know, everything else moves a sidecar whole.
- *The file* (`FileKeepsHeld`), for windows that list the frame as long as they are
  open, and reads that land as the file is. The settles compare with `mem`, and write
  `file`: they are the same sidecar once the window has read it (`HoldsFile`), and no
  job settles into it then (`NoTurns`), since a frame standing in is not settled.
- *Owed* (`CoveredHeld`), under the same two assumptions. `Tended`, per
  machine with its window not closed and no job lost so far: what waits for the index
  reader, in the queue and in the job is the file's sidecar, or a later one is
  behind it; and once no job is out the file is recorded, noted or waiting. A
  crash, or a job lost before its row, does lose what is owed, and a row noted at
  a quit may go (`Archive_quit`): `Covered` names these.
- *The record* and *the copy* (`RecordIsTrueHeld`, `CopyKeepsHeld`), with `Gap`
  shut: `Undisturbed` says that a job past its check carries a sidecar that
  knows the copy's, that one about to record carries the copy itself, and that
  at most one job is there. The mutant that takes a copy not ahead for one
  behind is refuted at the check.
- *The saves* (`ArchiveSpreads`), as for the copy. A write puts on the copy what
  a job loaded steps ago, and the abstract `Put` takes only what the machine
  knows now: `AllCarried` says that what is deferred, queued and in a job is of
  saves the file still holds, and that what a settle carries back was on the copy,
  which holds it still. So the settle, compared with what the window has by
  then, is a `Take` or a `Join`.

`SidecarJoinProofs` says of any two lines what each part of `join_line` keeps:

- *The walk* (`WalkWalks`, from `MetCases`, one for each rule): at every step
  what was walked past is in the newer copy, put on the branch, or gone at the
  cap of one copy already, so no edit of the older copy is lost to it.
- *Repeats and the cap* (`DropRepeatsFacts`, `DropInTurnFacts`, `CapJoinFacts`).
  A repeat is dropped only between two states that stay, so the edits stand; the
  cap drops until the line fits and takes neither the last state nor the one
  kept. `RoomFacts` and `BranchedFacts` put the older copy's current where that
  one is.
- *A join* (`JoinedFacts`): all of it together, with the newer current last.

`SidecarCapProofs` says what the cap of a join is given and what it leaves:

- *Entries* (`JoinedEntries`, `KindsAreTurns`): of a join's line before its cap, which
  state is the first, shared, capped away, the older copy's, the newer's or a
  currents' record, and that an id stands for one edit (`IdTellsEdit`).
- *In turn* (`LeftInTurn`, `CapJoinWithin`): while a state of one kind is left, none of
  a later kind has gone; the repeats go first, and those have their edits elsewhere.
- *Few* (`AtMostThree`, `FewAreLeft`, `JoinLineFew`): what is left of a line still over
  its cap is the first state, the states with the kept one's id, and the join's last.
- *Seen* (`SeenIsKept`): with a copy it knows the latest save of, a line within its
  cap joins into itself.

`CopiesProofs`: `CopyInv` says of every copy that a save it knows was made
before its latest one and has its edits there still, or put aside (`Knows`),
that its latest save is stamped by its host's clock, earlier than now
(`Stamped`), and that it has the states that save's hash is of (`Hashed`); that
a hash is made after those it names (`Grounded`); and that no two copies
with one latest save differ. The last needs
`Stamped`: a save's stamp is later than any its host has given, so none is made twice.

- *Agreement* (`JoinsAlwaysAgree`). Of two copies apart one is the newer from
  either side, so both machines join them alike. `RanksTell` is its one
  hypothesis: hashes are ordered and no two are equal in that order, as strings
  are.
- *What a join keeps* (`OnlyTheCapLoses`, `AlwaysOneUndoAway`): from `JoinedFacts`,
  whose hypotheses the invariant gives.
- *A join goes ahead* (`JoinsGoAhead`): its hash is made after both it absorbs
  (`Grounded`), and neither copy knows a save later than its latest (`Knows`).
- *The cap's order* (`CapAlwaysKeepsOwn`, from `JoinKeepsOwn`): a state that only one copy
  ever had is of that copy's kind (`NewerOwnLast`, `OlderOwnNext`), one with an id both
  have is shared (`SharedIdsGo`), and `LeftInTurn` does the rest.
- *Types* (`CopiesTyped`): with `CopyInv`, `ShortInv` is inductive: the rating was set by
  a save the copy knows, and the line is within the cap or holds three states at most.
  A change caps its line; a join of two lines, of any length, leaves the cap or
  `FewStates`; the rest moves a copy whole.
- *Once more* (`RejoinsAlwaysTheSame`): the join knows the saves of both copies, so
  none of them sets its rating anew (`RatingHolds`), and each is seen (`SeenIsKept`).
- *Kept or put aside* (`AlwaysKeptOrPutAside`): a machine pushes only over a
  copy whose latest save it knows, and `Knows` with `Hashed` say what that is worth.

- *Ahead knows all* (`AheadAlwaysKnowsAll`): `KnownInv`, with `CopyInv`, says that a
  save knew the one before it, those its join absorbed, all they knew and no
  other (`Honest`), and that a copy knows its latest save, what that one knew and no
  other (`Rooted`): the latest alone tells the rest.
- *The saves* (`CopiesSpread`): with it a push is a `Put`, since what is written
  over is known, a take a `Take`, and a settle's save a `Join`, since a join's
  lineage is that of both.

TLC checked each inductive invariant on the runs' instances before it was
proved.

*Left to TLC*:

- Everything under fairness (`BusyEnds`, `FillsEnd`, `StopEnds`,
  `SaveIsAnswered`, the liveness of `NewestWins`, `ReservationEnds`,
  `NeighborsEnd`, `EditsEnd`, `RowsClear`, `SavesArrive`, `Converges`), which the
  provers do not do.
- Of `ArchiveSync`, `Covered` with turns away from the frame: TLC finds no violation
  with two machines, but there is one with three (section 3), so no theorem says it.
- Of `Copies`, `Converges`, and `RatingStands`, which is not so in general: see
  `Join_rating`.

## 6. Not modelled, and the plan

In this order, the most of the remaining behavior first:

1. **EditedPictures** (`edited_pictures.rs`, `worker/keep.rs`, `reduced.rs`
   from line 670, `ui/edited.rs`): which frames are held as edited and under
   what key, the keeping thread's one waiting place, marks of what is being
   made, resets, and late stores. Abstract specification: a map from frames to
   the newest key settled. Theorems: a store is under the key of what was
   made; a mark is let go by who took it.
2. **ThumbPool** (`thumbpool.rs`): the queues of missed, far and near files,
   epochs, `making`, holds and limits. Theorem: a frame is never in hand twice.
3. **Shelf** (`worker/shelf.rs`): put, take, drop, fit, least recently left
   first. Theorem: within the budget.
4. **ExportSet** (`queue.rs`, `worker/export.rs`, `export_queue.rs`): sets,
   cancel, tallies, names claimed.
5. **Copies**: the jump in the log, snapshots and versions; what a join over its
   cap is when it is made once more.
6. **Carry** (`greycard-library/src/{carry,held}.rs`, `ui/archive.rs`): whole
   folders backed up, moved and brought back, a crash between the two files;
   a frame followed on its archive (`follow_offline`, `bring_home`).
7. **Instance, GpuMarker, ThumbCache**: hand-off of a launch, the marker after
   a crash, eviction against pictures being made.

Image processing, shaders, models, parsers of other tools' files, SQL and
layout are out of TLC's reach or hold no protocol; `PROJECT.json` lists each
with its reason.
