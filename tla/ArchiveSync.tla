---------------------------- MODULE ArchiveSync ----------------------------
(***************************************************************************)
(* One frame in two places (greycard-ui/src/sync.rs): every machine keeps  *)
(* the frame's sidecar beside its local file, and writes each save through *)
(* to the frame's copy on a shared archive, behind the save: a queue of    *)
(* one write (the latest), a job on a thread of its own, a pending row in  *)
(* the machine's index for what has not gone, and a record there of what   *)
(* was last written, which the next write is checked against.              *)
(***************************************************************************)
EXTENDS Naturals, Sequences

CONSTANTS Machines,    \* the machines that share the archive
          Everyone,    \* who made the sidecar every place starts from, and the joins
          Nobody,      \* who made the sidecar that is not there
          Gap,         \* whether anything else may touch the copy between a job's check and its
                       \* record, or an export a sidecar between its read and its landing
          MaxSaves,    \* how many saves each machine makes
          MaxOutages,  \* how often the archive stops answering
          MaxTurns,    \* how often each user lets go of the frame, or comes back to it
          MaxCloses,   \* how often each window is closed, or crashes
          MaxLost      \* how often a job is lost

ASSUME ArchiveAssumption ==
  /\ Gap \in BOOLEAN
  /\ MaxSaves \in Nat /\ MaxOutages \in Nat /\ MaxTurns \in Nat
  /\ MaxCloses \in Nat /\ MaxLost \in Nat
  /\ Everyone \notin Machines /\ Nobody \notin Machines \cup {Everyone}

VARIABLES
  window,    \* each machine's: closed, opening (its index reader not open yet), open, closing
  listed,    \* whether the window lists the frame
  mem,       \* the sidecar the window holds of it; NoSidecar while its index row stands in
  file,      \* the sidecar beside the machine's local frame
  row,       \* whether the machine's index has a pending row for the frame
  wrote,     \* what the machine's index says it last wrote on the copy
  stat,      \* whether the copy's size and mtime are the ones recorded with it
  deferred,  \* the saves made before the index reader was open
  queued,    \* the write queued for the frame, the latest
  job,       \* the write out on its thread, and the step it is at
  caughtUp,  \* whether the archive's answer has been taken up since it last did not answer
  copy,      \* the sidecar beside the archive's copy
  answers,   \* whether the archive answers
  left       \* how much of each bound is left

vars == <<window, listed, mem, file, row, wrote, stat, deferred, queued, job, caughtUp,
          copy, answers, left>>

(***************************************************************************)
(* A sidecar is told apart by its latest revision, a hash over the one     *)
(* before it and the content: a sidecar here is who saved it, the number   *)
(* of that save, and its lineage, the sidecars it was saved on top of or   *)
(* joined from (its revisions and the ones it absorbed).  A save that      *)
(* joins two is the same on every machine that joins the same two.         *)
(***************************************************************************)
NoSidecar == [by |-> Nobody, n |-> 0, past |-> {}]
Base == [by |-> Everyone, n |-> 0, past |-> {}]
Knows(s) == s.past \cup {s}
Saved(m, n, s) == [by |-> m, n |-> n, past |-> Knows(s)]
\* Mutant: a join that absorbs the other's latest revision, and not what that one had absorbed.
JoinLatest(a, b) == [by |-> Everyone, n |-> 0, past |-> Knows(a) \cup {b}]

Join(a, b) == [by |-> Everyone, n |-> 0, past |-> Knows(a) \cup Knows(b)]

Same(ours, theirs) == ours = theirs
\* Mutant: whatever is not ahead of the window's is taken to be behind it.
BehindOtherLoose(ours, theirs) == ours # theirs /\ ours \notin Knows(theirs)

BehindOther(ours, theirs) == ours # theirs /\ theirs \in Knows(ours)
BehindLocal(ours, theirs) == ours # theirs /\ ours \in Knows(theirs)
Diverged(ours, theirs) == theirs \notin Knows(ours) /\ ours \notin Knows(theirs)

Memory(s) == [kind |-> "memory", side |-> s]
Disk == [kind |-> "disk", side |-> NoSidecar]
Settle(theirs) == [kind |-> "settle", side |-> theirs]
NoWrite == [kind |-> "none", side |-> NoSidecar]

Idle == [step |-> "idle", kind |-> "none", side |-> NoSidecar]
Started(write) == [step |-> "note", kind |-> write.kind, side |-> write.side]
At(m, step) == [job EXCEPT ![m].step = step]
Carrying(m, step, s) == [job EXCEPT ![m].step = step, ![m].side = s]

TypeOK ==
  /\ window \in [Machines -> {"closed", "opening", "open", "closing"}]
  /\ listed \in [Machines -> BOOLEAN]
  /\ row \in [Machines -> BOOLEAN]
  /\ stat \in [Machines -> BOOLEAN]
  /\ caughtUp \in [Machines -> BOOLEAN]
  /\ answers \in BOOLEAN
  /\ DOMAIN mem = Machines /\ DOMAIN file = Machines /\ DOMAIN wrote = Machines
  /\ DOMAIN deferred = Machines /\ DOMAIN queued = Machines /\ DOMAIN job = Machines
  /\ \A m \in Machines :
       /\ queued[m].kind \in {"none", "memory", "disk", "settle"}
       /\ job[m].kind \in {"none", "memory", "disk", "settle"}
       /\ job[m].step \in {"idle", "note", "look", "load", "take", "keep", "check",
                           "write", "record", "waiting", "settle", "done"}
       /\ job[m].step = "idle" <=> job[m].kind = "none"
       /\ mem[m] # NoSidecar => listed[m]
       /\ window[m] = "closed" => /\ ~listed[m]
                                  /\ job[m] = Idle /\ queued[m] = NoWrite /\ deferred[m] = <<>>

Init ==
  /\ window = [m \in Machines |-> "closed"]
  /\ listed = [m \in Machines |-> FALSE]
  /\ mem = [m \in Machines |-> NoSidecar]
  /\ file = [m \in Machines |-> Base]
  /\ row = [m \in Machines |-> FALSE]
  /\ wrote = [m \in Machines |-> NoSidecar]
  /\ stat = [m \in Machines |-> FALSE]
  /\ deferred = [m \in Machines |-> <<>>]
  /\ queued = [m \in Machines |-> NoWrite]
  /\ job = [m \in Machines |-> Idle]
  /\ caughtUp = [m \in Machines |-> FALSE]
  /\ copy \in {NoSidecar, Base}
  /\ answers \in BOOLEAN
  /\ left = [saves |-> [m \in Machines |-> MaxSaves], turns |-> [m \in Machines |-> MaxTurns],
             closes |-> [m \in Machines |-> MaxCloses], outages |-> MaxOutages, lost |-> MaxLost]

(***************************************************************************)
(* The window's thread.  A write queued replaces the one queued before it, *)
(* and is sent at once when none is out for the frame.                     *)
(***************************************************************************)
\* file_writable: a frame whose row stands in is listed, and is not the window's to write.
Held(m) == mem[m] # NoSidecar
StandsIn(m) == listed[m] /\ ~Held(m)

\* queue, send_next: the latest write for the frame, sent unless one is out.
Queue(m, write, out) ==
  IF out[m] = Idle
  THEN job' = [out EXCEPT ![m] = Started(write)] /\ queued' = [queued EXCEPT ![m] = NoWrite]
  ELSE job' = out /\ queued' = [queued EXCEPT ![m] = write]

\* Mutant: a save made before the index reader is open is not kept for it.
QueueForDropped(m, write) ==
  IF window[m] = "open"
  THEN Queue(m, write, job) /\ UNCHANGED deferred
  ELSE UNCHANGED <<deferred, queued, job>>

\* queue_for: with the index reader closed the save is kept for when it opens.
QueueFor(m, write) ==
  IF window[m] = "open"
  THEN Queue(m, write, job) /\ UNCHANGED deferred
  ELSE deferred' = [deferred EXCEPT ![m] = Append(@, write)] /\ UNCHANGED <<queued, job>>

Number(m) == MaxSaves - left.saves[m] + 1
UsesSave(m) == left.saves[m] > 0 /\ left' = [left EXCEPT !.saves[m] = @ - 1]

\* The window is opened on the frame's folder, listed from its rows; its index reader is
\* still opening.
Open(m) ==
  /\ window[m] = "closed"
  /\ window' = [window EXCEPT ![m] = "opening"]
  /\ listed' = [listed EXCEPT ![m] = TRUE]
  /\ caughtUp' = [caughtUp EXCEPT ![m] = FALSE]
  /\ UNCHANGED <<mem, file, row, wrote, stat, deferred, queued, job, copy, answers, left>>

\* The index reader is open: the saves made before it was are queued, in order.
ReaderOpened(m) ==
  /\ window[m] = "opening"
  /\ window' = [window EXCEPT ![m] = "open"]
  /\ deferred' = [deferred EXCEPT ![m] = <<>>]
  /\ IF deferred[m] = <<>>
     THEN UNCHANGED <<queued, job>>
     ELSE /\ job' = [job EXCEPT ![m] = Started(Head(deferred[m]))]
          /\ queued' = [queued EXCEPT ![m] =
               IF Len(deferred[m]) = 1 THEN NoWrite ELSE deferred[m][Len(deferred[m])]]
  /\ UNCHANGED <<listed, mem, file, row, wrote, stat, caughtUp, copy, answers, left>>

\* The window saves the frame it holds: its own file, then the write to the copy.
Save(m) ==
  LET new == Saved(m, Number(m), mem[m]) IN
  /\ window[m] \in {"opening", "open"} /\ Held(m)
  /\ UsesSave(m)
  /\ mem' = [mem EXCEPT ![m] = new]
  /\ file' = [file EXCEPT ![m] = new]
  /\ QueueFor(m, Memory(new))
  /\ UNCHANGED <<window, listed, row, wrote, stat, caughtUp, copy, answers>>

\* A save on disk of a frame whose sidecar the window does not hold: an export's record.
DiskSave(m) ==
  /\ window[m] \in {"opening", "open"} /\ ~Held(m)
  /\ UsesSave(m)
  /\ file' = [file EXCEPT ![m] = Saved(m, Number(m), file[m])]
  /\ QueueFor(m, Disk)
  /\ UNCHANGED <<window, listed, mem, row, wrote, stat, caughtUp, copy, answers>>

\* A save with no window open (a headless export): noted in the index.
HeadlessSave(m) ==
  /\ window[m] = "closed"
  /\ UsesSave(m)
  /\ file' = [file EXCEPT ![m] = Saved(m, Number(m), file[m])]
  /\ row' = [row EXCEPT ![m] = TRUE]
  /\ UNCHANGED <<window, listed, mem, wrote, stat, deferred, queued, job, caughtUp, copy, answers>>

\* The user does something that needs the whole sidecar, which is read on a thread and taken
\* as it lands: an older one, if an export was recorded in the file since.
Read(m) ==
  /\ window[m] \in {"opening", "open"} /\ StandsIn(m)
  /\ \E s \in IF Gap THEN Knows(file[m]) ELSE {file[m]} : mem' = [mem EXCEPT ![m] = s]
  /\ UNCHANGED <<window, listed, file, row, wrote, stat, deferred, queued, job, caughtUp, copy,
                 answers, left>>

\* The user opens another folder, or comes back to the frame's.
Turn(m) ==
  /\ window[m] = "open" /\ left.turns[m] > 0
  /\ left' = [left EXCEPT !.turns[m] = @ - 1]
  /\ listed' = [listed EXCEPT ![m] = ~@]
  /\ mem' = [mem EXCEPT ![m] = NoSidecar]
  /\ UNCHANGED <<window, file, row, wrote, stat, deferred, queued, job, caughtUp, copy, answers>>

(***************************************************************************)
(* The write job, on its thread.  Its row first; the archive looked at;    *)
(* the sidecar to write; the copy checked, and read only when it is not    *)
(* what was last written there; the copy written; the write recorded.      *)
(***************************************************************************)
\* Mutant: the row only once the archive was found not to answer.
JobNotesLater(m) ==
  /\ job[m].step = "note"
  /\ row' = [row EXCEPT ![m] = ~answers]
  /\ job' = At(m, "look")
  /\ UNCHANGED <<window, listed, mem, file, wrote, stat, deferred, queued, caughtUp,
                 copy, answers, left>>

\* add_pending, before the attempt.
JobNotes(m) ==
  /\ job[m].step = "note"
  /\ row' = [row EXCEPT ![m] = TRUE]
  /\ job' = At(m, "look")
  /\ UNCHANGED <<window, listed, mem, file, wrote, stat, deferred, queued, caughtUp,
                 copy, answers, left>>

JobLooks(m) ==
  /\ job[m].step = "look"
  /\ job' = At(m, IF answers THEN "load" ELSE "waiting")
  /\ UNCHANGED <<window, listed, mem, file, row, wrote, stat, deferred, queued, caughtUp, copy,
                 answers, left>>

\* Nothing else touches the copy between a job's check of it and its record.
Alone(m) == Gap \/ \A other \in Machines \ {m} : job[other].step \notin {"write", "record"}

\* The sidecar from the file, against the copy's when that is to be settled.
JobLoads(m) ==
  LET ours == file[m]  theirs == job[m].side IN
  /\ job[m].step = "load"
  /\ Alone(m)
  /\ \/ job[m].kind = "memory" /\ job' = At(m, "check")
     \/ job[m].kind = "disk" /\ job' = Carrying(m, "check", ours)
     \/ /\ job[m].kind = "settle"
        /\ \/ Same(ours, theirs) /\ job' = At(m, "record")
           \/ BehindLocal(ours, theirs) /\ job' = At(m, "take")
           \/ BehindOther(ours, theirs) /\ job' = Carrying(m, "check", ours)
           \/ Diverged(ours, theirs) /\ job' = Carrying(m, "keep", Join(ours, theirs))
  /\ UNCHANGED <<window, listed, mem, file, row, wrote, stat, deferred, queued, caughtUp, copy,
                 answers, left>>

\* The copy's sidecar taken whole, or the join saved, beside the local frame.
JobKeeps(m) ==
  /\ job[m].step \in {"take", "keep"}
  /\ Alone(m)
  /\ file' = [file EXCEPT ![m] = job[m].side]
  /\ job' = At(m, IF job[m].step = "take" THEN "record" ELSE "check")
  /\ UNCHANGED <<window, listed, mem, row, wrote, stat, deferred, queued, caughtUp,
                 copy, answers, left>>

\* check and known: the copy is absent, or the one recorded, which the sidecar knows.
Ours(m) == copy = NoSidecar \/ (stat[m] /\ wrote[m] \in Knows(job[m].side))

\* Mutant: a copy that is not behind is left as it is, and recorded.
JobChecksAndRecords(m) ==
  LET side == job[m].side IN
  /\ job[m].step = "check"
  /\ Alone(m)
  /\ \/ ~answers /\ job' = At(m, "waiting")
     \/ answers /\ Ours(m) /\ job' = At(m, "write")
     \/ /\ answers /\ ~Ours(m)
        /\ job' = At(m, IF BehindOther(side, copy) THEN "write" ELSE "record")
  /\ UNCHANGED <<window, listed, mem, file, row, wrote, stat, deferred, queued, caughtUp, copy,
                 answers, left>>

JobChecks(m) ==
  LET side == job[m].side IN
  /\ job[m].step = "check"
  /\ Alone(m)
  /\ \/ ~answers /\ job' = At(m, "waiting")
     \/ answers /\ Ours(m) /\ job' = At(m, "write")
     \/ /\ answers /\ ~Ours(m)
        /\ \/ Same(side, copy) /\ job' = At(m, "record")
           \/ BehindOther(side, copy) /\ job' = At(m, "write")
           \/ (BehindLocal(side, copy) \/ Diverged(side, copy)) /\ job' = Carrying(m, "settle", copy)
  /\ UNCHANGED <<window, listed, mem, file, row, wrote, stat, deferred, queued, caughtUp, copy,
                 answers, left>>

\* The copy renamed over: its size and mtime are no longer what any machine recorded.
JobWrites(m) ==
  /\ job[m].step = "write"
  /\ IF answers
     THEN /\ copy' = job[m].side
          /\ stat' = [other \in Machines |-> FALSE]
          /\ job' = At(m, "record")
     ELSE job' = At(m, "waiting") /\ UNCHANGED <<copy, stat>>
  /\ UNCHANGED <<window, listed, mem, file, row, wrote, deferred, queued, caughtUp, answers, left>>

\* record: the revision, the size and mtime the copy has now, and the row cleared.
JobRecords(m) ==
  /\ job[m].step = "record"
  /\ IF answers
     THEN /\ wrote' = [wrote EXCEPT ![m] = job[m].side]
          /\ stat' = [stat EXCEPT ![m] = TRUE]
          /\ row' = [row EXCEPT ![m] = FALSE]
     ELSE UNCHANGED <<wrote, stat, row>>
  /\ job' = At(m, "done")
  /\ UNCHANGED <<window, listed, mem, file, deferred, queued, caughtUp, copy, answers, left>>

\* The job's thread panics or never answers again: its end is heard as lost.
JobLost(m) ==
  /\ job[m].step \notin {"idle", "done", "settle", "waiting"}
  /\ window[m] \in {"opening", "open"}
  /\ left.lost > 0
  /\ left' = [left EXCEPT !.lost = @ - 1]
  /\ job' = [job EXCEPT ![m] = Idle]
  /\ UNCHANGED <<window, listed, mem, file, row, wrote, stat, deferred, queued, caughtUp,
                 copy, answers>>

(***************************************************************************)
(* A job's end lands on the window's thread.                               *)
(***************************************************************************)
\* settle_held: the copy's sidecar against what the window holds now.
SettleHeld(m, theirs, out) ==
  LET ours == mem[m] IN
  \/ /\ Same(ours, theirs) \/ BehindOther(ours, theirs)
     /\ Queue(m, Memory(ours), out)
     /\ UNCHANGED <<mem, file>>
  \/ /\ BehindLocal(ours, theirs)
     /\ mem' = [mem EXCEPT ![m] = theirs]
     /\ file' = [file EXCEPT ![m] = theirs]
     /\ Queue(m, Memory(theirs), out)
  \/ /\ Diverged(ours, theirs)
     /\ mem' = [mem EXCEPT ![m] = Join(ours, theirs)]
     /\ file' = [file EXCEPT ![m] = Join(ours, theirs)]
     /\ Queue(m, Memory(Join(ours, theirs)), out)

\* send_next, when a landing queues nothing of its own.
SendNext(m, out) ==
  IF queued[m] = NoWrite THEN job' = out /\ UNCHANGED queued
  ELSE job' = [out EXCEPT ![m] = Started(queued[m])] /\ queued' = [queued EXCEPT ![m] = NoWrite]

\* Mutant: what is to be settled of a frame the window does not list is left at that too.
LandedLetGo(m) ==
  LET out == [job EXCEPT ![m] = Idle] IN
  /\ window[m] = "open"
  /\ \/ /\ job[m].step = "done" \/ (job[m].step = "settle" /\ ~Held(m))
        /\ SendNext(m, out)
        /\ UNCHANGED <<mem, file, caughtUp>>
     \/ /\ job[m].step = "waiting"
        /\ caughtUp' = [caughtUp EXCEPT ![m] = FALSE]
        /\ SendNext(m, out)
        /\ UNCHANGED <<mem, file>>
     \/ /\ job[m].step = "settle" /\ Held(m)
        /\ SettleHeld(m, job[m].side, out)
        /\ UNCHANGED caughtUp
  /\ UNCHANGED <<window, listed, row, wrote, stat, deferred, copy, answers, left>>

\* A job's end: what it left to settle is settled, or the next write goes.  A row standing
\* in may not be written: nothing of it is settled, and no write queued.
Landed(m) ==
  LET out == [job EXCEPT ![m] = Idle] IN
  /\ window[m] = "open"
  /\ \/ /\ job[m].step = "done"
        /\ SendNext(m, out)
        /\ UNCHANGED <<mem, file, caughtUp>>
     \/ /\ job[m].step = "waiting"
        /\ caughtUp' = [caughtUp EXCEPT ![m] = FALSE]
        /\ SendNext(m, out)
        /\ UNCHANGED <<mem, file>>
     \/ /\ job[m].step = "settle" /\ Held(m)
        /\ SettleHeld(m, job[m].side, out)
        /\ UNCHANGED caughtUp
     \/ /\ job[m].step = "settle" /\ ~listed[m]
        /\ Queue(m, Settle(job[m].side), out)
        /\ UNCHANGED <<mem, file, caughtUp>>
     \/ /\ job[m].step = "settle" /\ StandsIn(m)
        /\ SendNext(m, out)
        /\ UNCHANGED <<mem, file, caughtUp>>
  /\ UNCHANGED <<window, listed, row, wrote, stat, deferred, copy, answers, left>>

\* Mutant: an answer that is taken up although the window has closed since it asked.
HeardClosed(m) ==
  /\ window[m] # "opening"
  /\ answers /\ ~caughtUp[m]
  /\ caughtUp' = [caughtUp EXCEPT ![m] = TRUE]
  /\ IF row[m] /\ queued[m] = NoWrite /\ job[m] = Idle
     THEN Queue(m, IF Held(m) THEN Memory(mem[m]) ELSE Disk, job)
     ELSE UNCHANGED <<queued, job>>
  /\ UNCHANGED <<window, listed, mem, file, row, wrote, stat, deferred, copy, answers, left>>

\* heard_from: what a look at the archive said; its rows are taken up once an answer.
Heard(m) ==
  /\ window[m] = "open"
  /\ IF answers
     THEN /\ ~caughtUp[m]
          /\ caughtUp' = [caughtUp EXCEPT ![m] = TRUE]
          /\ IF row[m] /\ queued[m] = NoWrite /\ job[m] = Idle
             THEN Queue(m, IF Held(m) THEN Memory(mem[m]) ELSE Disk, job)
             ELSE UNCHANGED <<queued, job>>
     ELSE /\ caughtUp[m]
          /\ caughtUp' = [caughtUp EXCEPT ![m] = FALSE]
          /\ UNCHANGED <<queued, job>>
  /\ UNCHANGED <<window, listed, mem, file, row, wrote, stat, deferred, copy, answers, left>>

\* retry: the status line's click takes the rows up whatever was heard.
Retry(m) ==
  /\ window[m] = "open"
  /\ row[m] /\ queued[m] = NoWrite /\ job[m] = Idle
  /\ caughtUp' = [caughtUp EXCEPT ![m] = FALSE]
  /\ Queue(m, IF Held(m) THEN Memory(mem[m]) ELSE Disk, job)
  /\ UNCHANGED <<window, listed, mem, file, row, wrote, stat, deferred, copy, answers, left>>

(***************************************************************************)
(* The window closes: its reader gone, the open frame saved as left, and   *)
(* what never went out noted in the index.  A job still out goes on until  *)
(* the process ends, and nothing it says lands.                            *)
(***************************************************************************)
Unsent(m) == deferred[m] # <<>> \/ queued[m].kind \in {"memory", "disk"}

Quit(m) ==
  /\ window[m] \in {"opening", "open"}
  /\ left.closes[m] > 0
  /\ window' = [window EXCEPT ![m] = "closing"]
  /\ \/ /\ Held(m) /\ left.saves[m] > 0
        /\ left' = [left EXCEPT !.closes[m] = @ - 1, !.saves[m] = @ - 1]
        /\ mem' = [mem EXCEPT ![m] = Saved(m, Number(m), mem[m])]
        /\ file' = [file EXCEPT ![m] = Saved(m, Number(m), mem[m])]
        /\ row' = [row EXCEPT ![m] = TRUE]
     \/ /\ left' = [left EXCEPT !.closes[m] = @ - 1]
        /\ row' = [row EXCEPT ![m] = @ \/ Unsent(m)]
        /\ UNCHANGED <<mem, file>>
  /\ deferred' = [deferred EXCEPT ![m] = <<>>]
  /\ queued' = [queued EXCEPT ![m] = NoWrite]
  /\ UNCHANGED <<listed, wrote, stat, job, caughtUp, copy, answers>>

Gone(m) ==
  /\ window' = [window EXCEPT ![m] = "closed"]
  /\ listed' = [listed EXCEPT ![m] = FALSE]
  /\ mem' = [mem EXCEPT ![m] = NoSidecar]
  /\ deferred' = [deferred EXCEPT ![m] = <<>>]
  /\ queued' = [queued EXCEPT ![m] = NoWrite]
  /\ job' = [job EXCEPT ![m] = Idle]
  /\ UNCHANGED <<file, row, wrote, stat, caughtUp, copy, answers>>

\* The process ends after a quit, a job still out with it.
End(m) == window[m] = "closing" /\ Gone(m) /\ UNCHANGED left

Crash(m) ==
  /\ window[m] \in {"opening", "open", "closing"}
  /\ left.closes[m] > 0
  /\ left' = [left EXCEPT !.closes[m] = @ - 1]
  /\ Gone(m)

ArchiveGoes ==
  /\ answers /\ left.outages > 0
  /\ Gap \/ \A m \in Machines : job[m].step \notin {"write", "record"}
  /\ answers' = FALSE
  /\ left' = [left EXCEPT !.outages = @ - 1]
  /\ UNCHANGED <<window, listed, mem, file, row, wrote, stat, deferred, queued, job, caughtUp,
                 copy>>

ArchiveReturns ==
  /\ ~answers
  /\ answers' = TRUE
  /\ UNCHANGED <<window, listed, mem, file, row, wrote, stat, deferred, queued, job, caughtUp,
                 copy, left>>

JobSteps(m) == JobNotes(m) \/ JobLooks(m) \/ JobLoads(m) \/ JobKeeps(m)
               \/ JobChecks(m) \/ JobWrites(m) \/ JobRecords(m)

Next ==
  \/ \E m \in Machines :
       \/ Open(m) \/ ReaderOpened(m) \/ Read(m) \/ Turn(m)
       \/ Save(m) \/ DiskSave(m) \/ HeadlessSave(m)
       \/ JobSteps(m) \/ JobLost(m) \/ Landed(m) \/ Heard(m) \/ Retry(m)
       \/ Quit(m) \/ End(m) \/ Crash(m)
  \/ ArchiveGoes \/ ArchiveReturns

\* The job threads, the window's thread and its looks at the roots go on; a quit ends;
\* the archive comes back.  Nobody has to save, turn, quit or press retry.
Fairness ==
  /\ WF_vars(ArchiveReturns)
  /\ \A m \in Machines : /\ WF_vars(ReaderOpened(m)) /\ WF_vars(JobSteps(m))
                         /\ WF_vars(Landed(m)) /\ WF_vars(Heard(m)) /\ WF_vars(End(m))

Spec == Init /\ [][Next]_vars
FairSpec == Spec /\ Fairness

-----------------------------------------------------------------------------
Sides(S) == {s \in S : s # NoSidecar}
\* Every sidecar there is: on the copy, beside a frame, in a window, queued or with a job.
Everywhere ==
  Sides({copy}
        \cup (UNION {{mem[m], file[m], wrote[m], queued[m].side, job[m].side} : m \in Machines})
        \cup (UNION {{deferred[m][i].side : i \in DOMAIN deferred[m]} : m \in Machines}))

\* A sidecar that knows another's latest revision holds all that one holds, so that a copy
\* compare found behind, by that revision alone, may be written over or taken whole.
LineageHonest == \A s \in Everywhere : \A t \in Knows(s) : t.past \subseteq s.past

\* A save of the frame on some machine never takes off the archive's copy what the copy
\* holds: the stat check and the compare of write_copy lose no edit made elsewhere.
CopyKeeps == [][copy # NoSidecar => Knows(copy) \subseteq Knows(copy')]_vars

\* No sidecar beside a local frame loses a save that was in it, whatever is settled into it
\* by the window (settle_held) or by a job (Source::Settle).
FileKeeps == [][\A m \in Machines : Knows(file[m]) \subseteq Knows(file'[m])]_vars

\* What the machines do with the saves is what SavesSpread promises, as long as open windows
\* list the frame.
Spread == INSTANCE SavesSpread WITH
  First <- Base,
  known <- [m \in Machines |-> Knows(file[m])],
  there <- IF copy = NoSidecar THEN {} ELSE Knows(copy)
SavesSpread == Spread!Spec

\* What the machine has not yet recorded on the copy is to be written: a row of its index,
\* a write in its window's queue, or a job about to note its row.
Owed(m) == row[m] \/ Unsent(m) \/ job[m].step = "note"

\* In a window's session, a save that the copy is not recorded to hold is owed, till a quit,
\* a crash or a job lost before its row: queue_for, reader_opened and the job's add_pending
\* leave no moment at which nothing knows of it. With windows that let go of the frame it is
\* for two machines: a third's copy gone over unread can break it (README, 3).
Covered ==
  \A m \in Machines :
    \/ window[m] \in {"closing", "closed"}
    \/ left.closes[m] < MaxCloses \/ left.lost < MaxLost
    \/ file[m] = Base \/ file[m] = wrote[m]
    \/ Owed(m)

\* A job that has begun leaves its row whatever becomes of it, until it has recorded
\* (write_through: a quit, a crash or a job that never answers leaves its row).
JobLeavesRow == \A m \in Machines : job[m].step \notin {"idle", "note", "done"} => row[m]

\* The record says what stands on the copy: a copy whose size and mtime are the recorded
\* ones is the one recorded (record; Check::Ours takes the one for the other unread).
RecordIsTrue == \A m \in Machines : stat[m] => wrote[m] = copy

\* A row noted as the window closed (note_unsent_at_quit) stands until what is in the file
\* is recorded, so that the next window's catch-up writes it.
NotedStands == [][\A m \in Machines : window[m] = "closing" /\ row[m] /\ ~row'[m]
                                        => file'[m] = wrote'[m]]_vars

\* Somebody will take up what the machine owes the copy: it is deferred, queued or out, or
\* its row is for the catch-up, the archive not having been heard since it last went away.
Due(m) == \/ Unsent(m) \/ job[m].step = "note"
          \/ row[m] /\ (job[m] # Idle \/ queued[m] # NoWrite \/ ~caughtUp[m])

\* A write found the copy not behind, and lands for a frame that stands in: it is not settled.
Refused(m) == window[m] = "open" /\ job[m].step = "settle" /\ StandsIn(m)

\* The archive went as a write was recorded: the job ends with its row left, and no word of it.
Unrecorded(m) == job[m].step = "done" /\ row[m]

\* A write due is let go of in a way the code has: the window closed, a job lost, or refused.
LetGo(m) == window[m] = "closed" \/ left.lost < MaxLost \/ Refused(m)

\* What is due is done, once the archive answers, and if the window stays open and loses no
\* job: heard_from, landed and send_next leave no row that nobody will take up, but for a
\* write refused for a row standing in (RowsTaken) and one that was not recorded.
RowsClear == \A m \in Machines : Due(m) ~> (~row[m] \/ LetGo(m) \/ Unrecorded(m))

\* A save that is due reaches the copy, likewise, unless its write is refused: one of this
\* session, or one noted in the index while no window was open.
SavesArrive ==
  \A m \in Machines :
    \A n \in 1..MaxSaves :
      (Due(m) /\ \E s \in Knows(file[m]) : s.by = m /\ s.n = n)
        ~> (LetGo(m) \/ (copy # NoSidecar /\ \E s \in Knows(copy) : s.by = m /\ s.n = n))

\* A pending row of a window that stays open is cleared, once the archive answers, its frame
\* standing in or not: landed and settle_held say that a write not settled at once goes by a
\* job, by the frame's next save, or by the next catch-up.
RowsTaken == \A m \in Machines : row[m] ~> (~row[m] \/ window[m] = "closed")

=============================================================================
