------------------------- MODULE ArchiveSyncProofs -------------------------
(***************************************************************************)
(* Theorems of ArchiveSync, for any machines and any number of saves,      *)
(* outages, turns, closed windows and lost jobs.                           *)
(***************************************************************************)
EXTENDS ArchiveSync, TLAPS, SequenceTheorems

USE ArchiveAssumption

-----------------------------------------------------------------------------
(* Lineages *)

\* All that the sidecars in a lineage hold is in it, and so in that of each of them.
Whole(s) == \A t \in Knows(s) : t.past \subseteq s.past
Honest(s) == \A t \in Knows(s) : Whole(t)

LEMMA BaseHonest == Honest(Base) /\ Honest(NoSidecar)
  BY DEF Honest, Whole, Knows, Base, NoSidecar

\* A save on top of a sidecar keeps all it holds.
LEMMA SavedHonest ==
  ASSUME NEW m, NEW n, NEW s, Honest(s)
  PROVE  Honest(Saved(m, n, s)) /\ Knows(s) \subseteq Knows(Saved(m, n, s))
  <1> DEFINE new == Saved(m, n, s)
  <1>1. new.past = Knows(s)
    BY DEF Saved
  <1> HIDE DEF new
  <1>2. Knows(new) = Knows(s) \cup {new} /\ s \in Knows(s)
    BY <1>1 DEF Knows
  <1>3. \A t \in Knows(s) : t.past \subseteq new.past
    BY <1>1, <1>2 DEF Honest, Whole, Knows
  <1>4. Whole(new)
    BY <1>2, <1>3 DEF Whole
  <1> QED BY <1>2, <1>4 DEF Honest, new

\* A join keeps all that either holds.
LEMMA JoinHonest ==
  ASSUME NEW a, NEW b, Honest(a), Honest(b)
  PROVE  Honest(Join(a, b)) /\ Knows(a) \cup Knows(b) \subseteq Knows(Join(a, b))
  <1> DEFINE new == Join(a, b)
  <1>1. new.past = Knows(a) \cup Knows(b)
    BY DEF Join
  <1> HIDE DEF new
  <1>2. Knows(new) = Knows(a) \cup Knows(b) \cup {new} /\ a \in Knows(a) /\ b \in Knows(b)
    BY <1>1 DEF Knows
  <1>3. \A t \in Knows(a) \cup Knows(b) : t.past \subseteq new.past
    BY <1>1, <1>2 DEF Honest, Whole, Knows
  <1>4. Whole(new)
    BY <1>2, <1>3 DEF Whole
  <1> QED BY <1>2, <1>4 DEF Honest, new

\* What knows an honest sidecar's latest revision, and is honest, knows all it does.
LEMMA KnowsAll ==
  ASSUME NEW s, NEW t \in Knows(s), Honest(s)
  PROVE  Knows(t) \subseteq Knows(s) /\ Honest(t)
  <1>1. Whole(s)
    BY DEF Honest, Knows
  <1>2. Knows(t) \subseteq Knows(s)
    BY <1>1 DEF Whole, Knows
  <1> QED BY <1>2 DEF Honest

-----------------------------------------------------------------------------
(* The inductive invariant of every run *)

Write(w) == w.kind \in {"memory", "disk", "settle"} /\ Honest(w.side)

QueuedFine(q) == q = NoWrite \/ Write(q)

\* The writes kept for the index reader: saves', of what is in memory or in the file.
Kept(w) == w.kind \in {"memory", "disk"} /\ Honest(w.side)
DeferredFine(q) == \E S : q \in Seq(S) /\ \A w \in S : Kept(w)

JobFine(j) ==
  /\ j = [step |-> j.step, kind |-> j.kind, side |-> j.side]
  /\ j.kind \in {"none", "memory", "disk", "settle"}
  /\ j.step \in {"idle", "note", "look", "load", "take", "keep", "check",
                 "write", "record", "waiting", "settle", "done"}
  /\ j.step = "idle" <=> j.kind = "none"
  /\ j.step = "idle" => j = Idle
  /\ Honest(j.side)

MachineFine(m) ==
  /\ Honest(mem[m]) /\ Honest(file[m]) /\ Honest(wrote[m])
  /\ QueuedFine(queued[m])
  /\ DeferredFine(deferred[m])
  /\ JobFine(job[m])
  /\ mem[m] # NoSidecar => listed[m]
  /\ window[m] = "closed" => /\ ~listed[m]
                             /\ job[m] = Idle /\ queued[m] = NoWrite /\ deferred[m] = <<>>
  /\ job[m].step \notin {"idle", "note", "done"} => row[m]

Typed ==
  /\ window \in [Machines -> {"closed", "opening", "open", "closing"}]
  /\ listed \in [Machines -> BOOLEAN]
  /\ row \in [Machines -> BOOLEAN]
  /\ stat \in [Machines -> BOOLEAN]
  /\ caughtUp \in [Machines -> BOOLEAN]
  /\ answers \in BOOLEAN
  /\ DOMAIN mem = Machines /\ DOMAIN file = Machines /\ DOMAIN wrote = Machines
  /\ DOMAIN deferred = Machines /\ DOMAIN queued = Machines /\ DOMAIN job = Machines

Fine == Typed /\ Honest(copy) /\ \A m \in Machines : MachineFine(m)

-----------------------------------------------------------------------------
(* Facts about the queue and the job *)

LEMMA IdleFine == JobFine(Idle)
  BY BaseHonest DEF JobFine, Idle, NoSidecar

LEMMA MemoryFine == ASSUME NEW s, Honest(s) PROVE Write(Memory(s)) /\ Kept(Memory(s))
  BY DEF Write, Kept, Memory

LEMMA DiskFine == Write(Disk) /\ Kept(Disk)
  BY BaseHonest DEF Write, Kept, Disk

LEMMA SettleFine == ASSUME NEW s, Honest(s) PROVE Write(Settle(s))
  BY DEF Write, Settle

LEMMA StartedFine ==
  ASSUME NEW w, Write(w)
  PROVE  JobFine(Started(w)) /\ Started(w).step = "note"
  BY DEF Write, Started, JobFine

LEMMA AtIs ==
  ASSUME NEW m \in Machines, NEW step, DOMAIN job = Machines, JobFine(job[m])
  PROVE  /\ DOMAIN At(m, step) = Machines
         /\ At(m, step)[m] = [step |-> step, kind |-> job[m].kind, side |-> job[m].side]
         /\ \A o \in Machines \ {m} : At(m, step)[o] = job[o]
  BY DEF At, JobFine

LEMMA CarryingIs ==
  ASSUME NEW m \in Machines, NEW step, NEW s, DOMAIN job = Machines, JobFine(job[m])
  PROVE  /\ DOMAIN Carrying(m, step, s) = Machines
         /\ Carrying(m, step, s)[m] = [step |-> step, kind |-> job[m].kind, side |-> s]
         /\ \A o \in Machines \ {m} : Carrying(m, step, s)[o] = job[o]
  BY DEF Carrying, JobFine

\* A job that goes on is fine when it was, whatever it carries.
LEMMA StepFine ==
  ASSUME NEW m \in Machines, JobFine(job[m]), job[m].step # "idle", NEW s, Honest(s),
         NEW step \in {"note", "look", "load", "take", "keep", "check", "write", "record",
                       "waiting", "settle", "done"}
  PROVE  JobFine([step |-> step, kind |-> job[m].kind, side |-> s])
  BY DEF JobFine

LEMMA DeferredAppend ==
  ASSUME NEW q, DeferredFine(q), NEW w, Kept(w)
  PROVE  DeferredFine(Append(q, w))
  <1>1. PICK S : q \in Seq(S) /\ \A v \in S : Kept(v)
    BY DEF DeferredFine
  <1>2. q \in Seq(S \cup {w})
    BY <1>1
  <1>3. Append(q, w) \in Seq(S \cup {w})
    BY <1>2
  <1> QED BY <1>1, <1>3 DEF DeferredFine

LEMMA DeferredEmpty == DeferredFine(<<>>)
  <1>1. PICK S : S = {}
    OBVIOUS
  <1>2. <<>> \in Seq(S) /\ \A w \in S : Kept(w)
    BY <1>1
  <1> QED BY <1>2 DEF DeferredFine

LEMMA DeferredEnds ==
  ASSUME NEW q, DeferredFine(q), q # <<>>
  PROVE  Kept(Head(q)) /\ Kept(q[Len(q)])
  <1>1. PICK S : q \in Seq(S) /\ \A v \in S : Kept(v)
    BY DEF DeferredFine
  <1> QED BY <1>1

LEMMA QueueIs ==
  ASSUME NEW m \in Machines, NEW w, NEW out, DOMAIN out = Machines,
         DOMAIN queued = Machines, Queue(m, w, out)
  PROVE  /\ DOMAIN job' = Machines /\ DOMAIN queued' = Machines
         /\ \A o \in Machines \ {m} : job'[o] = out[o] /\ queued'[o] = queued[o]
         /\ \/ job'[m] = Started(w) /\ queued'[m] = NoWrite
            \/ job'[m] = out[m] /\ queued'[m] = w
  BY DEF Queue

LEMMA SendNextIs ==
  ASSUME NEW m \in Machines, NEW out, DOMAIN out = Machines,
         DOMAIN queued = Machines, SendNext(m, out)
  PROVE  /\ DOMAIN job' = Machines /\ DOMAIN queued' = Machines
         /\ \A o \in Machines \ {m} : job'[o] = out[o] /\ queued'[o] = queued[o]
         /\ \/ job'[m] = out[m] /\ queued'[m] = queued[m] /\ queued[m] = NoWrite
            \/ job'[m] = Started(queued[m]) /\ queued'[m] = NoWrite /\ queued[m] # NoWrite
  BY DEF SendNext
-----------------------------------------------------------------------------
(* Fine is inductive *)

\* What a step of one machine leaves alone of another's.
Apart(m) ==
  \A o \in Machines \ {m} :
    /\ window'[o] = window[o] /\ listed'[o] = listed[o]
    /\ mem'[o] = mem[o] /\ file'[o] = file[o]
    /\ row'[o] = row[o] /\ wrote'[o] = wrote[o] /\ deferred'[o] = deferred[o]
    /\ queued'[o] = queued[o] /\ job'[o] = job[o]

LEMMA OneMachine ==
  ASSUME Fine, NEW m \in Machines, Typed', Honest(copy'), MachineFine(m)', Apart(m)
  PROVE  Fine' /\ Apart(m)
  <1> SUFFICES ASSUME NEW o \in Machines PROVE MachineFine(o)'
    BY DEF Fine
  <1>1. CASE o = m
    BY <1>1
  <1>2. CASE o # m
    BY <1>2 DEF Fine, MachineFine, Apart
  <1> QED BY <1>1, <1>2

LEMMA InitFine == Init => Fine
  <1> SUFFICES ASSUME Init PROVE Fine
    OBVIOUS
  <1>1. Typed
    BY DEF Init, Typed
  <1>2. Honest(copy)
    BY BaseHonest DEF Init
  <1>3. ASSUME NEW m \in Machines PROVE MachineFine(m)
    BY BaseHonest, IdleFine, DeferredEmpty DEF Init, MachineFine, QueuedFine, Idle
  <1> QED BY <1>1, <1>2, <1>3 DEF Fine

\* The window's own steps.
LEMMA OpenFine == ASSUME Fine, NEW m \in Machines, Open(m) PROVE Fine' /\ Apart(m)
  <1>1. Typed'
    BY DEF Fine, Typed, Open
  <1>2. MachineFine(m)'
    BY DEF Fine, Typed, Open, MachineFine
  <1>3. Apart(m) /\ Honest(copy')
    BY DEF Fine, Typed, Open, Apart
  <1> QED BY <1>1, <1>2, <1>3, OneMachine

LEMMA ReaderOpenedFine == ASSUME Fine, NEW m \in Machines, ReaderOpened(m) PROVE Fine' /\ Apart(m)
  <1>0. MachineFine(m)
    BY DEF Fine
  <1>1. Typed'
    BY DEF Fine, Typed, ReaderOpened
  <1>2. Apart(m) /\ Honest(copy')
    BY DEF Fine, Typed, ReaderOpened, Apart
  <1>3. CASE deferred[m] = <<>>
    <2>1. MachineFine(m)'
      BY <1>0, <1>3, DeferredEmpty DEF Fine, Typed, ReaderOpened, MachineFine
    <2> QED BY <1>1, <1>2, <2>1, OneMachine
  <1>4. CASE deferred[m] # <<>>
    <2>1. Write(Head(deferred[m])) /\ Write(deferred[m][Len(deferred[m])])
      BY <1>0, <1>4, DeferredEnds DEF MachineFine, Kept, Write
    <2>2. job'[m] = Started(Head(deferred[m])) /\ deferred'[m] = <<>> /\ window'[m] = "open"
      BY <1>4 DEF Fine, Typed, ReaderOpened
    <2>3. queued'[m] \in {NoWrite, deferred[m][Len(deferred[m])]}
      BY <1>4 DEF Fine, Typed, ReaderOpened
    <2>4. JobFine(job'[m]) /\ job'[m].step = "note"
      BY <2>1, <2>2, StartedFine
    <2>5. QueuedFine(queued'[m])
      BY <2>1, <2>3 DEF QueuedFine
    <2>6. DeferredFine(deferred'[m])
      BY <2>2, DeferredEmpty
    <2>7. MachineFine(m)'
      BY <1>0, <2>2, <2>4, <2>5, <2>6 DEF MachineFine, ReaderOpened
    <2> QED BY <1>1, <1>2, <2>7, OneMachine
  <1> QED BY <1>3, <1>4

\* A write queued, or kept for the reader.
LEMMA QueueForFine ==
  ASSUME Fine, NEW m \in Machines, NEW w, Kept(w), QueueFor(m, w), window[m] # "closed"
  PROVE  /\ DOMAIN job' = Machines /\ DOMAIN queued' = Machines /\ DOMAIN deferred' = Machines
         /\ \A o \in Machines \ {m} :
              job'[o] = job[o] /\ queued'[o] = queued[o] /\ deferred'[o] = deferred[o]
         /\ JobFine(job'[m]) /\ QueuedFine(queued'[m]) /\ DeferredFine(deferred'[m])
         /\ job'[m] = job[m] \/ job'[m].step = "note"
  <1>0. MachineFine(m) /\ Typed
    BY DEF Fine
  <1>1. CASE window[m] = "open"
    <2>1. Queue(m, w, job) /\ UNCHANGED deferred
      BY <1>1 DEF QueueFor
    <2>2. /\ DOMAIN job' = Machines /\ DOMAIN queued' = Machines
          /\ \A o \in Machines \ {m} : job'[o] = job[o] /\ queued'[o] = queued[o]
          /\ \/ job'[m] = Started(w) /\ queued'[m] = NoWrite
             \/ job'[m] = job[m] /\ queued'[m] = w
      BY <1>0, <2>1, QueueIs DEF Typed
    <2>3. Write(w)
      BY DEF Kept, Write
    <2> QED BY <1>0, <2>1, <2>2, <2>3, StartedFine DEF Typed, MachineFine, QueuedFine
  <1>2. CASE window[m] # "open"
    <2>1. deferred' = [deferred EXCEPT ![m] = Append(@, w)] /\ UNCHANGED <<queued, job>>
      BY <1>2 DEF QueueFor
    <2>2. DeferredFine(Append(deferred[m], w))
      BY <1>0, DeferredAppend DEF MachineFine
    <2> QED BY <1>0, <2>1, <2>2 DEF Typed, MachineFine
  <1> QED BY <1>1, <1>2

LEMMA SaveFine == ASSUME Fine, NEW m \in Machines, Save(m) PROVE Fine' /\ Apart(m)
  <1> DEFINE new == Saved(m, Number(m), mem[m])
  <1>0. MachineFine(m) /\ Typed
    BY DEF Fine
  <1>1. Honest(new) /\ Kept(Memory(new))
    BY <1>0, SavedHonest, MemoryFine DEF MachineFine
  <1>2. /\ window[m] \in {"opening", "open"} /\ QueueFor(m, Memory(new)) /\ mem[m] # NoSidecar
        /\ mem' = [mem EXCEPT ![m] = new] /\ file' = [file EXCEPT ![m] = new]
        /\ UNCHANGED <<window, listed, row, wrote, stat, caughtUp, copy, answers>>
    BY DEF Save, Held
  <1> HIDE DEF new
  <1>3. /\ DOMAIN job' = Machines /\ DOMAIN queued' = Machines /\ DOMAIN deferred' = Machines
        /\ \A o \in Machines \ {m} :
             job'[o] = job[o] /\ queued'[o] = queued[o] /\ deferred'[o] = deferred[o]
        /\ JobFine(job'[m]) /\ QueuedFine(queued'[m]) /\ DeferredFine(deferred'[m])
        /\ job'[m] = job[m] \/ job'[m].step = "note"
    BY <1>1, <1>2, QueueForFine
  <1>4. Typed'
    BY <1>0, <1>2, <1>3 DEF Typed
  <1>5. MachineFine(m)'
    BY <1>0, <1>1, <1>2, <1>3 DEF MachineFine, Typed
  <1>6. Apart(m) /\ Honest(copy')
    BY <1>0, <1>2, <1>3 DEF Apart, Typed, Fine
  <1> QED BY <1>4, <1>5, <1>6, OneMachine

LEMMA DiskSaveFine == ASSUME Fine, NEW m \in Machines, DiskSave(m) PROVE Fine' /\ Apart(m)
  <1> DEFINE new == Saved(m, Number(m), file[m])
  <1>0. MachineFine(m) /\ Typed
    BY DEF Fine
  <1>1. Honest(new)
    BY <1>0, SavedHonest DEF MachineFine
  <1>2. /\ window[m] \in {"opening", "open"} /\ QueueFor(m, Disk)
        /\ file' = [file EXCEPT ![m] = new]
        /\ UNCHANGED <<window, listed, mem, row, wrote, stat, caughtUp, copy, answers>>
    BY DEF DiskSave
  <1> HIDE DEF new
  <1>3. /\ DOMAIN job' = Machines /\ DOMAIN queued' = Machines /\ DOMAIN deferred' = Machines
        /\ \A o \in Machines \ {m} :
             job'[o] = job[o] /\ queued'[o] = queued[o] /\ deferred'[o] = deferred[o]
        /\ JobFine(job'[m]) /\ QueuedFine(queued'[m]) /\ DeferredFine(deferred'[m])
        /\ job'[m] = job[m] \/ job'[m].step = "note"
    BY <1>2, QueueForFine, DiskFine
  <1>4. Typed'
    BY <1>0, <1>2, <1>3 DEF Typed
  <1>5. MachineFine(m)'
    BY <1>0, <1>1, <1>2, <1>3 DEF MachineFine, Typed
  <1>6. Apart(m) /\ Honest(copy')
    BY <1>0, <1>2, <1>3 DEF Apart, Typed, Fine
  <1> QED BY <1>4, <1>5, <1>6, OneMachine

LEMMA HeadlessSaveFine == ASSUME Fine, NEW m \in Machines, HeadlessSave(m) PROVE Fine' /\ Apart(m)
  <1> DEFINE new == Saved(m, Number(m), file[m])
  <1>0. MachineFine(m) /\ Typed
    BY DEF Fine
  <1>1. Honest(new)
    BY <1>0, SavedHonest DEF MachineFine
  <1>2. /\ file' = [file EXCEPT ![m] = new] /\ row' = [row EXCEPT ![m] = TRUE]
        /\ UNCHANGED <<window, listed, mem, wrote, stat, deferred, queued, job, caughtUp, copy, answers>>
    BY DEF HeadlessSave
  <1> HIDE DEF new
  <1>4. Typed'
    BY <1>0, <1>2 DEF Typed
  <1>5. MachineFine(m)'
    BY <1>0, <1>1, <1>2 DEF MachineFine, Typed
  <1>6. Apart(m) /\ Honest(copy')
    BY <1>0, <1>2 DEF Apart, Typed, Fine
  <1> QED BY <1>4, <1>5, <1>6, OneMachine

LEMMA ReadFine == ASSUME Fine, NEW m \in Machines, Read(m) PROVE Fine' /\ Apart(m)
  <1>0. MachineFine(m) /\ Typed /\ Honest(file[m])
    BY DEF Fine, MachineFine
  <1>1. /\ window[m] \in {"opening", "open"} /\ listed[m]
        /\ UNCHANGED <<window, listed, file, row, wrote, stat, deferred, queued, job, caughtUp,
                       copy, answers>>
    BY DEF Read, StandsIn
  <1>2. PICK s \in Knows(file[m]) : mem' = [mem EXCEPT ![m] = s]
    BY DEF Read, Knows
  <1>3. Honest(s)
    BY <1>0, KnowsAll
  <1>4. Typed'
    BY <1>0, <1>1, <1>2 DEF Typed
  <1>5. MachineFine(m)'
    BY <1>0, <1>1, <1>2, <1>3 DEF MachineFine, Typed
  <1>6. Apart(m) /\ Honest(copy')
    BY <1>0, <1>1, <1>2 DEF Apart, Typed, Fine
  <1> QED BY <1>4, <1>5, <1>6, OneMachine

LEMMA TurnFine == ASSUME Fine, NEW m \in Machines, Turn(m) PROVE Fine' /\ Apart(m)
  <1>0. MachineFine(m) /\ Typed
    BY DEF Fine
  <1>1. Typed'
    BY <1>0 DEF Typed, Turn
  <1>2. MachineFine(m)'
    BY <1>0, BaseHonest DEF MachineFine, Typed, Turn
  <1>3. Apart(m) /\ Honest(copy')
    BY <1>0 DEF Apart, Typed, Turn, Fine
  <1> QED BY <1>1, <1>2, <1>3, OneMachine

\* A step of the job at most changes its machine's file and row, the record and the copy.
LEMMA JobStepFine ==
  ASSUME Fine, NEW m \in Machines, job[m].step # "idle",
         NEW step \in {"note", "look", "load", "take", "keep", "check", "write", "record",
                       "waiting", "settle", "done"},
         NEW s, Honest(s),
         DOMAIN job' = Machines,
         job'[m] = [step |-> step, kind |-> job[m].kind, side |-> s],
         \A o \in Machines \ {m} : job'[o] = job[o],
         DOMAIN file' = Machines, Honest(file'[m]),
         \A o \in Machines \ {m} : file'[o] = file[o],
         DOMAIN wrote' = Machines, Honest(wrote'[m]),
         \A o \in Machines \ {m} : wrote'[o] = wrote[o],
         row' \in [Machines -> BOOLEAN],
         \A o \in Machines \ {m} : row'[o] = row[o],
         stat' \in [Machines -> BOOLEAN],
         Honest(copy'),
         step \in {"note", "done"} \/ row'[m],
         UNCHANGED <<window, listed, mem, deferred, queued, caughtUp, answers>>
  PROVE  Fine' /\ Apart(m)
  <1>0. MachineFine(m) /\ Typed
    BY DEF Fine
  <1>1. JobFine(job'[m])
    <2>1. JobFine(job[m])
      BY <1>0 DEF MachineFine
    <2>2. JobFine([step |-> step, kind |-> job[m].kind, side |-> s])
      BY <2>1, StepFine
    <2> QED BY <2>2
  <1>2. Typed'
    BY <1>0 DEF Typed
  <1>3. window[m] # "closed"
    BY <1>0 DEF MachineFine, Idle
  <1>4. MachineFine(m)'
    BY <1>0, <1>1, <1>3 DEF MachineFine
  <1>5. Apart(m)
    BY <1>0 DEF Apart
  <1> QED BY <1>2, <1>4, <1>5, OneMachine

LEMMA JobStepsFine == ASSUME Fine, NEW m \in Machines, JobSteps(m) PROVE Fine' /\ Apart(m)
  <1>0. MachineFine(m) /\ Typed /\ Honest(copy) /\ JobFine(job[m]) /\ DOMAIN job = Machines
    BY DEF Fine, MachineFine, Typed
  <1> DEFINE side == job[m].side
             step(t) == [step |-> t, kind |-> job[m].kind, side |-> side]
             apart(j) == DOMAIN j = Machines /\ \A o \in Machines \ {m} : j[o] = job[o]
  <1>a. /\ Honest(side) /\ Honest(file[m]) /\ Honest(wrote[m])
        /\ DOMAIN file = Machines /\ DOMAIN wrote = Machines
        /\ row \in [Machines -> BOOLEAN] /\ stat \in [Machines -> BOOLEAN]
    BY <1>0 DEF MachineFine, JobFine, Typed
  <1>b. \A t : apart(At(m, t)) /\ At(m, t)[m] = step(t)
    BY <1>0, AtIs
  <1>c. \A t, s : /\ apart(Carrying(m, t, s))
                  /\ Carrying(m, t, s)[m] = [step |-> t, kind |-> job[m].kind, side |-> s]
    BY <1>0, CarryingIs
  <1>d. job[m].step \notin {"idle", "note", "done"} => row[m]
    BY <1>0 DEF MachineFine
  <1> HIDE DEF side
  <1>1. CASE JobNotes(m)
    <2>1. job' = At(m, "look") /\ row'[m] /\ row' \in [Machines -> BOOLEAN]
          /\ \A o \in Machines \ {m} : row'[o] = row[o]
      BY <1>1, <1>a DEF JobNotes
    <2>2. job[m].step # "idle"
      BY <1>1 DEF JobNotes
    <2>3. UNCHANGED <<window, listed, mem, file, wrote, stat, deferred, queued, caughtUp, copy, answers>>
      BY <1>1 DEF JobNotes
    <2> QED BY <2>1, <2>2, <2>3, <1>0, <1>a, <1>b, JobStepFine
  <1>2. CASE JobLooks(m)
    <2>1. PICK t \in {"load", "waiting"} : job' = At(m, t)
      BY <1>2 DEF JobLooks
    <2>2. job[m].step = "look"
      BY <1>2 DEF JobLooks
    <2>3. UNCHANGED <<window, listed, mem, file, row, wrote, stat, deferred, queued, caughtUp, copy, answers>>
      BY <1>2 DEF JobLooks
    <2> QED BY <2>1, <2>2, <2>3, <1>0, <1>a, <1>b, <1>d, JobStepFine
  <1>3. CASE JobLoads(m)
    <2>1. \/ \E t \in {"check", "record", "take"} : job' = At(m, t)
          \/ \E s \in {file[m], Join(file[m], job[m].side)} : \E t \in {"check", "keep"} :
               job' = Carrying(m, t, s)
      BY <1>3 DEF JobLoads
    <2>2. job[m].step = "load"
      BY <1>3 DEF JobLoads
    <2>3. UNCHANGED <<window, listed, mem, file, row, wrote, stat, deferred, queued, caughtUp, copy, answers>>
      BY <1>3 DEF JobLoads
    <2>4. Honest(Join(file[m], side))
      BY <1>a, JoinHonest
    <2>5. CASE \E t \in {"check", "record", "take"} : job' = At(m, t)
      <3>1. PICK t \in {"check", "record", "take"} : job' = At(m, t)
        BY <2>5
      <3>2. apart(job') /\ job'[m] = step(t)
        BY <3>1, <1>b
      <3> QED BY <3>2, <2>2, <2>3, <1>0, <1>a, <1>d, JobStepFine
    <2>6. CASE \E s \in {file[m], Join(file[m], job[m].side)} : \E t \in {"check", "keep"} :
                 job' = Carrying(m, t, s)
      <3>1. PICK s \in {file[m], Join(file[m], side)}, t \in {"check", "keep"} :
              job' = Carrying(m, t, s)
        BY <2>6 DEF side
      <3>2. Honest(s)
        BY <1>a, <2>4
      <3>3. apart(job') /\ job'[m] = [step |-> t, kind |-> job[m].kind, side |-> s]
        BY <3>1, <1>c
      <3> QED BY <3>2, <3>3, <2>2, <2>3, <1>0, <1>a, <1>d, JobStepFine
    <2> QED BY <2>1, <2>5, <2>6
  <1>4. CASE JobKeeps(m)
    <2>1. PICK t \in {"record", "check"} : job' = At(m, t)
      BY <1>4 DEF JobKeeps
    <2>2. job[m].step \in {"take", "keep"} /\ file' = [file EXCEPT ![m] = side]
      BY <1>4 DEF JobKeeps, side
    <2>3. UNCHANGED <<window, listed, mem, row, wrote, stat, deferred, queued, caughtUp, copy, answers>>
      BY <1>4 DEF JobKeeps
    <2>4. /\ DOMAIN file' = Machines /\ Honest(file'[m])
          /\ \A o \in Machines \ {m} : file'[o] = file[o]
      BY <2>2, <1>a
    <2>5. apart(job') /\ job'[m] = step(t)
      BY <2>1, <1>b
    <2> QED BY <2>2, <2>3, <2>4, <2>5, <1>0, <1>a, <1>d, JobStepFine
  <1>5. CASE JobChecks(m)
    <2>1. \/ \E t \in {"waiting", "write", "record"} : job' = At(m, t)
          \/ job' = Carrying(m, "settle", copy)
      BY <1>5 DEF JobChecks
    <2>2. job[m].step = "check"
      BY <1>5 DEF JobChecks
    <2>3. UNCHANGED <<window, listed, mem, file, row, wrote, stat, deferred, queued, caughtUp, copy, answers>>
      BY <1>5 DEF JobChecks
    <2>4. CASE \E t \in {"waiting", "write", "record"} : job' = At(m, t)
      <3>1. PICK t \in {"waiting", "write", "record"} : job' = At(m, t)
        BY <2>4
      <3>2. apart(job') /\ job'[m] = step(t)
        BY <3>1, <1>b
      <3> QED BY <3>2, <2>2, <2>3, <1>0, <1>a, <1>d, JobStepFine
    <2>5. CASE job' = Carrying(m, "settle", copy)
      <3>1. apart(job') /\ job'[m] = [step |-> "settle", kind |-> job[m].kind, side |-> copy]
        BY <2>5, <1>c
      <3> QED BY <3>1, <2>2, <2>3, <1>0, <1>a, <1>d, JobStepFine
    <2> QED BY <2>1, <2>4, <2>5
  <1>6. CASE JobWrites(m)
    <2>1. PICK t \in {"waiting", "record"} : job' = At(m, t)
      BY <1>6 DEF JobWrites
    <2>2. job[m].step = "write"
      BY <1>6 DEF JobWrites
    <2>3. UNCHANGED <<window, listed, mem, file, row, wrote, deferred, queued, caughtUp, answers>>
      BY <1>6 DEF JobWrites
    <2>4. Honest(copy') /\ stat' \in [Machines -> BOOLEAN]
      BY <1>0, <1>6, <1>a DEF JobWrites, side
    <2> QED BY <2>1, <2>2, <2>3, <2>4, <1>0, <1>a, <1>b, <1>d, JobStepFine
  <1>7. CASE JobRecords(m)
    <2>1. job' = At(m, "done") /\ job[m].step = "record"
      BY <1>7 DEF JobRecords
    <2>2. UNCHANGED <<window, listed, mem, file, deferred, queued, caughtUp, copy, answers>>
      BY <1>7 DEF JobRecords
    <2>3. /\ DOMAIN wrote' = Machines /\ Honest(wrote'[m])
          /\ \A o \in Machines \ {m} : wrote'[o] = wrote[o] /\ row'[o] = row[o]
          /\ row' \in [Machines -> BOOLEAN] /\ stat' \in [Machines -> BOOLEAN]
      BY <1>7, <1>a DEF JobRecords, side
    <2> QED BY <2>1, <2>2, <2>3, <1>0, <1>a, <1>b, JobStepFine
  <1> QED BY <1>1, <1>2, <1>3, <1>4, <1>5, <1>6, <1>7 DEF JobSteps

LEMMA JobLostFine == ASSUME Fine, NEW m \in Machines, JobLost(m) PROVE Fine' /\ Apart(m)
  <1>0. MachineFine(m) /\ Typed
    BY DEF Fine
  <1>1. /\ job' = [job EXCEPT ![m] = Idle]
        /\ UNCHANGED <<window, listed, mem, file, row, wrote, stat, deferred, queued, caughtUp, copy, answers>>
    BY DEF JobLost
  <1>2. Typed'
    BY <1>0, <1>1 DEF Typed
  <1>3. MachineFine(m)'
    BY <1>0, <1>1, IdleFine DEF MachineFine, Typed, Idle
  <1>4. Apart(m) /\ Honest(copy')
    BY <1>0, <1>1 DEF Apart, Typed, Fine
  <1> QED BY <1>2, <1>3, <1>4, OneMachine

\* A write queued or the next one sent on the window's thread, once the job out is done with.
LEMMA SentFine ==
  ASSUME Fine, NEW m \in Machines, window[m] = "open", window' = window,
         NEW out, DOMAIN out = Machines, out[m] = Idle \/ out[m] = job[m],
         \A o \in Machines \ {m} : out[o] = job[o],
         SendNext(m, out) \/ \E w : Write(w) /\ Queue(m, w, out),
         DOMAIN mem' = Machines, Honest(mem'[m]), mem'[m] # NoSidecar => listed[m],
         \A o \in Machines \ {m} : mem'[o] = mem[o],
         DOMAIN file' = Machines, Honest(file'[m]), \A o \in Machines \ {m} : file'[o] = file[o],
         caughtUp' \in [Machines -> BOOLEAN],
         UNCHANGED <<listed, row, wrote, stat, deferred, copy, answers>>
  PROVE  Fine' /\ Apart(m)
  <1>0. MachineFine(m) /\ Typed /\ JobFine(job[m]) /\ QueuedFine(queued[m])
    BY DEF Fine, MachineFine
  <1>1. DOMAIN queued = Machines
    BY <1>0 DEF Typed
  <1>2. JobFine(out[m]) /\ (out[m].step \notin {"idle", "note", "done"} => row[m])
    BY <1>0, IdleFine DEF Idle, MachineFine
  <1>3. /\ DOMAIN job' = Machines /\ DOMAIN queued' = Machines
        /\ \A o \in Machines \ {m} : job'[o] = job[o] /\ queued'[o] = queued[o]
        /\ JobFine(job'[m]) /\ QueuedFine(queued'[m])
        /\ job'[m].step \notin {"idle", "note", "done"} => row[m]
    <2>1. CASE SendNext(m, out)
      <3>1. /\ DOMAIN job' = Machines /\ DOMAIN queued' = Machines
            /\ \A o \in Machines \ {m} : job'[o] = out[o] /\ queued'[o] = queued[o]
            /\ \/ job'[m] = out[m] /\ queued'[m] = queued[m] /\ queued[m] = NoWrite
               \/ job'[m] = Started(queued[m]) /\ queued'[m] = NoWrite /\ queued[m] # NoWrite
        BY <2>1, <1>1, SendNextIs
      <3> QED BY <3>1, <1>0, <1>2, StartedFine DEF QueuedFine
    <2>2. CASE \E w : Write(w) /\ Queue(m, w, out)
      <3>1. PICK w : Write(w) /\ Queue(m, w, out)
        BY <2>2
      <3>2. /\ DOMAIN job' = Machines /\ DOMAIN queued' = Machines
            /\ \A o \in Machines \ {m} : job'[o] = out[o] /\ queued'[o] = queued[o]
            /\ \/ job'[m] = Started(w) /\ queued'[m] = NoWrite
               \/ job'[m] = out[m] /\ queued'[m] = w
        BY <3>1, <1>1, QueueIs
      <3> QED BY <3>1, <3>2, <1>2, StartedFine DEF QueuedFine
    <2> QED BY <2>1, <2>2
  <1>4. Typed'
    BY <1>0, <1>3 DEF Typed
  <1>5. MachineFine(m)'
    BY <1>0, <1>3 DEF MachineFine
  <1>6. Apart(m) /\ Honest(copy')
    BY <1>3 DEF Apart, Fine
  <1> QED BY <1>4, <1>5, <1>6, OneMachine

LEMMA LandedFine == ASSUME Fine, NEW m \in Machines, Landed(m) PROVE Fine' /\ Apart(m)
  <1> DEFINE out == [job EXCEPT ![m] = Idle]
             side == job[m].side
  <1>0. /\ Honest(mem[m]) /\ Honest(file[m]) /\ Honest(side) /\ (Held(m) => listed[m])
        /\ DOMAIN job = Machines /\ DOMAIN mem = Machines /\ DOMAIN file = Machines
        /\ caughtUp \in [Machines -> BOOLEAN]
    BY DEF Fine, MachineFine, JobFine, Typed, Held
  <1>1. /\ window[m] = "open" /\ window' = window
        /\ UNCHANGED <<listed, row, wrote, stat, deferred, copy, answers>>
    BY DEF Landed
  <1>2. DOMAIN out = Machines /\ out[m] = Idle /\ \A o \in Machines \ {m} : out[o] = job[o]
    BY <1>0
  <1>3. CASE /\ SendNext(m, out) /\ UNCHANGED <<mem, file>>
             /\ caughtUp' \in [Machines -> BOOLEAN]
    BY <1>0, <1>1, <1>2, <1>3, SentFine DEF Held
  <1>4. CASE Queue(m, Settle(side), out) /\ UNCHANGED <<mem, file, caughtUp>>
    <2>1. Write(Settle(side))
      BY <1>0, SettleFine
    <2> QED BY <1>0, <1>1, <1>2, <1>4, <2>1, SentFine DEF Held
  <1>5. CASE Held(m) /\ SettleHeld(m, side, out) /\ UNCHANGED caughtUp
    <2>1. PICK s : /\ Honest(s) /\ Queue(m, Memory(s), out)
                   /\ \/ UNCHANGED <<mem, file>>
                      \/ mem' = [mem EXCEPT ![m] = s] /\ file' = [file EXCEPT ![m] = s]
      <3>1. Honest(Join(mem[m], side))
        BY <1>0, JoinHonest
      <3> QED BY <1>0, <1>5, <3>1 DEF SettleHeld
    <2>2. Write(Memory(s))
      BY <2>1, MemoryFine
    <2>3. /\ DOMAIN mem' = Machines /\ Honest(mem'[m]) /\ listed[m]
          /\ \A o \in Machines \ {m} : mem'[o] = mem[o]
          /\ DOMAIN file' = Machines /\ Honest(file'[m]) /\ \A o \in Machines \ {m} : file'[o] = file[o]
      BY <1>0, <1>5, <2>1
    <2>4. \E w : Write(w) /\ Queue(m, w, out)
      BY <2>1, <2>2
    <2> QED BY <1>0, <1>1, <1>2, <1>5, <2>3, <2>4, SentFine
  <1> QED BY <1>0, <1>3, <1>4, <1>5 DEF Landed

\* The index's rows taken up, at an answer or a click.
LEMMA TakenUpFine ==
  ASSUME Fine, NEW m \in Machines, window[m] = "open",
         \/ Queue(m, IF Held(m) THEN Memory(mem[m]) ELSE Disk, job)
         \/ UNCHANGED <<queued, job>>,
         caughtUp' \in [Machines -> BOOLEAN],
         UNCHANGED <<window, listed, mem, file, row, wrote, stat, deferred, copy, answers>>
  PROVE  Fine' /\ Apart(m)
  <1>0. /\ Honest(mem[m]) /\ Honest(file[m]) /\ Typed /\ MachineFine(m)
        /\ DOMAIN job = Machines /\ DOMAIN mem = Machines /\ DOMAIN file = Machines
    BY DEF Fine, MachineFine, Typed
  <1>1. CASE UNCHANGED <<queued, job>>
    <2>1. Typed'
      BY <1>0, <1>1 DEF Typed
    <2>2. MachineFine(m)'
      BY <1>0, <1>1 DEF MachineFine
    <2>3. Apart(m) /\ Honest(copy')
      BY <1>1 DEF Apart, Fine
    <2> QED BY <2>1, <2>2, <2>3, OneMachine
  <1>2. CASE Queue(m, IF Held(m) THEN Memory(mem[m]) ELSE Disk, job)
    <2>1. Write(IF Held(m) THEN Memory(mem[m]) ELSE Disk)
      BY <1>0, MemoryFine, DiskFine
    <2>2. \E w : Write(w) /\ Queue(m, w, job)
      BY <2>1, <1>2
    <2> QED BY <1>0, <2>2, SentFine DEF MachineFine
  <1> QED BY <1>1, <1>2

LEMMA HeardFine == ASSUME Fine, NEW m \in Machines, Heard(m) PROVE Fine' /\ Apart(m)
  <1>1. caughtUp \in [Machines -> BOOLEAN]
    BY DEF Fine, Typed
  <1>2. /\ window[m] = "open" /\ caughtUp' \in [Machines -> BOOLEAN]
        /\ UNCHANGED <<window, listed, mem, file, row, wrote, stat, deferred, copy, answers>>
    BY <1>1 DEF Heard
  <1>3. \/ Queue(m, IF Held(m) THEN Memory(mem[m]) ELSE Disk, job)
        \/ UNCHANGED <<queued, job>>
    BY DEF Heard
  <1> QED BY <1>2, <1>3, TakenUpFine

LEMMA RetryFine == ASSUME Fine, NEW m \in Machines, Retry(m) PROVE Fine' /\ Apart(m)
  <1>1. caughtUp \in [Machines -> BOOLEAN]
    BY DEF Fine, Typed
  <1>2. /\ window[m] = "open" /\ caughtUp' \in [Machines -> BOOLEAN]
        /\ UNCHANGED <<window, listed, mem, file, row, wrote, stat, deferred, copy, answers>>
    BY <1>1 DEF Retry
  <1>3. Queue(m, IF Held(m) THEN Memory(mem[m]) ELSE Disk, job)
    BY DEF Retry
  <1> QED BY <1>2, <1>3, TakenUpFine

LEMMA QuitFine == ASSUME Fine, NEW m \in Machines, Quit(m) PROVE Fine' /\ Apart(m)
  <1> DEFINE new == Saved(m, Number(m), mem[m])
  <1>0. MachineFine(m) /\ Typed
    BY DEF Fine
  <1>1. Honest(new)
    BY <1>0, SavedHonest DEF MachineFine
  <1>2. /\ window' = [window EXCEPT ![m] = "closing"]
        /\ deferred' = [deferred EXCEPT ![m] = <<>>]
        /\ queued' = [queued EXCEPT ![m] = NoWrite]
        /\ UNCHANGED <<listed, wrote, stat, job, caughtUp, copy, answers>>
    BY DEF Quit
  <1>3. /\ \/ Held(m) /\ mem' = [mem EXCEPT ![m] = new] /\ file' = [file EXCEPT ![m] = new]
           \/ UNCHANGED <<mem, file>>
        /\ row' = [row EXCEPT ![m] = TRUE] \/ row' = [row EXCEPT ![m] = @ \/ Unsent(m)]
    BY DEF Quit
  <1> HIDE DEF new
  <1>4. /\ row' \in [Machines -> BOOLEAN]
        /\ row[m] => row'[m]
        /\ \A o \in Machines \ {m} : row'[o] = row[o]
    <2>1. Unsent(m) \in BOOLEAN
      BY DEF Unsent
    <2>2. row \in [Machines -> BOOLEAN]
      BY <1>0 DEF Typed
    <2> QED BY <1>3, <2>1, <2>2
  <1>5. Typed'
    BY <1>0, <1>2, <1>3, <1>4 DEF Typed
  <1>6. Honest(mem'[m]) /\ Honest(file'[m]) /\ (mem'[m] # NoSidecar => listed'[m])
    BY <1>0, <1>1, <1>2, <1>3 DEF MachineFine, Typed, Held
  <1>7. MachineFine(m)'
    <2>1. window'[m] = "closing" /\ deferred'[m] = <<>> /\ queued'[m] = NoWrite
      BY <1>0, <1>2 DEF Typed
    <2>2. DeferredFine(deferred'[m]) /\ QueuedFine(queued'[m])
      BY <2>1, DeferredEmpty DEF QueuedFine
    <2>3. job'[m] = job[m] /\ wrote'[m] = wrote[m] /\ JobFine(job[m]) /\ Honest(wrote[m])
      BY <1>0, <1>2 DEF MachineFine
    <2>4. job'[m].step \notin {"idle", "note", "done"} => row'[m]
      BY <1>0, <1>4, <2>3 DEF MachineFine
    <2> QED BY <1>6, <2>1, <2>2, <2>3, <2>4 DEF MachineFine
  <1>8. Apart(m) /\ Honest(copy')
    BY <1>0, <1>2, <1>3, <1>4 DEF Apart, Typed, Fine
  <1> QED BY <1>5, <1>7, <1>8, OneMachine

LEMMA GoneFine == ASSUME Fine, NEW m \in Machines, Gone(m) PROVE Fine' /\ Apart(m)
  <1>0. MachineFine(m) /\ Typed
    BY DEF Fine
  <1>1. Typed'
    BY <1>0 DEF Typed, Gone
  <1>2. MachineFine(m)'
    BY <1>0, BaseHonest, IdleFine, DeferredEmpty
    DEF MachineFine, Typed, Gone, QueuedFine, Idle
  <1>3. Apart(m) /\ Honest(copy')
    BY <1>0 DEF Apart, Typed, Gone, Fine
  <1> QED BY <1>1, <1>2, <1>3, OneMachine

LEMMA ArchiveFine == ASSUME Fine, ArchiveGoes \/ ArchiveReturns PROVE Fine'
  <1>1. /\ UNCHANGED <<window, listed, mem, file, row, wrote, stat, deferred, queued, job, caughtUp, copy>>
        /\ answers' \in BOOLEAN
    BY DEF ArchiveGoes, ArchiveReturns
  <1>2. Typed'
    BY <1>1 DEF Fine, Typed
  <1>3. Honest(copy') /\ \A m \in Machines : MachineFine(m)'
    BY <1>1 DEF Fine, MachineFine
  <1> QED BY <1>2, <1>3 DEF Fine

LEMMA NextFine == Fine /\ [Next]_vars => Fine'
  <1> SUFFICES ASSUME Fine, [Next]_vars PROVE Fine'
    OBVIOUS
  <1>1. ASSUME NEW m \in Machines,
               \/ Open(m) \/ ReaderOpened(m) \/ Read(m) \/ Turn(m)
               \/ Save(m) \/ DiskSave(m) \/ HeadlessSave(m)
        PROVE Fine'
    BY <1>1, OpenFine, ReaderOpenedFine, ReadFine, SaveFine, DiskSaveFine, HeadlessSaveFine, TurnFine
  <1>2. ASSUME NEW m \in Machines,
               JobSteps(m) \/ JobLost(m) \/ Landed(m) \/ Heard(m) \/ Retry(m) \/ Quit(m)
        PROVE Fine'
    BY <1>2, JobStepsFine, JobLostFine, LandedFine, HeardFine, RetryFine, QuitFine
  <1>3. ASSUME NEW m \in Machines, End(m) \/ Crash(m) PROVE Fine'
    BY <1>3, GoneFine DEF End, Crash
  <1>4. CASE UNCHANGED vars
    BY <1>4 DEF vars, Fine, Typed, MachineFine
  <1> QED BY <1>1, <1>2, <1>3, <1>4, ArchiveFine DEF Next

LEMMA AlwaysFine == Spec => []Fine
  BY InitFine, NextFine, PTL DEF Spec

-----------------------------------------------------------------------------
(* What Fine gives every run *)

LEMMA FineTypes == Fine => TypeOK
  <1> SUFFICES ASSUME Fine PROVE TypeOK
    OBVIOUS
  <1>1. ASSUME NEW m \in Machines
        PROVE  /\ queued[m].kind \in {"none", "memory", "disk", "settle"}
               /\ job[m].kind \in {"none", "memory", "disk", "settle"}
               /\ job[m].step \in {"idle", "note", "look", "load", "take", "keep", "check",
                                   "write", "record", "waiting", "settle", "done"}
               /\ job[m].step = "idle" <=> job[m].kind = "none"
               /\ mem[m] # NoSidecar => listed[m]
               /\ window[m] = "closed" => /\ ~listed[m]
                                          /\ job[m] = Idle /\ queued[m] = NoWrite
                                          /\ deferred[m] = <<>>
    <2>1. MachineFine(m)
      BY DEF Fine
    <2>2. queued[m].kind \in {"none", "memory", "disk", "settle"}
      BY <2>1 DEF MachineFine, QueuedFine, Write, NoWrite
    <2> QED BY <2>1, <2>2 DEF MachineFine, JobFine
  <1> QED BY <1>1 DEF Fine, Typed, TypeOK

LEMMA FineHonest == Fine => LineageHonest
  <1> SUFFICES ASSUME Fine, NEW s \in Everywhere PROVE Honest(s)
    BY DEF LineageHonest, Honest, Whole, Knows
  <1> DEFINE ofMachine == {{mem[m], file[m], wrote[m], queued[m].side, job[m].side} : m \in Machines}
             ofReader == {{deferred[m][i].side : i \in DOMAIN deferred[m]} : m \in Machines}
  <1>1. CASE s = copy
    BY <1>1 DEF Fine
  <1>2. CASE \E m \in Machines : s \in {mem[m], file[m], wrote[m], queued[m].side, job[m].side}
    <2>1. PICK m \in Machines : s \in {mem[m], file[m], wrote[m], queued[m].side, job[m].side}
      BY <1>2
    <2>2. MachineFine(m)
      BY DEF Fine
    <2>3. Honest(queued[m].side)
      BY <2>2, BaseHonest DEF MachineFine, QueuedFine, Write, NoWrite
    <2> QED BY <2>1, <2>2, <2>3 DEF MachineFine, JobFine
  <1>3. CASE \E m \in Machines : \E i \in DOMAIN deferred[m] : s = deferred[m][i].side
    <2>0. PICK m \in Machines : \E i \in DOMAIN deferred[m] : s = deferred[m][i].side
      BY <1>3
    <2>1. PICK i \in DOMAIN deferred[m] : s = deferred[m][i].side
      BY <2>0
    <2>2. DeferredFine(deferred[m])
      BY DEF Fine, MachineFine
    <2>3. PICK S : deferred[m] \in Seq(S) /\ \A w \in S : Kept(w)
      BY <2>2 DEF DeferredFine
    <2>4. deferred[m][i] \in S
      BY <2>1, <2>3
    <2> QED BY <2>1, <2>3, <2>4 DEF Kept
  <1>4. ASSUME s \in UNION ofMachine
        PROVE  Honest(s)
    <2>1. PICK T \in ofMachine : s \in T
      BY <1>4
    <2> QED BY <2>1, <1>2
  <1>5. ASSUME s \in UNION ofReader
        PROVE  Honest(s)
    <2>1. PICK T \in ofReader : s \in T
      BY <1>5
    <2>2. PICK m \in Machines : T = {deferred[m][i].side : i \in DOMAIN deferred[m]}
      BY <2>1
    <2> QED BY <2>1, <2>2, <1>3
  <1>6. s \in {copy} \cup (UNION ofMachine) \cup (UNION ofReader)
    BY DEF Everywhere, Sides
  <1> QED BY <1>1, <1>4, <1>5, <1>6

LEMMA FineLeavesRow == Fine => JobLeavesRow
  BY DEF Fine, MachineFine, JobLeavesRow

\* Types: a window that has closed has no write queued, kept or out.
THEOREM TypeCorrect == Spec => []TypeOK
  BY AlwaysFine, FineTypes, PTL

\* sync::compare's answer from the latest revisions alone is an answer about all that the
\* two sidecars hold, however often sidecars were joined, taken whole, or lost with a window.
THEOREM LineageCorrect == Spec => []LineageHonest
  BY AlwaysFine, FineHonest, PTL

\* write_copy notes its row before anything else: from then on, whatever ends the job
\* leaves the row, until the write is recorded.
THEOREM LeavesRowCorrect == Spec => []JobLeavesRow
  BY AlwaysFine, FineLeavesRow, PTL

-----------------------------------------------------------------------------
(* A window that lists its frame as long as it is open: no turn, and no gap *)

\* What the window holds is what is in the file, and nothing is settled on disk.
HoldsFile(m) ==
  /\ file[m] # NoSidecar
  /\ Held(m) => mem[m] = file[m]
  /\ window[m] \in {"opening", "open"} => listed[m]
  /\ queued[m].kind # "settle"
  /\ job[m].kind # "settle"
  /\ job[m].step \notin {"take", "keep"}
  /\ job[m].step = "settle" => job[m].side # NoSidecar

\* No turn is left to make.
NoTurns ==
  /\ left = [saves |-> left.saves, turns |-> left.turns, closes |-> left.closes,
             outages |-> left.outages, lost |-> left.lost]
  /\ \A m \in Machines : left.turns[m] = 0

Steady == ~Gap /\ Fine /\ NoTurns /\ \A m \in Machines : HoldsFile(m)

LEMMA SidecarsAreThere ==
  /\ Base # NoSidecar
  /\ \A a, b : Join(a, b) # NoSidecar
  /\ \A m \in Machines : \A n, s : Saved(m, n, s) # NoSidecar
  <1>1. Base.by # NoSidecar.by
    BY DEF Base, NoSidecar
  <1>2. ASSUME NEW a, NEW b PROVE Join(a, b).by # NoSidecar.by
    BY DEF Join, NoSidecar
  <1>3. ASSUME NEW m \in Machines, NEW n, NEW s PROVE Saved(m, n, s).by # NoSidecar.by
    BY DEF Saved, NoSidecar
  <1> QED BY <1>1, <1>2, <1>3

LEMMA InitSteady == ASSUME ~Gap, MaxTurns = 0 PROVE Init => Steady
  <1> SUFFICES ASSUME Init PROVE Steady
    OBVIOUS
  <1>1. NoTurns
    BY DEF Init, NoTurns
  <1>2. ASSUME NEW m \in Machines PROVE HoldsFile(m)
    BY SidecarsAreThere DEF Init, HoldsFile, Held, Idle, NoWrite
  <1> QED BY <1>1, <1>2, InitFine DEF Steady

LEMMA NextNoTurns ==
  ASSUME NoTurns, [Next]_vars
  PROVE  NoTurns'
  <1>1. ASSUME NEW m \in Machines, Save(m) \/ DiskSave(m) \/ HeadlessSave(m) PROVE NoTurns'
    BY <1>1 DEF NoTurns, Save, DiskSave, HeadlessSave, UsesSave
  <1>2. ASSUME NEW m \in Machines, Turn(m) PROVE NoTurns'
    BY <1>2 DEF NoTurns, Turn
  <1>3. ASSUME NEW m \in Machines, JobLost(m) PROVE NoTurns'
    BY <1>3 DEF NoTurns, JobLost
  <1>4. ASSUME NEW m \in Machines, Quit(m) PROVE NoTurns'
    BY <1>4 DEF NoTurns, Quit
  <1>5. ASSUME NEW m \in Machines, Crash(m) PROVE NoTurns'
    BY <1>5 DEF NoTurns, Crash
  <1>6. CASE ArchiveGoes
    BY <1>6 DEF NoTurns, ArchiveGoes
  <1>7. CASE UNCHANGED left
    BY <1>7 DEF NoTurns
  <1>8. ASSUME NEW m \in Machines,
               \/ Open(m) \/ ReaderOpened(m) \/ Read(m) \/ JobSteps(m) \/ Landed(m) \/ Heard(m) \/ Retry(m) \/ End(m)
        PROVE UNCHANGED left
    <2>1. CASE JobSteps(m)
      BY <2>1 DEF JobSteps, JobNotes, JobLooks, JobLoads, JobKeeps, JobChecks, JobWrites, JobRecords
    <2> QED BY <1>8, <2>1 DEF Open, ReaderOpened, Read, Landed, Heard, Retry, End
  <1>9. CASE ArchiveReturns \/ UNCHANGED vars
    BY <1>7, <1>9 DEF ArchiveReturns, vars
  <1> QED BY <1>1, <1>2, <1>3, <1>4, <1>5, <1>6, <1>7, <1>8, <1>9 DEF Next

\* What a step keeps of the files.
FilesGrow == \A m \in Machines : Knows(file[m]) \subseteq Knows(file'[m])

LEMMA OneHolds ==
  ASSUME Steady, NEW m \in Machines, Apart(m), HoldsFile(m)',
         Knows(file[m]) \subseteq Knows(file'[m])
  PROVE  FilesGrow /\ \A o \in Machines : HoldsFile(o)'
  <1>1. ASSUME NEW o \in Machines, o # m
        PROVE HoldsFile(o)' /\ Knows(file[o]) \subseteq Knows(file'[o])
    BY <1>1 DEF Steady, HoldsFile, Held, Apart
  <1> QED BY <1>1 DEF FilesGrow

\* The window's own steps: a save is on top of what is in the file.
LEMMA UserHolds ==
  ASSUME Steady, NEW m \in Machines,
         Open(m) \/ ReaderOpened(m) \/ Read(m) \/ Save(m) \/ DiskSave(m) \/ HeadlessSave(m)
  PROVE  FilesGrow /\ \A o \in Machines : HoldsFile(o)'
  <1>0. HoldsFile(m) /\ MachineFine(m) /\ Typed /\ Fine
    BY DEF Steady, Fine
  <1>a. DOMAIN file = Machines /\ DOMAIN mem = Machines /\ DOMAIN job = Machines
        /\ DOMAIN queued = Machines /\ window \in [Machines -> {"closed", "opening", "open", "closing"}]
        /\ listed \in [Machines -> BOOLEAN]
    BY <1>0 DEF Typed
  <1>b. \A w : Started(w).kind = w.kind /\ Started(w).step = "note"
    BY DEF Started
  <1>1. CASE Open(m)
    <2>1. window' = [window EXCEPT ![m] = "opening"] /\ listed' = [listed EXCEPT ![m] = TRUE]
          /\ UNCHANGED <<mem, file, queued, job>>
      BY <1>1 DEF Open
    <2>2. listed'[m] /\ HoldsFile(m)'
      BY <1>0, <1>a, <2>1 DEF HoldsFile, Held
    <2> QED BY <1>0, <1>1, <2>1, <2>2, OpenFine, OneHolds
  <1>2. CASE ReaderOpened(m)
    <2>1. deferred[m] # <<>> => Kept(Head(deferred[m])) /\ Kept(deferred[m][Len(deferred[m])])
      BY <1>0, DeferredEnds DEF MachineFine
    <2>2. job'[m].kind # "settle" /\ job'[m].step \in {job[m].step, "note"}
          /\ (job'[m] = job[m] \/ job'[m].step = "note")
      BY <1>0, <1>a, <1>b, <1>2, <2>1 DEF ReaderOpened, Kept, HoldsFile
    <2>3. queued'[m].kind # "settle"
      BY <1>0, <1>a, <1>2, <2>1 DEF ReaderOpened, Kept, HoldsFile, NoWrite
    <2>4. HoldsFile(m)' /\ UNCHANGED file
      BY <1>0, <1>a, <1>2, <2>2, <2>3 DEF HoldsFile, ReaderOpened, Held
    <2> QED BY <1>0, <1>2, <2>4, ReaderOpenedFine, OneHolds
  <1>3. ASSUME NEW w, w.kind \in {"memory", "disk"}, QueueFor(m, w)
        PROVE  /\ queued'[m].kind # "settle" /\ job'[m].kind # "settle"
               /\ job'[m] = job[m] \/ job'[m].step = "note"
    <2>1. CASE Queue(m, w, job)
      BY <1>0, <1>a, <1>b, <1>3, <2>1, QueueIs DEF HoldsFile, NoWrite
    <2>2. CASE UNCHANGED <<queued, job>>
      BY <1>0, <2>2 DEF HoldsFile
    <2> QED BY <1>3, <2>1, <2>2 DEF QueueFor
  <1>4. CASE Save(m)
    <2> DEFINE new == Saved(m, Number(m), mem[m])
    <2>1. new # NoSidecar /\ Knows(mem[m]) \subseteq Knows(new)
      BY <1>0, SidecarsAreThere, SavedHonest DEF MachineFine
    <2>2. /\ window[m] \in {"opening", "open"} /\ QueueFor(m, Memory(new))
          /\ mem' = [mem EXCEPT ![m] = new] /\ file' = [file EXCEPT ![m] = new]
          /\ Held(m) /\ UNCHANGED <<window, listed>>
      BY <1>4 DEF Save
    <2> HIDE DEF new
    <2>3. /\ queued'[m].kind # "settle" /\ job'[m].kind # "settle"
          /\ job'[m] = job[m] \/ job'[m].step = "note"
      BY <1>3, <2>2 DEF Memory
    <2>4. mem'[m] = new /\ file'[m] = new /\ mem[m] = file[m]
      BY <1>0, <1>a, <2>2 DEF HoldsFile
    <2>5. HoldsFile(m)'
      BY <1>0, <2>1, <2>2, <2>3, <2>4 DEF HoldsFile, Held
    <2> QED BY <1>0, <1>4, <2>1, <2>4, <2>5, SaveFine, OneHolds
  <1>5. CASE DiskSave(m)
    <2> DEFINE new == Saved(m, Number(m), file[m])
    <2>1. new # NoSidecar /\ Knows(file[m]) \subseteq Knows(new)
      BY <1>0, SidecarsAreThere, SavedHonest DEF MachineFine
    <2>2. /\ QueueFor(m, Disk) /\ file' = [file EXCEPT ![m] = new]
          /\ ~Held(m) /\ UNCHANGED <<window, listed, mem>>
      BY <1>5 DEF DiskSave
    <2> HIDE DEF new
    <2>3. /\ queued'[m].kind # "settle" /\ job'[m].kind # "settle"
          /\ job'[m] = job[m] \/ job'[m].step = "note"
      BY <1>3, <2>2 DEF Disk
    <2>4. HoldsFile(m)' /\ file'[m] = new
      BY <1>0, <1>a, <2>1, <2>2, <2>3 DEF HoldsFile, Held
    <2> QED BY <1>0, <1>5, <2>1, <2>4, DiskSaveFine, OneHolds
  <1>7. CASE Read(m)
    <2>1. mem'[m] = file[m] /\ UNCHANGED <<window, listed, file, queued, job>>
      BY <1>a, <1>7 DEF Read, Steady
    <2>2. HoldsFile(m)'
      BY <1>0, <2>1 DEF HoldsFile, Held
    <2> QED BY <1>0, <1>7, <2>1, <2>2, ReadFine, OneHolds
  <1>6. CASE HeadlessSave(m)
    <2> DEFINE new == Saved(m, Number(m), file[m])
    <2>1. new # NoSidecar /\ Knows(file[m]) \subseteq Knows(new)
      BY <1>0, SidecarsAreThere, SavedHonest DEF MachineFine
    <2>2. /\ window[m] = "closed" /\ file' = [file EXCEPT ![m] = new]
          /\ UNCHANGED <<window, listed, mem, queued, job>>
      BY <1>6 DEF HeadlessSave
    <2> HIDE DEF new
    <2>3. ~Held(m)
      BY <1>0, <2>2 DEF MachineFine, Held
    <2>4. HoldsFile(m)' /\ file'[m] = new
      BY <1>0, <1>a, <2>1, <2>2, <2>3 DEF HoldsFile, Held
    <2> QED BY <1>0, <1>6, <2>1, <2>4, HeadlessSaveFine, OneHolds
  <1> QED BY <1>1, <1>2, <1>4, <1>5, <1>6, <1>7

\* A write queued on the window's thread, or the next one sent.
LEMMA SentHolds ==
  ASSUME Steady, NEW m \in Machines, NEW out, DOMAIN out = Machines,
         out[m] = Idle \/ out[m] = job[m],
         SendNext(m, out) \/ \E w : w.kind \in {"memory", "disk"} /\ Queue(m, w, out)
  PROVE  /\ queued'[m].kind # "settle" /\ job'[m].kind # "settle"
         /\ job'[m].step \notin {"take", "keep"}
         /\ job'[m].step = "settle" => job'[m] = job[m]
  <1>0. HoldsFile(m) /\ DOMAIN queued = Machines
    BY DEF Steady, Fine, Typed
  <1>a. \A w : Started(w).kind = w.kind /\ Started(w).step = "note"
    BY DEF Started
  <1>1. CASE SendNext(m, out)
    <2>1. \/ job'[m] = out[m] /\ queued'[m] = queued[m]
          \/ job'[m] = Started(queued[m]) /\ queued'[m] = NoWrite
      BY <1>0, <1>1, SendNextIs
    <2> QED BY <1>0, <1>a, <2>1 DEF HoldsFile, NoWrite, Idle
  <1>2. CASE \E w : w.kind \in {"memory", "disk"} /\ Queue(m, w, out)
    <2>1. PICK w : w.kind \in {"memory", "disk"} /\ Queue(m, w, out)
      BY <1>2
    <2>2. \/ job'[m] = Started(w) /\ queued'[m] = NoWrite
          \/ job'[m] = out[m] /\ queued'[m] = w
      BY <1>0, <2>1, QueueIs
    <2> QED BY <1>0, <1>a, <2>1, <2>2 DEF HoldsFile, NoWrite, Idle
  <1> QED BY <1>1, <1>2

LEMMA LandedHolds ==
  ASSUME Steady, NEW m \in Machines, Landed(m)
  PROVE  FilesGrow /\ \A o \in Machines : HoldsFile(o)'
  <1> DEFINE out == [job EXCEPT ![m] = Idle]
             theirs == job[m].side
  <1>0. HoldsFile(m) /\ MachineFine(m) /\ Fine
    BY DEF Steady, Fine
  <1>a. /\ DOMAIN file = Machines /\ DOMAIN mem = Machines /\ DOMAIN job = Machines
        /\ Honest(theirs) /\ Honest(mem[m])
    BY <1>0 DEF Fine, Typed, MachineFine, JobFine
  <1>b. DOMAIN out = Machines /\ out[m] = Idle
    BY <1>a
  <1>1. /\ window[m] = "open" /\ listed[m] /\ UNCHANGED <<window, listed>>
        /\ Held(m) => mem[m] = file[m]
    BY <1>0 DEF Landed, HoldsFile
  <1>2. CASE SendNext(m, out) /\ UNCHANGED <<mem, file>>
    <2>1. HoldsFile(m)'
      BY <1>0, <1>b, <1>1, <1>2, SentHolds DEF HoldsFile, Held
    <2> QED BY <1>0, <1>2, <2>1, LandedFine, OneHolds
  <1>3. CASE job[m].step = "settle" /\ Held(m) /\ SettleHeld(m, theirs, out)
    <2>1. PICK s : /\ s # NoSidecar /\ Knows(mem[m]) \subseteq Knows(s) /\ Queue(m, Memory(s), out)
                   /\ \/ UNCHANGED <<mem, file>>
                      \/ mem' = [mem EXCEPT ![m] = s] /\ file' = [file EXCEPT ![m] = s]
      <3>1. CASE Queue(m, Memory(mem[m]), out) /\ UNCHANGED <<mem, file>>
        BY <1>0, <1>1, <1>3, <3>1 DEF HoldsFile
      <3>2. CASE /\ BehindLocal(mem[m], theirs) /\ Queue(m, Memory(theirs), out)
                 /\ mem' = [mem EXCEPT ![m] = theirs] /\ file' = [file EXCEPT ![m] = theirs]
        <4>1. Knows(mem[m]) \subseteq Knows(theirs)
          BY <1>a, <3>2, KnowsAll DEF BehindLocal
        <4>2. theirs # NoSidecar
          BY <1>0, <1>3 DEF HoldsFile
        <4> QED BY <3>2, <4>1, <4>2
      <3>3. CASE /\ Queue(m, Memory(Join(mem[m], theirs)), out)
                 /\ mem' = [mem EXCEPT ![m] = Join(mem[m], theirs)]
                 /\ file' = [file EXCEPT ![m] = Join(mem[m], theirs)]
        <4>1. Knows(mem[m]) \subseteq Knows(Join(mem[m], theirs))
          BY <1>a, JoinHonest
        <4> QED BY <3>3, <4>1, SidecarsAreThere
      <3> QED BY <1>3, <3>1, <3>2, <3>3 DEF SettleHeld
    <2>2. \E w : w.kind \in {"memory", "disk"} /\ Queue(m, w, out)
      <3>1. Memory(s).kind = "memory"
        BY DEF Memory
      <3> QED BY <2>1, <3>1
    <2>3. mem'[m] = file'[m] /\ file'[m] \in {s, file[m]} /\ mem[m] = file[m]
      BY <1>1, <1>3, <1>a, <2>1
    <2>4. /\ queued'[m].kind # "settle" /\ job'[m].kind # "settle"
          /\ job'[m].step \notin {"take", "keep"}
          /\ job'[m].step = "settle" => job'[m] = job[m]
      BY <1>b, <2>2, SentHolds
    <2>5. HoldsFile(m)' /\ Knows(file[m]) \subseteq Knows(file'[m])
      BY <1>0, <1>1, <2>1, <2>3, <2>4 DEF HoldsFile, Held
    <2> QED BY <1>0, <2>5, LandedFine, OneHolds
  <1> QED BY <1>1, <1>2, <1>3 DEF Landed

LEMMA TakenUpHolds ==
  ASSUME Steady, NEW m \in Machines, Heard(m) \/ Retry(m)
  PROVE  FilesGrow /\ \A o \in Machines : HoldsFile(o)'
  <1> DEFINE w == IF Held(m) THEN Memory(mem[m]) ELSE Disk
  <1>0. HoldsFile(m) /\ Fine /\ DOMAIN job = Machines
    BY DEF Steady, Fine, Typed
  <1>1. Queue(m, w, job) \/ UNCHANGED <<queued, job>>
    BY DEF Heard, Retry
  <1>2. UNCHANGED <<window, listed, mem, file>>
    BY DEF Heard, Retry
  <1>3. w.kind \in {"memory", "disk"}
    BY DEF Memory, Disk
  <1>4. HoldsFile(m)'
    <2>1. CASE Queue(m, w, job)
      BY <1>0, <1>2, <1>3, <2>1, SentHolds DEF HoldsFile, Held
    <2>2. CASE UNCHANGED <<queued, job>>
      BY <1>0, <1>2, <2>2 DEF HoldsFile, Held
    <2> QED BY <1>1, <2>1, <2>2
  <1> QED BY <1>0, <1>2, <1>4, HeardFine, RetryFine, OneHolds

\* The window's end, and a job's: nothing in the file goes.
LEMMA EndHolds ==
  ASSUME Steady, NEW m \in Machines, JobLost(m) \/ Quit(m) \/ End(m) \/ Crash(m)
  PROVE  FilesGrow /\ \A o \in Machines : HoldsFile(o)'
  <1>0. HoldsFile(m) /\ MachineFine(m) /\ Fine
    BY DEF Steady, Fine
  <1>a. /\ DOMAIN file = Machines /\ DOMAIN mem = Machines /\ DOMAIN job = Machines
        /\ DOMAIN queued = Machines
        /\ window \in [Machines -> {"closed", "opening", "open", "closing"}]
    BY <1>0 DEF Fine, Typed
  <1>1. CASE JobLost(m)
    <2>1. HoldsFile(m)' /\ UNCHANGED file
      BY <1>0, <1>a, <1>1 DEF HoldsFile, JobLost, Idle, Held
    <2> QED BY <1>0, <1>1, <2>1, JobLostFine, OneHolds
  <1>2. CASE Quit(m)
    <2> DEFINE new == Saved(m, Number(m), mem[m])
    <2>1. new # NoSidecar /\ Knows(mem[m]) \subseteq Knows(new)
      BY <1>0, SidecarsAreThere, SavedHonest DEF MachineFine
    <2>2. /\ window[m] \in {"opening", "open"} /\ window' = [window EXCEPT ![m] = "closing"]
          /\ \/ Held(m) /\ mem' = [mem EXCEPT ![m] = new] /\ file' = [file EXCEPT ![m] = new]
             \/ UNCHANGED <<mem, file>>
          /\ queued' = [queued EXCEPT ![m] = NoWrite] /\ UNCHANGED job
      BY <1>2 DEF Quit
    <2> HIDE DEF new
    <2>3. HoldsFile(m)' /\ Knows(file[m]) \subseteq Knows(file'[m])
      BY <1>0, <1>a, <2>1, <2>2 DEF HoldsFile, Held, NoWrite
    <2> QED BY <1>0, <1>2, <2>3, QuitFine, OneHolds
  <1>3. CASE End(m) \/ Crash(m)
    <2>1. Gone(m)
      BY <1>3 DEF End, Crash
    <2>2. HoldsFile(m)' /\ UNCHANGED file
      BY <1>0, <1>a, <2>1 DEF HoldsFile, Gone, Held, Idle, NoWrite
    <2> QED BY <1>0, <2>1, <2>2, GoneFine, OneHolds
  <1> QED BY <1>1, <1>2, <1>3

LEMMA JobHolds ==
  ASSUME Steady, NEW m \in Machines, JobSteps(m)
  PROVE  FilesGrow /\ \A o \in Machines : HoldsFile(o)'
  <1>0. HoldsFile(m) /\ Fine /\ JobFine(job[m]) /\ DOMAIN job = Machines
    BY DEF Steady, Fine, Typed, MachineFine
  <1>a. \A t : At(m, t)[m] = [step |-> t, kind |-> job[m].kind, side |-> job[m].side]
    BY <1>0, AtIs
  <1>b. \A t, s : Carrying(m, t, s)[m] = [step |-> t, kind |-> job[m].kind, side |-> s]
    BY <1>0, CarryingIs
  <1>1. ~JobKeeps(m)
    BY <1>0 DEF JobKeeps, HoldsFile
  <1>2. UNCHANGED <<window, listed, mem, file, queued>>
    BY <1>1 DEF JobSteps, JobNotes, JobLooks, JobLoads, JobChecks, JobWrites, JobRecords
  <1>3. \/ \E t \in {"look", "load", "waiting", "check", "write", "record", "done"} : job' = At(m, t)
        \/ job' = Carrying(m, "check", file[m])
        \/ job' = Carrying(m, "settle", copy) /\ copy # NoSidecar
    <2>1. CASE JobLoads(m)
      BY <1>0, <2>1 DEF JobLoads, HoldsFile
    <2>2. CASE JobChecks(m)
      BY <2>2 DEF JobChecks, Ours
    <2> QED BY <1>1, <2>1, <2>2 DEF JobSteps, JobNotes, JobLooks, JobWrites, JobRecords
  <1>4. /\ job'[m].kind # "settle" /\ job'[m].step \notin {"take", "keep"}
        /\ job'[m].step = "settle" => job'[m].side # NoSidecar
    <2>1. CASE \E t \in {"look", "load", "waiting", "check", "write", "record", "done"} : job' = At(m, t)
      <3>1. PICK t \in {"look", "load", "waiting", "check", "write", "record", "done"} : job' = At(m, t)
        BY <2>1
      <3>2. job'[m] = [step |-> t, kind |-> job[m].kind, side |-> job[m].side]
        BY <3>1, <1>a
      <3> QED BY <1>0, <3>2 DEF HoldsFile
    <2>2. CASE job' = Carrying(m, "check", file[m])
      <3>1. job'[m] = [step |-> "check", kind |-> job[m].kind, side |-> file[m]]
        BY <2>2, <1>b
      <3> QED BY <1>0, <3>1 DEF HoldsFile
    <2>3. CASE job' = Carrying(m, "settle", copy) /\ copy # NoSidecar
      <3>1. job'[m] = [step |-> "settle", kind |-> job[m].kind, side |-> copy]
        BY <2>3, <1>b
      <3> QED BY <1>0, <2>3, <3>1 DEF HoldsFile
    <2> QED BY <1>3, <2>1, <2>2, <2>3
  <1>5. HoldsFile(m)'
    BY <1>0, <1>2, <1>4 DEF HoldsFile, Held
  <1> QED BY <1>0, <1>2, <1>5, JobStepsFine, OneHolds

LEMMA NextSteady ==
  ASSUME Steady, [Next]_vars
  PROVE  Steady' /\ FilesGrow
  <1>1. Fine' /\ NoTurns'
    BY NextFine, NextNoTurns DEF Steady
  <1>2. ASSUME NEW m \in Machines, Turn(m) PROVE FALSE
    BY <1>2 DEF Turn, Steady, NoTurns
  <1>3. CASE UNCHANGED vars \/ ArchiveGoes \/ ArchiveReturns
    <2>1. UNCHANGED <<window, listed, mem, file, queued, job>>
      BY <1>3 DEF vars, ArchiveGoes, ArchiveReturns
    <2> QED BY <1>1, <2>1 DEF Steady, HoldsFile, Held, FilesGrow
  <1>4. CASE \E m \in Machines :
               \/ Open(m) \/ ReaderOpened(m) \/ Read(m) \/ Turn(m)
               \/ Save(m) \/ DiskSave(m) \/ HeadlessSave(m)
               \/ JobSteps(m) \/ JobLost(m) \/ Landed(m) \/ Heard(m) \/ Retry(m)
               \/ Quit(m) \/ End(m) \/ Crash(m)
    <2>1. FilesGrow /\ \A o \in Machines : HoldsFile(o)'
      BY <1>2, <1>4, UserHolds, JobHolds, LandedHolds, TakenUpHolds, EndHolds
    <2> QED BY <1>1, <2>1 DEF Steady
  <1> QED BY <1>3, <1>4 DEF Next

\* A frame its window lists as long as it is open, read or standing in, loses nothing that was
\* in its sidecar, whatever the archive, its other machines, quits and crashes do, when a read
\* of it lands as the file is: every write of the local file is on top of it, takes a copy
\* that holds it, or joins the two.
THEOREM FileKeepsHeld == ASSUME ~Gap, MaxTurns = 0 PROVE Spec => FileKeeps
  <1>1. Steady /\ [Next]_vars => Steady'
    BY NextSteady
  <1>2. Steady /\ [Next]_vars => [\A m \in Machines : Knows(file[m]) \subseteq Knows(file'[m])]_vars
    BY NextSteady DEF FilesGrow
  <1> QED BY InitSteady, <1>1, <1>2, PTL DEF Spec, FileKeeps

-----------------------------------------------------------------------------
(* What a session has saved is owed till it is recorded                     *)

\* No bound is exceeded: a window closed or crashed, or a lost job, shows in what is left.
LeftFine == left.closes \in [Machines -> 0..MaxCloses] /\ left.lost \in 0..MaxLost

\* The machine's window was neither closed nor crashed so far, and no job was lost.
Undivided(m) == left.closes[m] = MaxCloses /\ left.lost = MaxLost

InSession(m) == window[m] \in {"opening", "open"}

\* A write that carries its sidecar carries the one in the file; the others read it there.
OfFile(w, m) == w.kind = "memory" => w.side = file[m]

\* Once the job has its sidecar, it is the one in the file, or a later write waits.
HasSide(m) ==
  \/ job[m].kind = "memory" /\ job[m].step \in {"note", "look", "load"}
  \/ job[m].step \in {"check", "write", "record"}

Recorded(m) == file[m] = Base \/ file[m] = wrote[m] \/ row[m] \/ Unsent(m)

Tended(m) ==
  /\ window[m] # "closing"
  /\ window[m] = "closed" => file[m] = Base \/ row[m]
  /\ window[m] = "opening" => queued[m] = NoWrite /\ job[m] = Idle
  /\ window[m] = "open" => deferred[m] = <<>>
  /\ InSession(m) =>
       /\ deferred[m] # <<>> => OfFile(deferred[m][Len(deferred[m])], m)
       /\ OfFile(queued[m], m)
       /\ HasSide(m) => job[m].side = file[m] \/ Unsent(m)
       /\ job[m].step \in {"idle", "done"} => Recorded(m)

AllTended == LeftFine /\ \A m \in Machines : Undivided(m) => Tended(m)

LEMMA InitTended == Init => AllTended
  <1> SUFFICES ASSUME Init PROVE AllTended
    OBVIOUS
  <1>1. LeftFine
    BY DEF Init, LeftFine
  <1>2. ASSUME NEW m \in Machines PROVE Tended(m)
    BY DEF Init, Tended, InSession
  <1> QED BY <1>1, <1>2 DEF AllTended

\* A quit, a crash or a lost job shows in what is left.
LEMMA ClosedLeft ==
  ASSUME NoTurns, LeftFine, NEW m \in Machines, Quit(m) \/ Crash(m)
  PROVE  /\ LeftFine' /\ ~Undivided(m)'
         /\ \A o \in Machines : Undivided(o)' => Undivided(o)
  <1>1. /\ left'.closes = [left.closes EXCEPT ![m] = @ - 1] /\ left.closes[m] > 0
        /\ left'.lost = left.lost
    <2>1. left.closes[m] > 0
      BY DEF Quit, Crash
    <2>2. CASE left' = [left EXCEPT !.closes[m] = @ - 1]
      BY <2>1, <2>2 DEF NoTurns
    <2>3. CASE left' = [left EXCEPT !.closes[m] = @ - 1, !.saves[m] = @ - 1]
      BY <2>1, <2>3 DEF NoTurns
    <2> QED BY <2>2, <2>3 DEF Quit, Crash
  <1> QED BY <1>1 DEF LeftFine, Undivided

LEMMA LostLeft ==
  ASSUME NoTurns, LeftFine, NEW m \in Machines, JobLost(m)
  PROVE  LeftFine' /\ \A o \in Machines : ~Undivided(o)'
  <1>1. left'.lost = left.lost - 1 /\ left.lost > 0 /\ left'.closes = left.closes
    BY DEF JobLost, NoTurns
  <1> QED BY <1>1 DEF LeftFine, Undivided

LeftStays == left'.closes = left.closes /\ left'.lost = left.lost

LEMMA OthersTended ==
  ASSUME AllTended, NEW m \in Machines, Apart(m), LeftFine',
         \A o \in Machines : Undivided(o)' => Undivided(o),
         Undivided(m)' => Tended(m)'
  PROVE  AllTended'
  <1>1. ASSUME NEW o \in Machines, o # m, Undivided(o)' PROVE Tended(o)'
    <2>1. Tended(o)
      BY <1>1 DEF AllTended
    <2> QED BY <1>1, <2>1 DEF Apart, Tended, InSession, OfFile, HasSide, Recorded, Unsent
  <1> QED BY <1>1 DEF AllTended

\* A step after which the machine's session is as it should be.
LEMMA StepTended ==
  ASSUME AllTended, NEW m \in Machines, Apart(m), LeftStays, Tended(m) => Tended(m)'
  PROVE  AllTended'
  <1>1. LeftFine' /\ \A o \in Machines : Undivided(o)' => Undivided(o)
    BY DEF AllTended, LeftFine, LeftStays, Undivided
  <1>2. Undivided(m)' => Tended(m)'
    BY <1>1 DEF AllTended
  <1> QED BY <1>1, <1>2, OthersTended

\* A write queued, when it is of the file as it is now.
LEMMA QueueTends ==
  ASSUME Steady, NEW m \in Machines, window[m] = "open", window' = window,
         deferred' = deferred, deferred[m] = <<>>,
         NEW w, w.kind \in {"memory", "disk"}, w.kind = "memory" => w.side = file'[m],
         NEW out, DOMAIN out = Machines, Queue(m, w, out)
  PROVE  Tended(m)'
  <1>1. \/ job'[m] = Started(w) /\ queued'[m] = NoWrite
        \/ job'[m] = out[m] /\ queued'[m] = w
    BY QueueIs DEF Steady, Fine, Typed
  <1>2. CASE job'[m] = Started(w) /\ queued'[m] = NoWrite
    <2>1. job'[m].step = "note" /\ job'[m].kind = w.kind /\ job'[m].side = w.side
      BY <1>2 DEF Started
    <2>2. queued'[m].kind = "none"
      BY <1>2 DEF NoWrite
    <2> QED BY <2>1, <2>2 DEF Tended, InSession, OfFile, HasSide
  <1>3. CASE job'[m] = out[m] /\ queued'[m] = w
    <2>1. Unsent(m)'
      BY <1>3 DEF Unsent
    <2> QED BY <1>3, <2>1 DEF Tended, InSession, OfFile, HasSide, Recorded
  <1> QED BY <1>1, <1>2, <1>3

\* The window's steps.
LEMMA UserTended ==
  ASSUME Steady, AllTended, NEW m \in Machines,
         Open(m) \/ ReaderOpened(m) \/ Read(m) \/ Save(m) \/ DiskSave(m) \/ HeadlessSave(m)
  PROVE  AllTended'
  <1>0. HoldsFile(m) /\ MachineFine(m) /\ Typed /\ Fine
    BY DEF Steady, Fine
  <1>a. /\ DOMAIN file = Machines /\ DOMAIN mem = Machines /\ DOMAIN job = Machines
        /\ DOMAIN queued = Machines /\ DOMAIN deferred = Machines
        /\ window \in [Machines -> {"closed", "opening", "open", "closing"}]
        /\ row \in [Machines -> BOOLEAN]
    BY <1>0 DEF Typed
  <1>1. CASE Open(m)
    <2>1. LeftStays
      BY <1>1 DEF Open, LeftStays
    <2>2. window[m] = "closed" /\ window'[m] = "opening"
      BY <1>1, <1>a DEF Open
    <2>3. /\ UNCHANGED <<file, row, wrote, deferred, queued, job>>
          /\ job[m] = Idle /\ queued[m] = NoWrite /\ deferred[m] = <<>>
      BY <1>0, <1>1, <2>2 DEF Open, MachineFine
    <2>4. Tended(m) => Tended(m)'
      BY <2>2, <2>3 DEF Tended, InSession, OfFile, HasSide, Recorded, Idle, NoWrite
    <2> QED BY <1>0, <1>1, <2>1, <2>4, OpenFine, StepTended
  <1>2. CASE ReaderOpened(m)
    <2>1. LeftStays
      BY <1>2 DEF ReaderOpened, LeftStays
    <2>2. /\ window[m] = "opening" /\ window'[m] = "open" /\ deferred'[m] = <<>>
          /\ UNCHANGED <<file, row, wrote>>
      BY <1>2, <1>a DEF ReaderOpened
    <2>3. CASE deferred[m] = <<>>
      <3>1. UNCHANGED <<queued, job>>
        BY <1>2, <2>3 DEF ReaderOpened
      <3>2. Tended(m) => Tended(m)'
        BY <2>2, <2>3, <3>1 DEF Tended, InSession, OfFile, HasSide, Recorded, Unsent
      <3> QED BY <1>0, <1>2, <2>1, <3>2, ReaderOpenedFine, StepTended
    <2>4. CASE deferred[m] # <<>>
      <3> DEFINE last == deferred[m][Len(deferred[m])]
      <3>1. /\ job'[m] = Started(Head(deferred[m]))
            /\ queued'[m] = IF Len(deferred[m]) = 1 THEN NoWrite ELSE last
        BY <1>2, <1>a, <2>4 DEF ReaderOpened
      <3>2. Kept(last) /\ Kept(Head(deferred[m])) /\ (Len(deferred[m]) = 1 => Head(deferred[m]) = last)
        <4>1. PICK S : deferred[m] \in Seq(S)
          BY <1>0 DEF MachineFine, DeferredFine
        <4>2. Head(deferred[m]) = deferred[m][1]
          BY <2>4, <4>1
        <4> QED BY <1>0, <2>4, <4>2, DeferredEnds DEF MachineFine
      <3>3. /\ job'[m].step = "note" /\ job'[m].kind = Head(deferred[m]).kind
            /\ job'[m].side = Head(deferred[m]).side
        BY <3>1 DEF Started
      <3> HIDE DEF last
      <3>4. ASSUME Tended(m) PROVE Tended(m)'
        <4>1. OfFile(last, m)
          BY <2>2, <2>4, <3>4 DEF Tended, InSession, last
        <4>2. CASE Len(deferred[m]) = 1
          <5>1. queued'[m].kind = "none"
            BY <3>1, <4>2 DEF NoWrite
          <5> QED BY <2>2, <3>2, <3>3, <4>1, <4>2, <5>1 DEF Tended, InSession, OfFile, HasSide
        <4>3. CASE Len(deferred[m]) # 1
          <5>1. queued'[m] = last /\ Unsent(m)'
            BY <3>1, <3>2, <4>3 DEF Unsent, Kept
          <5> QED BY <2>2, <3>3, <4>1, <5>1 DEF Tended, InSession, OfFile, HasSide
        <4> QED BY <4>2, <4>3
      <3> QED BY <1>0, <1>2, <2>1, <3>4, ReaderOpenedFine, StepTended
    <2> QED BY <2>3, <2>4
  <1>3. CASE Save(m) \/ DiskSave(m)
    <2>1. LeftStays
      BY <1>3 DEF Save, DiskSave, UsesSave, LeftStays, Steady, NoTurns
    <2>2. PICK w : /\ window[m] \in {"opening", "open"} /\ QueueFor(m, w)
                   /\ w.kind \in {"memory", "disk"} /\ OfFile(w, m)'
                   /\ UNCHANGED <<window, listed, row, wrote>>
      <3> DEFINE new == Saved(m, Number(m), mem[m])
      <3>1. Memory(new).kind = "memory" /\ Memory(new).side = new /\ Disk.kind = "disk"
        BY DEF Memory, Disk
      <3>2. CASE Save(m)
        <4>1. file'[m] = new
          BY <1>a, <3>2 DEF Save
        <4>2. /\ window[m] \in {"opening", "open"} /\ QueueFor(m, Memory(new))
              /\ UNCHANGED <<window, listed, row, wrote>>
          BY <3>2 DEF Save
        <4> QED BY <3>1, <4>1, <4>2 DEF OfFile
      <3>3. CASE DiskSave(m)
        <4>1. /\ window[m] \in {"opening", "open"} /\ QueueFor(m, Disk)
              /\ UNCHANGED <<window, listed, row, wrote>>
          BY <3>3 DEF DiskSave
        <4> QED BY <3>1, <4>1 DEF OfFile
      <3> QED BY <1>3, <3>2, <3>3
    <2>3. ASSUME Tended(m) PROVE Tended(m)'
      <3>1. CASE window[m] = "open"
        <4>1. Queue(m, w, job) /\ deferred' = deferred
          BY <2>2, <3>1 DEF QueueFor
        <4>2. deferred[m] = <<>>
          BY <2>3, <3>1 DEF Tended
        <4> QED BY <1>a, <2>2, <3>1, <4>1, <4>2, QueueTends DEF OfFile
      <3>2. CASE window[m] = "opening"
        <4>1. deferred' = [deferred EXCEPT ![m] = Append(@, w)] /\ UNCHANGED <<queued, job>>
          BY <2>2, <3>2 DEF QueueFor
        <4>2. PICK S : deferred[m] \in Seq(S)
          BY <1>0 DEF MachineFine, DeferredFine
        <4>3. deferred'[m] # <<>> /\ deferred'[m][Len(deferred'[m])] = w
          <5>1. deferred[m] \in Seq(S \cup {w})
            BY <4>2
          <5>2. deferred'[m] = Append(deferred[m], w)
            BY <1>a, <4>1
          <5> QED BY <5>1, <5>2
        <4>4. queued[m] = NoWrite /\ job[m] = Idle
          BY <2>3, <3>2 DEF Tended
        <4>5. Unsent(m)'
          BY <4>3 DEF Unsent
        <4> QED BY <2>2, <3>2, <4>1, <4>3, <4>4, <4>5
            DEF Tended, InSession, OfFile, Recorded, NoWrite, HasSide, Idle
      <3> QED BY <2>2, <3>1, <3>2
    <2> QED BY <1>0, <1>3, <2>1, <2>3, SaveFine, DiskSaveFine, StepTended
  <1>4. CASE Read(m)
    <2>1. LeftStays
      BY <1>4 DEF Read, LeftStays
    <2>2. UNCHANGED <<window, file, row, wrote, deferred, queued, job>>
      BY <1>4 DEF Read
    <2>3. Tended(m) => Tended(m)'
      BY <2>2 DEF Tended, InSession, OfFile, HasSide, Recorded, Unsent
    <2> QED BY <1>0, <1>4, <2>1, <2>3, ReadFine, StepTended
  <1>5. CASE HeadlessSave(m)
    <2>1. LeftStays
      BY <1>5 DEF HeadlessSave, UsesSave, LeftStays, Steady, NoTurns
    <2>2. /\ window[m] = "closed" /\ row'[m]
          /\ UNCHANGED <<window, queued, job, deferred>>
      BY <1>5, <1>a DEF HeadlessSave
    <2>3. Tended(m) => Tended(m)'
      BY <2>2 DEF Tended, InSession
    <2> QED BY <1>0, <1>5, <2>1, <2>3, HeadlessSaveFine, StepTended
  <1> QED BY <1>1, <1>2, <1>3, <1>4, <1>5

\* A job's end, and the rows taken up: what goes next is of the file.
LEMMA LandedTended ==
  ASSUME Steady, AllTended, NEW m \in Machines, Landed(m)
  PROVE  AllTended'
  <1> DEFINE out == [job EXCEPT ![m] = Idle]
             theirs == job[m].side
  <1>0. HoldsFile(m) /\ MachineFine(m) /\ Fine
    BY DEF Steady, Fine
  <1>a. /\ DOMAIN file = Machines /\ DOMAIN mem = Machines /\ DOMAIN job = Machines
        /\ DOMAIN queued = Machines
    BY <1>0 DEF Fine, Typed
  <1>b. DOMAIN out = Machines /\ out[m] = Idle
    BY <1>a
  <1>1. /\ window[m] = "open" /\ listed[m]
        /\ UNCHANGED <<window, listed, row, wrote, deferred, left>>
    BY <1>0 DEF Landed, HoldsFile
  \* What was not recorded has left its row.
  <1>2. ASSUME Tended(m), SendNext(m, out), UNCHANGED file,
               job[m].step \in {"done", "waiting", "settle"}
        PROVE  Tended(m)'
    <2>1. CASE job'[m] = Idle /\ queued'[m] = queued[m]
      <3>1. job[m].step \in {"waiting", "settle"} => row[m]
        BY <1>0 DEF MachineFine
      <3>2. Recorded(m)
        BY <1>1, <1>2, <3>1 DEF Tended, InSession, Recorded
      <3>3. Recorded(m)'
        BY <1>1, <1>2, <2>1, <3>2 DEF Recorded, Unsent
      <3>4. job'[m].step = "idle" /\ job'[m].kind = "none"
        BY <2>1 DEF Idle
      <3> QED BY <1>1, <1>2, <2>1, <3>3, <3>4 DEF Tended, InSession, OfFile, HasSide
    <2>2. CASE job'[m] = Started(queued[m]) /\ queued'[m] = NoWrite
      <3>1. /\ job'[m].step = "note" /\ job'[m].kind = queued[m].kind
            /\ job'[m].side = queued[m].side /\ queued'[m].kind = "none"
        BY <2>2 DEF Started, NoWrite
      <3> QED BY <1>1, <1>2, <3>1 DEF Tended, InSession, OfFile, HasSide
    <2> QED BY <1>a, <1>b, <1>2, <2>1, <2>2, SendNextIs
  <1>3. ASSUME Tended(m), Held(m), SettleHeld(m, theirs, out)
        PROVE  Tended(m)'
    <2>0. mem[m] = file[m]
      BY <1>0, <1>3 DEF HoldsFile
    <2>1. PICK s : /\ Queue(m, Memory(s), out) /\ file'[m] = s
      <3>1. CASE Queue(m, Memory(mem[m]), out) /\ UNCHANGED <<mem, file>>
        BY <2>0, <3>1
      <3>2. CASE /\ Queue(m, Memory(theirs), out)
                 /\ mem' = [mem EXCEPT ![m] = theirs] /\ file' = [file EXCEPT ![m] = theirs]
        BY <1>a, <3>2
      <3>3. CASE /\ Queue(m, Memory(Join(mem[m], theirs)), out)
                 /\ mem' = [mem EXCEPT ![m] = Join(mem[m], theirs)]
                 /\ file' = [file EXCEPT ![m] = Join(mem[m], theirs)]
        BY <1>a, <3>3
      <3> QED BY <1>3, <3>1, <3>2, <3>3 DEF SettleHeld
    <2>2. Memory(s).kind = "memory" /\ Memory(s).side = s
      BY DEF Memory
    <2>3. deferred[m] = <<>>
      BY <1>1, <1>3 DEF Tended
    <2>4. Memory(s).kind \in {"memory", "disk"} /\ window' = window /\ deferred' = deferred
      BY <1>1, <2>2
    <2>5. DOMAIN out = Machines /\ Queue(m, Memory(s), out) /\ window[m] = "open"
      BY <1>b, <1>1, <2>1
    <2> HIDE DEF out
    <2> QED BY <2>1, <2>2, <2>3, <2>4, <2>5, QueueTends
  <1>4. Tended(m) => Tended(m)'
    <2>1. CASE /\ job[m].step \in {"done", "waiting", "settle"}
               /\ SendNext(m, out) /\ UNCHANGED <<mem, file>>
      BY <1>2, <2>1
    <2>2. CASE Held(m) /\ SettleHeld(m, theirs, out)
      BY <1>3, <2>2
    <2> QED BY <1>1, <2>1, <2>2 DEF Landed
  <1>5. LeftStays
    BY <1>1 DEF LeftStays
  <1> QED BY <1>0, <1>4, <1>5, LandedFine, StepTended

LEMMA TakenUpTended ==
  ASSUME Steady, AllTended, NEW m \in Machines, Heard(m) \/ Retry(m)
  PROVE  AllTended'
  <1> DEFINE w == IF Held(m) THEN Memory(mem[m]) ELSE Disk
  <1>0. HoldsFile(m) /\ Fine /\ DOMAIN job = Machines
    BY DEF Steady, Fine, Typed
  <1>1. Queue(m, w, job) \/ UNCHANGED <<queued, job>>
    BY DEF Heard, Retry
  <1>2. /\ UNCHANGED <<window, listed, mem, file, row, wrote, deferred, left>>
        /\ window[m] = "open" /\ (Held(m) => mem[m] = file[m])
    BY <1>0 DEF Heard, Retry, HoldsFile
  <1>3. w.kind \in {"memory", "disk"} /\ (w.kind = "memory" => w.side = file'[m])
    BY <1>2 DEF Memory, Disk
  <1>4. ASSUME Tended(m) PROVE Tended(m)'
    <2>1. deferred[m] = <<>>
      BY <1>2, <1>4 DEF Tended
    <2>2. CASE Queue(m, w, job)
      BY <1>0, <1>2, <1>3, <2>1, <2>2, QueueTends
    <2>3. CASE UNCHANGED <<queued, job>>
      BY <1>2, <1>4, <2>3 DEF Tended, InSession, OfFile, HasSide, Recorded, Unsent
    <2> QED BY <1>1, <2>2, <2>3
  <1>5. LeftStays
    BY <1>2 DEF LeftStays
  <1> QED BY <1>0, <1>4, <1>5, HeardFine, RetryFine, StepTended

\* A step of a job that still has its session: what it carries stays the file's, or owed.
LEMMA OnwardTends ==
  ASSUME Steady, NEW m \in Machines, Tended(m), job[m] # Idle,
         window' = window, file' = file, deferred' = deferred, queued' = queued,
         HasSide(m)' => \/ job'[m].side = file[m]
                        \/ HasSide(m) /\ job'[m].side = job[m].side,
         job'[m].step \in {"idle", "done"} => Recorded(m)'
  PROVE  Tended(m)'
  <1>1. window[m] = "open" /\ deferred[m] = <<>>
    <2>1. window[m] \notin {"closed", "opening", "closing"}
      BY DEF Steady, Fine, MachineFine, Tended
    <2> QED BY <2>1 DEF Tended, Steady, Fine, Typed
  <1>2. OfFile(queued[m], m) /\ (HasSide(m) => job[m].side = file[m] \/ Unsent(m))
    BY <1>1 DEF Tended, InSession
  <1>3. Unsent(m)' = Unsent(m) /\ OfFile(queued[m], m)'
    BY <1>2 DEF Unsent, OfFile
  <1>4. HasSide(m)' => job'[m].side = file'[m] \/ Unsent(m)'
    BY <1>2, <1>3
  <1> QED BY <1>1, <1>3, <1>4 DEF Tended

\* The job clears its row with the file's sidecar recorded, or a later write waiting.
LEMMA JobTended ==
  ASSUME Steady, AllTended, NEW m \in Machines, JobSteps(m)
  PROVE  AllTended'
  <1>0. HoldsFile(m) /\ Fine /\ JobFine(job[m]) /\ DOMAIN job = Machines /\ MachineFine(m)
        /\ DOMAIN wrote = Machines /\ row \in [Machines -> BOOLEAN]
    BY DEF Steady, Fine, Typed, MachineFine
  <1>a. \A t : At(m, t)[m] = [step |-> t, kind |-> job[m].kind, side |-> job[m].side]
    BY <1>0, AtIs
  <1>b. \A t, s : Carrying(m, t, s)[m] = [step |-> t, kind |-> job[m].kind, side |-> s]
    BY <1>0, CarryingIs
  <1>c. ~JobKeeps(m)
    BY <1>0 DEF JobKeeps, HoldsFile
  <1>1. /\ window' = window /\ file' = file /\ deferred' = deferred /\ queued' = queued
        /\ left' = left /\ job[m] # Idle
    BY <1>c DEF JobSteps, JobNotes, JobLooks, JobLoads, JobChecks, JobWrites, JobRecords, Idle
  \* The sidecar the job goes on with.
  <1>2. ASSUME ~JobRecords(m)
        PROVE  /\ job'[m].step \notin {"idle", "done"}
               /\ HasSide(m)' => \/ job'[m].side = file[m]
                                 \/ HasSide(m) /\ job'[m].side = job[m].side
    <2>1. CASE JobNotes(m)
      <3>1. job[m].step = "note" /\ job' = At(m, "look")
        BY <2>1 DEF JobNotes
      <3>2. job'[m] = [step |-> "look", kind |-> job[m].kind, side |-> job[m].side]
        BY <3>1, <1>a
      <3> QED BY <3>1, <3>2 DEF HasSide
    <2>2. CASE JobLooks(m)
      <3>1. PICK t \in {"load", "waiting"} : job[m].step = "look" /\ job' = At(m, t)
        BY <2>2 DEF JobLooks
      <3>2. job'[m] = [step |-> t, kind |-> job[m].kind, side |-> job[m].side]
        BY <3>1, <1>a
      <3> QED BY <3>1, <3>2 DEF HasSide
    <2>3. CASE JobLoads(m)
      <3>1. /\ job[m].step = "load"
            /\ \/ job[m].kind = "memory" /\ job' = At(m, "check")
               \/ job' = Carrying(m, "check", file[m])
        BY <1>0, <2>3 DEF JobLoads, HoldsFile
      <3>2. CASE job[m].kind = "memory" /\ job' = At(m, "check")
        <4>1. job'[m] = [step |-> "check", kind |-> job[m].kind, side |-> job[m].side]
          BY <3>2, <1>a
        <4> QED BY <3>1, <3>2, <4>1 DEF HasSide
      <3>3. CASE job' = Carrying(m, "check", file[m])
        <4>1. job'[m] = [step |-> "check", kind |-> job[m].kind, side |-> file[m]]
          BY <3>3, <1>b
        <4> QED BY <4>1
      <3> QED BY <3>1, <3>2, <3>3
    <2>4. CASE JobChecks(m)
      <3>1. /\ job[m].step = "check"
            /\ \/ \E t \in {"waiting", "write", "record"} : job' = At(m, t)
               \/ job' = Carrying(m, "settle", copy)
        BY <2>4 DEF JobChecks
      <3>2. CASE \E t \in {"waiting", "write", "record"} : job' = At(m, t)
        <4>1. PICK t \in {"waiting", "write", "record"} : job' = At(m, t)
          BY <3>2
        <4>2. job'[m] = [step |-> t, kind |-> job[m].kind, side |-> job[m].side]
          BY <4>1, <1>a
        <4> QED BY <3>1, <4>2 DEF HasSide
      <3>3. CASE job' = Carrying(m, "settle", copy)
        <4>1. job'[m] = [step |-> "settle", kind |-> job[m].kind, side |-> copy]
          BY <3>3, <1>b
        <4> QED BY <4>1 DEF HasSide
      <3> QED BY <3>1, <3>2, <3>3
    <2>5. CASE JobWrites(m)
      <3>1. PICK t \in {"waiting", "record"} : job[m].step = "write" /\ job' = At(m, t)
        BY <2>5 DEF JobWrites
      <3>2. job'[m] = [step |-> t, kind |-> job[m].kind, side |-> job[m].side]
        BY <3>1, <1>a
      <3> QED BY <3>1, <3>2 DEF HasSide
    <2> QED BY <1>2, <1>c, <2>1, <2>2, <2>3, <2>4, <2>5 DEF JobSteps
  \* The record it leaves.
  <1>3. ASSUME Tended(m), JobRecords(m) PROVE ~HasSide(m)' /\ Recorded(m)'
    <2>1. job[m].step = "record" /\ job' = At(m, "done")
      BY <1>3 DEF JobRecords
    <2>2. job'[m] = [step |-> "done", kind |-> job[m].kind, side |-> job[m].side]
      BY <2>1, <1>a
    <2>3. wrote'[m] = job[m].side \/ row'[m]
      <3>1. CASE answers
        BY <1>0, <1>3, <3>1 DEF JobRecords
      <3>2. CASE ~answers
        <4>1. row' = row
          BY <1>3, <3>2 DEF JobRecords
        <4>2. row[m]
          BY <1>0, <2>1 DEF MachineFine
        <4> QED BY <4>1, <4>2
      <3> QED BY <3>1, <3>2
    <2>4. job[m].side = file[m] \/ Unsent(m)
      <3>1. window[m] \notin {"closed", "opening", "closing"}
        BY <1>0, <1>1, <1>3 DEF MachineFine, Tended
      <3>2. InSession(m) /\ HasSide(m)
        BY <1>0, <2>1, <3>1 DEF InSession, HasSide, Fine, Typed
      <3> QED BY <1>3, <3>2 DEF Tended
    <2>5. Unsent(m)' = Unsent(m)
      BY <1>1 DEF Unsent
    <2> QED BY <1>1, <2>2, <2>3, <2>4, <2>5 DEF HasSide, Recorded
  <1>4. ASSUME Tended(m) PROVE Tended(m)'
    <2>1. CASE JobRecords(m)
      BY <1>1, <1>3, <1>4, <2>1, OnwardTends
    <2>2. CASE ~JobRecords(m)
      BY <1>1, <1>2, <1>4, <2>2, OnwardTends
    <2> QED BY <2>1, <2>2
  <1>5. LeftStays
    BY <1>1 DEF LeftStays
  <1> QED BY <1>0, <1>4, <1>5, JobStepsFine, StepTended

LEMMA EndTended ==
  ASSUME Steady, AllTended, NEW m \in Machines, JobLost(m) \/ Quit(m) \/ End(m) \/ Crash(m)
  PROVE  AllTended'
  <1>0. Fine /\ NoTurns /\ LeftFine
    BY DEF Steady, AllTended
  <1>1. CASE JobLost(m)
    BY <1>0, <1>1, LostLeft DEF AllTended
  <1>2. CASE Quit(m) \/ Crash(m)
    <2>1. Apart(m)
      BY <1>0, <1>2, QuitFine, GoneFine DEF Crash
    <2> QED BY <1>0, <1>2, <2>1, ClosedLeft, OthersTended
  <1>3. CASE End(m)
    <2>1. LeftStays /\ ~Tended(m)
      BY <1>3 DEF End, LeftStays, Tended
    <2>2. Apart(m)
      BY <1>0, <1>3, GoneFine DEF End
    <2> QED BY <2>1, <2>2, StepTended
  <1> QED BY <1>1, <1>2, <1>3

LEMMA NextTended == Steady /\ AllTended /\ [Next]_vars => AllTended'
  <1> SUFFICES ASSUME Steady, AllTended, [Next]_vars PROVE AllTended'
    OBVIOUS
  <1>1. ASSUME NEW m \in Machines, Turn(m) PROVE FALSE
    BY <1>1 DEF Turn, Steady, NoTurns
  <1>2. CASE UNCHANGED vars \/ ArchiveGoes \/ ArchiveReturns
    <2>1. UNCHANGED <<window, file, row, wrote, deferred, queued, job>>
      BY <1>2 DEF vars, ArchiveGoes, ArchiveReturns
    <2>2. LeftStays
      BY <1>2 DEF vars, ArchiveGoes, ArchiveReturns, LeftStays, Steady, NoTurns
    <2>3. \A m \in Machines : (Undivided(m)' => Undivided(m)) /\ (Tended(m) => Tended(m)')
      BY <2>1, <2>2 DEF LeftStays, Undivided, Tended, InSession, OfFile, HasSide, Recorded, Unsent
    <2>4. LeftFine'
      BY <2>2 DEF AllTended, LeftFine, LeftStays
    <2> QED BY <2>3, <2>4 DEF AllTended
  <1> QED BY <1>1, <1>2, UserTended, JobTended, LandedTended, TakenUpTended, EndTended DEF Next

\* In a session that lists the frame throughout, and reads it as it is, every save the copy is
\* not recorded to hold is owed, whatever the archive and the other machines do: kept for the
\* reader, in the queue, about to be noted by its job, or noted in the index.
THEOREM CoveredHeld == ASSUME ~Gap, MaxTurns = 0 PROVE Spec => []Covered
  <1>1. Steady /\ AllTended => Covered
    <2> SUFFICES ASSUME Steady, AllTended, NEW m \in Machines, InSession(m),
                        ~(left.closes[m] < MaxCloses), ~(left.lost < MaxLost), ~Owed(m)
                 PROVE  file[m] = Base \/ file[m] = wrote[m]
      BY DEF Covered, InSession, Steady, Fine, Typed
    <2>1. Undivided(m)
      BY DEF AllTended, LeftFine, Undivided
    <2>2. job[m].step \in {"idle", "done"}
      BY DEF Steady, Fine, MachineFine, Owed
    <2> QED BY <2>1, <2>2 DEF AllTended, Tended, Recorded, Owed
  <1>2. Steady /\ [Next]_vars => Steady'
    BY NextSteady
  <1> QED BY InitSteady, InitTended, NextTended, <1>1, <1>2, PTL DEF Spec

-----------------------------------------------------------------------------
(* A copy that nothing else touches between a job's check and its record   *)

InHand(m) == job[m].step \in {"write", "record"}

\* One job at a time is between its check and its record; what it found there holds until
\* it has recorded.
Undisturbed ==
  /\ \A m, o \in Machines : m # o /\ InHand(m) => ~InHand(o)
  /\ \A m \in Machines :
       /\ job[m].step = "write" => copy = NoSidecar \/ copy \in Knows(job[m].side)
       /\ job[m].step = "record" => copy = job[m].side
       /\ stat[m] => wrote[m] = copy

LEMMA InitUndisturbed == Init => Undisturbed
  BY DEF Init, Undisturbed, InHand, Idle

\* A step that begins no write and no record, and leaves the copy and what is recorded of it.
LEMMA Beside ==
  ASSUME Undisturbed, UNCHANGED <<copy, stat, wrote>>,
         \A m \in Machines : job'[m] = job[m] \/ job'[m].step \notin {"write", "record"}
  PROVE  Undisturbed'
  BY DEF Undisturbed, InHand

LEMMA WindowBeside ==
  ASSUME Steady, Undisturbed, NEW m \in Machines,
         \/ Open(m) \/ ReaderOpened(m) \/ Read(m) \/ Save(m) \/ DiskSave(m) \/ HeadlessSave(m)
         \/ JobLost(m) \/ Landed(m) \/ Heard(m) \/ Retry(m) \/ Quit(m) \/ End(m) \/ Crash(m)
  PROVE  Undisturbed' /\ copy' = copy
  <1>0. Fine /\ Typed /\ DOMAIN job = Machines /\ DOMAIN queued = Machines
    BY DEF Steady, Fine, Typed
  <1>a. \A w : Started(w).step = "note"
    BY DEF Started
  <1>b. Idle.step = "idle"
    BY DEF Idle
  <1>1. UNCHANGED <<copy, stat, wrote>>
    BY DEF Open, ReaderOpened, Read, Save, DiskSave, HeadlessSave, JobLost, Landed, Heard,
           Retry, Quit, End, Crash, Gone
  <1>2. Apart(m)
    BY <1>0, OpenFine, ReaderOpenedFine, ReadFine, SaveFine, DiskSaveFine, HeadlessSaveFine,
       JobLostFine, LandedFine, HeardFine, RetryFine, QuitFine, GoneFine DEF End, Crash
  <1>3. ASSUME NEW w, NEW out, DOMAIN out = Machines, out[m] \in {Idle, job[m]},
               Queue(m, w, out) \/ SendNext(m, out)
        PROVE  job'[m] \in {job[m], Idle} \/ job'[m].step = "note"
    BY <1>0, <1>a, <1>3, QueueIs, SendNextIs
  <1>4. job'[m] \in {job[m], Idle} \/ job'[m].step = "note"
    <2>1. CASE Open(m) \/ Read(m) \/ HeadlessSave(m) \/ Quit(m)
      BY <2>1 DEF Open, Read, HeadlessSave, Quit
    <2>2. CASE JobLost(m) \/ End(m) \/ Crash(m)
      BY <1>0, <2>2 DEF JobLost, End, Crash, Gone
    <2>3. CASE ReaderOpened(m)
      BY <1>0, <1>a, <2>3 DEF ReaderOpened
    <2>4. CASE Save(m) \/ DiskSave(m)
      <3>1. (\E w : Queue(m, w, job)) \/ UNCHANGED job
        BY <2>4 DEF Save, DiskSave, QueueFor
      <3> QED BY <1>0, <1>3, <3>1
    <2>5. CASE Heard(m) \/ Retry(m)
      <3>1. (\E w : Queue(m, w, job)) \/ UNCHANGED job
        BY <2>5 DEF Heard, Retry
      <3> QED BY <1>0, <1>3, <3>1
    <2>6. CASE Landed(m)
      <3> DEFINE out == [job EXCEPT ![m] = Idle]
      <3>1. (\E w : Queue(m, w, out)) \/ SendNext(m, out)
        BY <2>6 DEF Landed, SettleHeld
      <3>2. DOMAIN out = Machines /\ out[m] = Idle
        BY <1>0
      <3> HIDE DEF out
      <3> QED BY <1>3, <3>1, <3>2
    <2> QED BY <2>1, <2>2, <2>3, <2>4, <2>5, <2>6
  <1>5. \A o \in Machines : job'[o] = job[o] \/ job'[o].step \notin {"write", "record"}
    BY <1>b, <1>2, <1>4 DEF Apart
  <1> QED BY <1>1, <1>5, Beside

LEMMA JobUndisturbed ==
  ASSUME ~Gap, Steady, Undisturbed, NEW m \in Machines, JobSteps(m)
  PROVE  Undisturbed' /\ (copy # NoSidecar => Knows(copy) \subseteq Knows(copy'))
  <1>0. Fine /\ HoldsFile(m) /\ JobFine(job[m]) /\ DOMAIN job = Machines
        /\ DOMAIN wrote = Machines /\ stat \in [Machines -> BOOLEAN]
    BY DEF Steady, Fine, Typed, MachineFine
  <1>a. ASSUME NEW t, job' = At(m, t) PROVE job'[m].step = t /\ job'[m].side = job[m].side
    <2>1. job'[m] = [step |-> t, kind |-> job[m].kind, side |-> job[m].side]
      BY <1>0, <1>a, AtIs
    <2> QED BY <2>1
  <1>b. ASSUME NEW t, NEW s, job' = Carrying(m, t, s) PROVE job'[m].step = t
    <2>1. job'[m] = [step |-> t, kind |-> job[m].kind, side |-> s]
      BY <1>0, <1>b, CarryingIs
    <2> QED BY <2>1
  <1>c. \A o \in Machines \ {m} : job'[o] = job[o]
    BY <1>0, JobStepsFine DEF Apart
  <1>1. CASE JobNotes(m) \/ JobLooks(m)
    <2>1. PICK t \in {"look", "load", "waiting"} : job' = At(m, t)
      BY <1>1 DEF JobNotes, JobLooks
    <2>2. job'[m].step = t /\ UNCHANGED <<copy, stat, wrote>>
      BY <1>1, <1>a, <2>1 DEF JobNotes, JobLooks
    <2> QED BY <1>c, <2>2, Beside
  <1>2. CASE JobLoads(m)
    <2>1. job' = At(m, "check") \/ job' = Carrying(m, "check", file[m])
      BY <1>0, <1>2 DEF JobLoads, HoldsFile
    <2>2. job'[m].step = "check" /\ UNCHANGED <<copy, stat, wrote>>
      BY <1>2, <1>a, <1>b, <2>1 DEF JobLoads
    <2> QED BY <1>c, <2>2, Beside
  <1>3. CASE JobKeeps(m)
    BY <1>0, <1>3 DEF JobKeeps, HoldsFile
  <1>4. CASE JobChecks(m)
    <2>1. /\ UNCHANGED <<copy, stat, wrote>>
          /\ \A o \in Machines \ {m} : ~InHand(o)
      BY <1>4 DEF JobChecks, Alone, InHand
    <2>2. CASE job' = At(m, "waiting") \/ job' = Carrying(m, "settle", copy)
      <3>1. job'[m].step \in {"waiting", "settle"}
        BY <1>a, <1>b, <2>2
      <3> QED BY <1>c, <2>1, <3>1, Beside
    <2>3. CASE /\ job' = At(m, "write")
               /\ Ours(m) \/ BehindOther(job[m].side, copy)
      <3>1. copy = NoSidecar \/ copy \in Knows(job[m].side)
        BY <2>3 DEF Ours, BehindOther, Undisturbed
      <3>2. job'[m].step = "write" /\ job'[m].side = job[m].side
        BY <1>a, <2>3
      <3> QED BY <1>c, <2>1, <3>1, <3>2 DEF Undisturbed, InHand
    <2>4. CASE job' = At(m, "record") /\ Same(job[m].side, copy)
      <3>1. job'[m].step = "record" /\ job'[m].side = job[m].side
        BY <1>a, <2>4
      <3> QED BY <1>c, <2>1, <2>4, <3>1 DEF Undisturbed, InHand, Same
    <2> QED BY <1>4, <2>2, <2>3, <2>4 DEF JobChecks
  <1>5. CASE JobWrites(m)
    <2>1. UNCHANGED wrote /\ InHand(m)
      BY <1>5 DEF JobWrites, InHand
    <2>2. CASE job' = At(m, "waiting") /\ UNCHANGED <<copy, stat>>
      <3>1. job'[m].step = "waiting"
        BY <1>a, <2>2
      <3> QED BY <1>c, <2>1, <2>2, <3>1, Beside
    <2>3. CASE /\ copy' = job[m].side /\ stat' = [o \in Machines |-> FALSE]
               /\ job' = At(m, "record")
      <3>1. job'[m].step = "record" /\ job'[m].side = job[m].side
        BY <1>a, <2>3
      <3>2. Undisturbed'
        BY <1>c, <2>1, <2>3, <3>1 DEF Undisturbed, InHand
      <3>3. copy # NoSidecar => copy \in Knows(job[m].side)
        BY <1>5 DEF JobWrites, Undisturbed
      <3>4. Honest(job[m].side)
        BY <1>0 DEF JobFine
      <3> QED BY <2>3, <3>2, <3>3, <3>4, KnowsAll
    <2> QED BY <1>5, <2>2, <2>3 DEF JobWrites
  <1>6. CASE JobRecords(m)
    <2>1. job'[m].step = "done" /\ UNCHANGED copy /\ copy = job[m].side
      BY <1>6, <1>a DEF JobRecords, Undisturbed
    <2>2. \A o \in Machines : stat'[o] => wrote'[o] = copy
      BY <1>0, <1>6, <2>1 DEF JobRecords, Undisturbed
    <2> QED BY <1>c, <2>1, <2>2 DEF Undisturbed, InHand
  <1> QED BY <1>1, <1>2, <1>3, <1>4, <1>5, <1>6 DEF JobSteps

LEMMA NextUndisturbed ==
  ASSUME ~Gap, Steady, Undisturbed, [Next]_vars
  PROVE  Undisturbed' /\ (copy # NoSidecar => Knows(copy) \subseteq Knows(copy'))
  <1>1. ASSUME NEW m \in Machines, Turn(m) PROVE FALSE
    BY <1>1 DEF Turn, Steady, NoTurns
  <1>2. CASE UNCHANGED vars \/ ArchiveGoes \/ ArchiveReturns
    BY <1>2 DEF vars, ArchiveGoes, ArchiveReturns, Undisturbed, InHand
  <1> QED BY <1>1, <1>2, WindowBeside, JobUndisturbed DEF Next

\* With nothing else at the copy between check and record (the gap the code leaves is
\* accepted in its notes), and the frame in its window, a write never takes off the copy
\* what the copy holds: it is over nothing, over the copy recorded, or over one behind it.
THEOREM CopyKeepsHeld == ASSUME ~Gap, MaxTurns = 0 PROVE Spec => CopyKeeps
  <1>1. Steady /\ Undisturbed /\ [Next]_vars => Steady' /\ Undisturbed'
    BY NextSteady, NextUndisturbed
  <1>2. Steady /\ Undisturbed /\ [Next]_vars
          => [copy # NoSidecar => Knows(copy) \subseteq Knows(copy')]_vars
    BY NextUndisturbed
  <1> QED BY InitSteady, InitUndisturbed, <1>1, <1>2, PTL DEF Spec, CopyKeeps

\* Under the same, a copy with the recorded size and mtime is the one recorded.
THEOREM RecordIsTrueHeld == ASSUME ~Gap, MaxTurns = 0 PROVE Spec => []RecordIsTrue
  <1>1. Steady /\ Undisturbed /\ [Next]_vars => Steady' /\ Undisturbed'
    BY NextSteady, NextUndisturbed
  <1>2. Undisturbed => RecordIsTrue
    BY DEF Undisturbed, RecordIsTrue
  <1> QED BY InitSteady, InitUndisturbed, <1>1, <1>2, PTL DEF Spec

-----------------------------------------------------------------------------
(* Machines that hold their frames spread their saves                       *)

\* What a machine carries to the archive is in its file; what it brings is on the archive.
Within(s, t) == Knows(s) \subseteq Knows(t)
WriteWithin(w, t) == w.kind = "memory" => Within(w.side, t)

DeferredWithin(q, t) == \A i \in DOMAIN q : WriteWithin(q[i], t)

JobWithin(j, t) ==
  (\/ j.kind = "memory" /\ j.step \in {"note", "look", "load"}
   \/ j.step \in {"check", "write", "record"})
  => Within(j.side, t)

JobBrings(j, c) == j.step = "settle" => c # NoSidecar /\ Within(j.side, c)

Carried(m) ==
  /\ DeferredWithin(deferred[m], file[m])
  /\ WriteWithin(queued[m], file[m])
  /\ JobWithin(job[m], file[m])
  /\ JobBrings(job[m], copy)

AllCarried == \A m \in Machines : Carried(m)

CopyGrows == copy # NoSidecar => copy' # NoSidecar /\ Within(copy, copy')

LEMMA MoreIsThere ==
  ASSUME copy # NoSidecar => Knows(copy) \subseteq Knows(copy')
  PROVE  CopyGrows
  <1>1. Knows(NoSidecar) = {NoSidecar} /\ copy \in Knows(copy)
    BY DEF Knows, NoSidecar
  <1> QED BY <1>1 DEF CopyGrows, Within

\* Nothing is carried by a job that is not out, and by no write.
LEMMA NothingWithin ==
  ASSUME NEW t
  PROVE  /\ WriteWithin(NoWrite, t) /\ WriteWithin(Disk, t) /\ DeferredWithin(<<>>, t)
         /\ JobWithin(Idle, t) /\ JobBrings(Idle, t)
  BY DEF WriteWithin, DeferredWithin, JobWithin, JobBrings, NoWrite, Disk, Idle

LEMMA InitCarried == Init => AllCarried
  <1> SUFFICES ASSUME Init, NEW m \in Machines PROVE Carried(m)
    BY DEF AllCarried
  <1>1. deferred[m] = <<>> /\ queued[m] = NoWrite /\ job[m] = Idle
    BY DEF Init
  <1> QED BY <1>1, NothingWithin DEF Carried, JobBrings, Idle

\* What grows still holds what it held.
LEMMA StillWithin ==
  ASSUME NEW t, NEW u, Within(t, u)
  PROVE  /\ \A w : WriteWithin(w, t) => WriteWithin(w, u)
         /\ \A q : DeferredWithin(q, t) => DeferredWithin(q, u)
         /\ \A j : JobWithin(j, t) => JobWithin(j, u)
         /\ u # NoSidecar => \A j : JobBrings(j, t) => JobBrings(j, u)
  <1>1. \A w : WriteWithin(w, t) => WriteWithin(w, u)
    BY DEF Within, WriteWithin
  <1>2. \A q : DeferredWithin(q, t) => DeferredWithin(q, u)
    BY <1>1 DEF DeferredWithin
  <1>3. \A j : JobWithin(j, t) => JobWithin(j, u)
    BY DEF Within, JobWithin
  <1>4. u # NoSidecar => \A j : JobBrings(j, t) => JobBrings(j, u)
    BY DEF Within, JobBrings
  <1> QED BY <1>1, <1>2, <1>3, <1>4

LEMMA CarriedStill ==
  ASSUME FilesGrow, CopyGrows, NEW m \in Machines, Carried(m)
  PROVE  /\ DeferredWithin(deferred[m], file'[m]) /\ WriteWithin(queued[m], file'[m])
         /\ JobWithin(job[m], file'[m]) /\ JobBrings(job[m], copy')
  <1>1. Within(file[m], file'[m])
    BY DEF FilesGrow, Within
  <1>2. JobBrings(job[m], copy')
    <2>1. CASE copy = NoSidecar
      BY <2>1 DEF Carried, JobBrings
    <2>2. CASE copy # NoSidecar
      BY <2>2, StillWithin DEF Carried, CopyGrows
    <2> QED BY <2>1, <2>2
  <1> QED BY <1>1, <1>2, StillWithin DEF Carried

LEMMA SameCarried ==
  ASSUME FilesGrow, CopyGrows, NEW m \in Machines, Carried(m),
         deferred'[m] \in {deferred[m], <<>>}, queued'[m] \in {queued[m], NoWrite},
         job'[m] \in {job[m], Idle}
  PROVE  Carried(m)'
  BY CarriedStill, NothingWithin DEF Carried

LEMMA OneCarries ==
  ASSUME AllCarried, FilesGrow, CopyGrows, NEW m \in Machines, Apart(m), Carried(m)'
  PROVE  AllCarried'
  <1>1. ASSUME NEW o \in Machines, o # m PROVE Carried(o)'
    BY <1>1, SameCarried DEF Apart, AllCarried
  <1> QED BY <1>1 DEF AllCarried

\* A write that is sent, of what is in the file.
LEMMA StartedWithin ==
  ASSUME NEW w, NEW t, WriteWithin(w, t)
  PROVE  JobWithin(Started(w), t) /\ \A c : JobBrings(Started(w), c)
  BY DEF WriteWithin, Started, JobWithin, JobBrings

\* A write queued, or the next one sent.
LEMMA SentCarries ==
  ASSUME FilesGrow, CopyGrows, NEW m \in Machines, Carried(m), deferred'[m] = deferred[m],
         DOMAIN queued = Machines, NEW out, DOMAIN out = Machines, out[m] \in {Idle, job[m]},
         SendNext(m, out) \/ \E w : WriteWithin(w, file'[m]) /\ Queue(m, w, out)
  PROVE  Carried(m)'
  <1>1. \/ job'[m] = out[m] /\ WriteWithin(queued'[m], file'[m])
        \/ \E w : WriteWithin(w, file'[m]) /\ job'[m] = Started(w) /\ queued'[m] = NoWrite
    <2>1. CASE SendNext(m, out)
      BY <2>1, SendNextIs, CarriedStill
    <2>2. CASE \E w : WriteWithin(w, file'[m]) /\ Queue(m, w, out)
      <3>1. PICK w : WriteWithin(w, file'[m]) /\ Queue(m, w, out)
        BY <2>2
      <3>2. \/ job'[m] = Started(w) /\ queued'[m] = NoWrite
            \/ job'[m] = out[m] /\ queued'[m] = w
        BY <3>1, QueueIs
      <3> QED BY <3>1, <3>2
    <2> QED BY <2>1, <2>2
  <1>2. DeferredWithin(deferred'[m], file'[m])
    BY CarriedStill
  <1>3. JobWithin(out[m], file'[m]) /\ JobBrings(out[m], copy')
    BY CarriedStill, NothingWithin
  <1> QED BY <1>1, <1>2, <1>3, StartedWithin, NothingWithin DEF Carried

\* A window's step.
LEMMA WindowCarries ==
  ASSUME Steady, AllCarried, FilesGrow, CopyGrows, NEW m \in Machines,
         \/ Open(m) \/ ReaderOpened(m) \/ Read(m) \/ Save(m) \/ DiskSave(m) \/ HeadlessSave(m)
         \/ JobLost(m) \/ Landed(m) \/ Heard(m) \/ Retry(m) \/ Quit(m) \/ End(m) \/ Crash(m)
  PROVE  AllCarried'
  <1>0. HoldsFile(m) /\ MachineFine(m) /\ Fine /\ Carried(m)
    BY DEF Steady, Fine, AllCarried
  <1>a. /\ DOMAIN file = Machines /\ DOMAIN mem = Machines /\ DOMAIN job = Machines
        /\ DOMAIN queued = Machines /\ DOMAIN deferred = Machines
    BY <1>0 DEF Fine, Typed
  <1>b. \A s : WriteWithin(Memory(s), s)
    BY DEF WriteWithin, Within, Memory
  <1>1. CASE Open(m) \/ Read(m) \/ HeadlessSave(m)
    <2>1. UNCHANGED <<deferred, queued, job>>
      BY <1>1 DEF Open, Read, HeadlessSave
    <2> QED BY <1>0, <1>1, <2>1, OpenFine, ReadFine, HeadlessSaveFine, SameCarried, OneCarries
  <1>2. CASE JobLost(m) \/ Quit(m) \/ End(m) \/ Crash(m)
    <2>1. deferred'[m] \in {deferred[m], <<>>} /\ queued'[m] \in {queued[m], NoWrite}
          /\ job'[m] \in {job[m], Idle}
      BY <1>2, <1>a DEF JobLost, Quit, End, Crash, Gone
    <2>2. Apart(m)
      BY <1>0, <1>2, JobLostFine, QuitFine, GoneFine DEF End, Crash
    <2> QED BY <1>0, <2>1, <2>2, SameCarried, OneCarries
  <1>3. CASE ReaderOpened(m)
    <2>1. CASE deferred[m] = <<>>
      <3>1. UNCHANGED <<queued, job>> /\ deferred'[m] = <<>>
        BY <1>3, <1>a, <2>1 DEF ReaderOpened
      <3> QED BY <1>0, <1>3, <3>1, ReaderOpenedFine, SameCarried, OneCarries
    <2>2. CASE deferred[m] # <<>>
      <3>1. /\ job'[m] = Started(Head(deferred[m])) /\ deferred'[m] = <<>>
            /\ queued'[m] \in {NoWrite, deferred[m][Len(deferred[m])]}
        BY <1>3, <1>a, <2>2 DEF ReaderOpened
      <3>2. PICK S : deferred[m] \in Seq(S)
        BY <1>0 DEF MachineFine, DeferredFine
      <3>3. /\ 1 \in DOMAIN deferred[m] /\ Len(deferred[m]) \in DOMAIN deferred[m]
            /\ Head(deferred[m]) = deferred[m][1]
        BY <2>2, <3>2
      <3>4. /\ WriteWithin(Head(deferred[m]), file'[m])
            /\ WriteWithin(deferred[m][Len(deferred[m])], file'[m])
        BY <1>0, <3>3, CarriedStill DEF DeferredWithin
      <3>5. Carried(m)'
        BY <3>1, <3>4, StartedWithin, NothingWithin DEF Carried
      <3> QED BY <1>0, <1>3, <3>5, ReaderOpenedFine, OneCarries
    <2> QED BY <2>1, <2>2
  <1>4. CASE Save(m) \/ DiskSave(m)
    <2>1. PICK w : QueueFor(m, w) /\ WriteWithin(w, file'[m])
      <3> DEFINE new == Saved(m, Number(m), mem[m])
      <3>1. CASE Save(m)
        <4>1. file'[m] = new /\ QueueFor(m, Memory(new))
          BY <1>a, <3>1 DEF Save
        <4> QED BY <1>b, <4>1
      <3>2. CASE DiskSave(m)
        BY <3>2, NothingWithin DEF DiskSave
      <3> QED BY <1>4, <3>1, <3>2
    <2>2. Carried(m)'
      <3>1. CASE window[m] = "open"
        BY <1>0, <1>a, <2>1, <3>1, SentCarries DEF QueueFor
      <3>2. CASE window[m] # "open"
        <4>1. deferred'[m] = Append(deferred[m], w) /\ UNCHANGED <<queued, job>>
          BY <1>a, <2>1, <3>2 DEF QueueFor
        <4>2. DeferredWithin(deferred'[m], file'[m])
          <5>1. PICK S : deferred[m] \in Seq(S)
            BY <1>0 DEF MachineFine, DeferredFine
          <5>2. deferred[m] \in Seq(S \cup {w})
            BY <5>1
          <5>3. ASSUME NEW i \in DOMAIN deferred'[m]
                PROVE  \/ deferred'[m][i] = w
                       \/ i \in DOMAIN deferred[m] /\ deferred'[m][i] = deferred[m][i]
            BY <4>1, <5>2, <5>3
          <5> QED BY <1>0, <2>1, <5>3, CarriedStill DEF DeferredWithin
        <4> QED BY <1>0, <4>1, <4>2, CarriedStill DEF Carried
      <3> QED BY <3>1, <3>2
    <2> QED BY <1>0, <1>4, <2>2, SaveFine, DiskSaveFine, OneCarries
  <1>6. CASE Heard(m) \/ Retry(m)
    <2> DEFINE w == IF Held(m) THEN Memory(mem[m]) ELSE Disk
    <2>1. Queue(m, w, job) \/ UNCHANGED <<queued, job>>
      BY <1>6 DEF Heard, Retry
    <2>2. UNCHANGED <<deferred, file>> /\ (Held(m) => mem[m] = file[m])
      BY <1>0, <1>6 DEF Heard, Retry, HoldsFile
    <2>3. WriteWithin(w, file'[m])
      BY <1>b, <2>2, NothingWithin
    <2> HIDE DEF w
    <2>4. Carried(m)'
      BY <1>0, <1>a, <2>1, <2>2, <2>3, SentCarries, SameCarried
    <2> QED BY <1>0, <1>6, <2>4, HeardFine, RetryFine, OneCarries
  <1>7. CASE Landed(m)
    <2> DEFINE out == [job EXCEPT ![m] = Idle]
               theirs == job[m].side
    <2>1. DOMAIN out = Machines /\ out[m] = Idle /\ deferred' = deferred
      BY <1>a, <1>7 DEF Landed
    <2>2. listed[m] /\ (Held(m) => mem[m] = file[m])
      BY <1>0, <1>7 DEF Landed, HoldsFile
    <2>3. SendNext(m, out) \/ (mem[m] = file[m] /\ SettleHeld(m, theirs, out))
      BY <1>7, <2>2 DEF Landed
    <2> HIDE DEF out
    <2>4. SendNext(m, out) \/ \E s : Queue(m, Memory(s), out) /\ file'[m] = s
      BY <1>a, <2>3 DEF SettleHeld
    <2>5. SendNext(m, out) \/ \E w : WriteWithin(w, file'[m]) /\ Queue(m, w, out)
      BY <1>b, <2>4
    <2>6. Carried(m)'
      BY <1>0, <1>a, <2>1, <2>5, SentCarries
    <2> QED BY <1>0, <1>7, <2>6, LandedFine, OneCarries
  <1> QED BY <1>1, <1>2, <1>3, <1>4, <1>6, <1>7

\* A job's step: what it carries goes with it, the copy it will have settled is on the archive.
LEMMA JobCarries ==
  ASSUME Steady, AllCarried, FilesGrow, CopyGrows, NEW m \in Machines, JobSteps(m)
  PROVE  AllCarried'
  <1>0. HoldsFile(m) /\ Fine /\ JobFine(job[m]) /\ DOMAIN job = Machines /\ Carried(m)
    BY DEF Steady, Fine, Typed, MachineFine, AllCarried
  <1>a. \A t : At(m, t)[m] = [step |-> t, kind |-> job[m].kind, side |-> job[m].side]
    BY <1>0, AtIs
  <1>b. \A t, s : Carrying(m, t, s)[m] = [step |-> t, kind |-> job[m].kind, side |-> s]
    BY <1>0, CarryingIs
  <1>c. /\ DeferredWithin(deferred[m], file'[m]) /\ WriteWithin(queued[m], file'[m])
        /\ JobWithin(job[m], file'[m])
    BY <1>0, CarriedStill
  <1>d. ~JobKeeps(m)
    BY <1>0 DEF JobKeeps, HoldsFile
  <1>1. UNCHANGED <<file, deferred, queued>>
    BY <1>d DEF JobSteps, JobNotes, JobLooks, JobLoads, JobChecks, JobWrites, JobRecords
  <1>2. JobWithin(job'[m], file'[m]) /\ JobBrings(job'[m], copy')
    <2>1. CASE JobNotes(m) \/ JobLooks(m)
      <3>1. PICK t \in {"look", "load", "waiting"} :
              job' = At(m, t) /\ job[m].step \in {"note", "look"}
        BY <2>1 DEF JobNotes, JobLooks
      <3>2. job'[m] = [step |-> t, kind |-> job[m].kind, side |-> job[m].side]
        BY <3>1, <1>a
      <3> QED BY <3>1, <3>2, <1>c DEF JobWithin, JobBrings
    <2>2. CASE JobLoads(m)
      <3>1. CASE job[m].step = "load" /\ job[m].kind = "memory" /\ job' = At(m, "check")
        <4>1. job'[m] = [step |-> "check", kind |-> job[m].kind, side |-> job[m].side]
          BY <3>1, <1>a
        <4> QED BY <3>1, <4>1, <1>c DEF JobWithin, JobBrings
      <3>2. CASE job' = Carrying(m, "check", file[m])
        <4>1. job'[m] = [step |-> "check", kind |-> job[m].kind, side |-> file[m]]
          BY <3>2, <1>b
        <4> QED BY <1>1, <4>1 DEF JobWithin, JobBrings, Within
      <3> QED BY <1>0, <2>2, <3>1, <3>2 DEF JobLoads, HoldsFile
    <2>3. CASE JobChecks(m)
      <3>1. CASE /\ job[m].step = "check"
                 /\ \E t \in {"waiting", "write", "record"} : job' = At(m, t)
        <4>1. PICK t \in {"waiting", "write", "record"} : job' = At(m, t)
          BY <3>1
        <4>2. job'[m] = [step |-> t, kind |-> job[m].kind, side |-> job[m].side]
          BY <4>1, <1>a
        <4> QED BY <3>1, <4>2, <1>c DEF JobWithin, JobBrings
      <3>2. CASE job' = Carrying(m, "settle", copy) /\ copy # NoSidecar /\ copy' = copy
        <4>1. job'[m] = [step |-> "settle", kind |-> job[m].kind, side |-> copy]
          BY <3>2, <1>b
        <4> QED BY <3>2, <4>1 DEF JobWithin, JobBrings, Within
      <3> QED BY <2>3, <3>1, <3>2 DEF JobChecks, Ours
    <2>4. CASE JobWrites(m)
      <3>1. PICK t \in {"waiting", "record"} : job[m].step = "write" /\ job' = At(m, t)
        BY <2>4 DEF JobWrites
      <3>2. job'[m] = [step |-> t, kind |-> job[m].kind, side |-> job[m].side]
        BY <3>1, <1>a
      <3> QED BY <3>1, <3>2, <1>c DEF JobWithin, JobBrings
    <2>5. CASE JobRecords(m)
      <3>1. job' = At(m, "done")
        BY <2>5 DEF JobRecords
      <3>2. job'[m] = [step |-> "done", kind |-> job[m].kind, side |-> job[m].side]
        BY <3>1, <1>a
      <3> QED BY <3>2 DEF JobWithin, JobBrings
    <2> QED BY <1>d, <2>1, <2>2, <2>3, <2>4, <2>5 DEF JobSteps
  <1>3. Carried(m)'
    BY <1>1, <1>2, <1>c DEF Carried
  <1> QED BY <1>0, <1>3, JobStepsFine, OneCarries

LEMMA NextCarried ==
  ASSUME ~Gap, Steady, Undisturbed, AllCarried, [Next]_vars
  PROVE  AllCarried' /\ FilesGrow /\ CopyGrows
  <1>1. FilesGrow /\ CopyGrows
    BY NextSteady, NextUndisturbed, MoreIsThere
  <1>2. ASSUME NEW m \in Machines, Turn(m) PROVE FALSE
    BY <1>2 DEF Turn, Steady, NoTurns
  <1>3. CASE UNCHANGED vars \/ ArchiveGoes \/ ArchiveReturns
    <2>1. UNCHANGED <<deferred, queued, job>>
      BY <1>3 DEF vars, ArchiveGoes, ArchiveReturns
    <2> QED BY <1>1, <2>1, SameCarried DEF AllCarried
  <1> QED BY <1>1, <1>2, <1>3, WindowCarries, JobCarries DEF Next

\* What is on the archive.
There(c) == IF c = NoSidecar THEN {} ELSE Knows(c)

LEMMA Learning ==
  ASSUME NEW m \in Machines, DOMAIN file = Machines, NEW s, NEW saves,
         file' = [file EXCEPT ![m] = s], copy' = copy, Knows(s) = Knows(file[m]) \cup saves
  PROVE  Spread!Learns(m, saves)
  BY DEF Spread!Learns

LEMMA Saving ==
  ASSUME NEW m \in Machines, DOMAIN file = Machines, NEW n,
         file' = [file EXCEPT ![m] = Saved(m, n, file[m])], copy' = copy
  PROVE  Spread!Save(m)
  <1> DEFINE new == Saved(m, n, file[m])
  <1>1. Knows(new) = Knows(file[m]) \cup {new}
    BY DEF Saved, Knows
  <1> HIDE DEF new
  <1>2. Spread!Learns(m, {new})
    BY <1>1, Learning DEF new
  <1>3. new \in Knows(file'[m])
    BY <1>1 DEF new
  <1> QED BY <1>2, <1>3 DEF Spread!Save

\* What is settled into the file of a window: a copy that is there, or the join with it.
LEMMA Settling ==
  ASSUME Steady, NEW m \in Machines, NEW theirs, Honest(theirs),
         copy # NoSidecar, Within(theirs, copy), NEW out, SettleHeld(m, theirs, out),
         mem[m] = file[m], copy' = copy
  PROVE  Spread!Next \/ UNCHANGED file
  <1> DEFINE there == There(copy)
             join == Join(mem[m], theirs)
  <1>0. DOMAIN file = Machines /\ Honest(mem[m]) /\ Knows(theirs) \subseteq there
    BY DEF Steady, Fine, Typed, MachineFine, Within, There
  <1>1. CASE BehindLocal(mem[m], theirs) /\ file' = [file EXCEPT ![m] = theirs]
    <2>1. Knows(theirs) = Knows(file[m]) \cup (Knows(file'[m]) \cap there)
      <3>1. Knows(mem[m]) \subseteq Knows(theirs)
        BY <1>1, KnowsAll DEF BehindLocal
      <3> QED BY <1>0, <1>1, <3>1
    <2>2. Spread!Learns(m, Knows(file'[m]) \cap there)
      BY <1>0, <1>1, <2>1, Learning
    <2>3. Spread!Take(m)
      BY <2>2 DEF Spread!Take, There
    <2> QED BY <2>3 DEF Spread!Next
  <1>2. CASE file' = [file EXCEPT ![m] = join]
    <2>1. Knows(join) = Knows(mem[m]) \cup Knows(theirs) \cup {join}
      BY DEF Join, Knows
    <2>2. file'[m] = join
      BY <1>0, <1>2
    <2> HIDE DEF join
    <2>3. Knows(join) = Knows(file[m]) \cup ({join} \cup (Knows(file'[m]) \cap there))
      BY <1>0, <2>1, <2>2
    <2>4. Spread!Learns(m, {join} \cup (Knows(file'[m]) \cap there))
      BY <1>0, <1>2, <2>3, Learning
    <2>5. Spread!Join(m)
      BY <2>1, <2>2, <2>4 DEF Spread!Join, There
    <2> QED BY <2>5 DEF Spread!Next
  <1> QED BY <1>1, <1>2 DEF SettleHeld

LEMMA WindowSpreads ==
  ASSUME Steady, Undisturbed, AllCarried, NEW m \in Machines,
         \/ Open(m) \/ ReaderOpened(m) \/ Read(m) \/ Save(m) \/ DiskSave(m) \/ HeadlessSave(m)
         \/ JobLost(m) \/ Landed(m) \/ Heard(m) \/ Retry(m) \/ Quit(m) \/ End(m) \/ Crash(m)
  PROVE  Spread!Next \/ UNCHANGED <<file, copy>>
  <1>0. HoldsFile(m) /\ Carried(m) /\ DOMAIN file = Machines
    BY DEF Steady, Fine, Typed, AllCarried
  <1>1. copy' = copy
    BY WindowBeside
  <1>2. CASE \E n : file' = [file EXCEPT ![m] = Saved(m, n, file[m])]
    <2>1. PICK n : file' = [file EXCEPT ![m] = Saved(m, n, file[m])]
      BY <1>2
    <2>2. Spread!Save(m)
      BY <1>0, <1>1, <2>1, Saving
    <2> QED BY <2>2 DEF Spread!Next
  <1>3. CASE Save(m) \/ DiskSave(m) \/ HeadlessSave(m) \/ Quit(m)
    BY <1>0, <1>1, <1>2, <1>3 DEF Save, DiskSave, HeadlessSave, Quit, Held, HoldsFile
  <1>4. CASE \/ Open(m) \/ ReaderOpened(m) \/ Read(m) \/ JobLost(m) \/ Heard(m) \/ Retry(m)
             \/ End(m) \/ Crash(m)
    BY <1>1, <1>4 DEF Open, ReaderOpened, Read, JobLost, Heard, Retry, End, Crash, Gone
  <1>5. CASE Landed(m)
    <2>1. listed[m] /\ (Held(m) => mem[m] = file[m])
      BY <1>0, <1>5 DEF Landed, HoldsFile
    <2>2. \/ UNCHANGED file
          \/ /\ job[m].step = "settle" /\ Held(m)
             /\ SettleHeld(m, job[m].side, [job EXCEPT ![m] = Idle])
      BY <1>5, <2>1 DEF Landed
    <2>3. Honest(job[m].side)
      BY DEF Steady, Fine, MachineFine, JobFine
    <2>4. job[m].step = "settle" => copy # NoSidecar /\ Within(job[m].side, copy)
      BY <1>0 DEF Carried, JobBrings
    <2> QED BY <1>1, <2>1, <2>2, <2>3, <2>4, Settling
  <1> QED BY <1>3, <1>4, <1>5

LEMMA JobSpreads ==
  ASSUME ~Gap, Steady, Undisturbed, AllCarried, NEW m \in Machines, JobSteps(m)
  PROVE  Spread!Next \/ UNCHANGED <<file, copy>>
  <1>0. HoldsFile(m) /\ Carried(m)
    BY DEF Steady, AllCarried
  <1>1. UNCHANGED file
    BY <1>0 DEF JobSteps, JobNotes, JobLooks, JobLoads, JobKeeps, JobChecks, JobWrites,
                JobRecords, HoldsFile
  <1>2. UNCHANGED copy \/ (job[m].step = "write" /\ copy' = job[m].side)
    BY DEF JobSteps, JobNotes, JobLooks, JobLoads, JobKeeps, JobChecks, JobWrites, JobRecords
  <1>3. CASE job[m].step = "write" /\ copy' = job[m].side
    <2>1. Within(copy', file[m])
      BY <1>0, <1>3 DEF Carried, JobWithin
    <2>2. CopyGrows
      BY JobUndisturbed, MoreIsThere
    <2>3. There(copy) \subseteq There(copy') /\ There(copy') \subseteq Knows(file[m])
      BY <2>1, <2>2 DEF There, Within, CopyGrows
    <2>4. Spread!Put(m)
      BY <1>1, <2>3 DEF Spread!Put, There
    <2> QED BY <2>4 DEF Spread!Next
  <1> QED BY <1>1, <1>2, <1>3

LEMMA NextSpreads ==
  ASSUME ~Gap, Steady, Undisturbed, AllCarried, [Next]_vars
  PROVE  [Spread!Next]_(Spread!vars)
  <1>1. ASSUME NEW m \in Machines, Turn(m) PROVE FALSE
    BY <1>1 DEF Turn, Steady, NoTurns
  <1>2. ASSUME UNCHANGED vars \/ ArchiveGoes \/ ArchiveReturns PROVE UNCHANGED <<file, copy>>
    BY <1>2 DEF vars, ArchiveGoes, ArchiveReturns
  <1>3. Spread!Next \/ UNCHANGED <<file, copy>>
    BY <1>1, <1>2, WindowSpreads, JobSpreads DEF Next
  <1>4. UNCHANGED <<file, copy>> => UNCHANGED Spread!vars
    BY DEF Spread!vars
  <1> QED BY <1>3, <1>4

\* ArchiveSync implements SavesSpread while windows hold their frames and nothing comes
\* between a job's check and its record: every save, settling, quit, crash and lost job is a
\* step of what the machines promise of the saves, or none.
THEOREM ArchiveSpreads == ASSUME ~Gap, MaxTurns = 0 PROVE Spec => SavesSpread
  <1>1. Init => Spread!Init
    <2>1. Knows(Base) = {Base}
      BY DEF Knows, Base
    <2> QED BY <2>1, SidecarsAreThere DEF Init, Spread!Init
  <1>2. Steady /\ Undisturbed /\ AllCarried /\ [Next]_vars
          => Steady' /\ Undisturbed' /\ AllCarried'
    BY NextSteady, NextUndisturbed, NextCarried
  <1>3. Steady /\ Undisturbed /\ AllCarried /\ [Next]_vars => [Spread!Next]_(Spread!vars)
    BY NextSpreads
  <1> QED BY InitSteady, InitUndisturbed, InitCarried, <1>1, <1>2, <1>3, PTL
      DEF Spec, SavesSpread, Spread!Spec

=============================================================================
