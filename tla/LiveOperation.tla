---------------------------- MODULE LiveOperation ----------------------------
(***************************************************************************)
(* One application's multi-file client write (mode/operation.rs): the      *)
(* write-ahead intent kept in live-state.json, the temporary files, the    *)
(* publication loop with its replans, the settlement of the target, and    *)
(* the recovery that rolls an interrupted operation forward or discards    *)
(* it.  The per-application write lock is held from the first step of an   *)
(* operation to its last one, so the steps of CC Switch are sequential;    *)
(* what interleaves with them are the client, which takes no lock, and the *)
(* death of the process.                                                   *)
(***************************************************************************)
EXTENDS Naturals

CONSTANTS
    NumFiles,     \* the client files of the application, in publication order
    Owners,       \* who the CC Switch fields of a file can belong to
    UserParts,    \* the states of the part of a file that belongs to the user
    Targets,      \* the targets an operation can be asked to settle
    Absent,       \* the content of a file that does not exist
    Corrupt,      \* the content of a file that does not parse
    None,         \* no temporary file, no pending intent, no pointer, no mode
    MaxReplans,   \* MAX_REPLANS
    Faults,       \* the I/O steps that may fail
    MaxFaults,    \* bound on the failures of one behaviour
    MaxCrashes    \* bound on the crashes of one behaviour

Files == 1..NumFiles
Slots == 0..MaxReplans
Content == [own : Owners, user : UserParts] \cup {Absent, Corrupt}

\* A target: whose fields the files get, which files it deletes, and the
\* pointer and the mode it settles (None: left alone).
Target == [own : Owners, deletes : SUBSET Files,
           pointer : Owners \cup {None}, mode : {"direct", "proxy", None}]

PendingFile == [pre : Content, planned : Content, staged : Slots \cup {None}]
Pending == [target : Targets,
            files : UNION {[S -> PendingFile] : S \in SUBSET Files},
            published : BOOLEAN]

ASSUME SizeAssumption == /\ NumFiles \in Nat \ {0}
                         /\ MaxReplans \in Nat
                         /\ MaxFaults \in Nat
                         /\ MaxCrashes \in Nat
ASSUME TargetAssumption == Targets \subseteq Target
ASSUME UserAssumption == UserParts # {}
ASSUME NoneAssumption == /\ None \notin Pending
                         /\ None \notin Slots
                         /\ None \notin Targets
                         /\ None \notin Content
                         /\ None \notin [target : Targets, marked : BOOLEAN]
ASSUME ContentAssumption ==
    {Absent, Corrupt} \cap [own : Owners, user : UserParts] = {}
    /\ Absent # Corrupt

VARIABLES
    file,       \* the client files
    tmp,        \* temporary files: the content staged in each slot, or None
    backed,     \* the files whose first-write backup has its marker
    pending,    \* the intent in live-state.json, or None
    store,      \* what targets settle: device pointer, database pointer, mode, mirror
    pc,         \* the next step of the holder of the write lock
    job,        \* the target that holder was asked for, or None
    recovering, \* whether the step belongs to recover or to run
    mem,        \* the intent in memory, or None
    todo,       \* the files still to be handled by the current loop
    replans,    \* replans of the current file
    any,        \* published_any
    wrote,      \* history: files the publication loop swapped in for this intent
    rolled,     \* history: files a recovery swapped in for this intent
    raced,      \* history: files the client changed since they were last compared
    faults, crashes

disk == <<file, tmp, backed>>
history == <<wrote, rolled, raced>>
budget == <<faults, crashes>>
memory == <<job, recovering, mem, todo, replans, any>>
vars == <<disk, pending, store, pc, memory, history, budget>>

StorePart == {"settings", "db", "mode", "mirror"}
Steps == {"idle", "down", "classify", "roll", "plan", "intend", "publish",
          "reintend", "mark", "rename", "drop", "dropClear", "settings", "db",
          "mode", "mirror", "sweep", "clear"}

DiskOK ==
    /\ file \in [Files -> Content]
    /\ tmp \in [Files -> [Slots -> Content \cup {None}]]
    /\ backed \in SUBSET Files
    /\ pending \in Pending \cup {None}
    /\ store \in [settings : Owners, db : Owners,
                  mode : {"direct", "proxy"}, mirror : BOOLEAN]

MemoryOK ==
    /\ pc \in Steps
    /\ job \in Targets \cup {None}
    /\ recovering \in BOOLEAN
    /\ mem \in Pending \cup {None}
    /\ todo \in SUBSET Files
    /\ any \in BOOLEAN

HistoryOK == wrote \in SUBSET Files /\ rolled \in SUBSET Files /\ raced \in SUBSET Files

CountsOK == replans \in Nat /\ faults \in Nat /\ crashes \in Nat

\* Types: the disk, the memory of the lock holder, the history and the counts.
TypeOK == DiskOK /\ MemoryOK /\ HistoryOK /\ CountsOK
-----------------------------------------------------------------------------
(* The pure part: patches, plans, and the intent of a set of plans.        *)

DefaultUser == CHOOSE u \in UserParts : TRUE

\* A patch refuses a content that does not parse; a deletion reads nothing.
Refuses(f, t, c) == c = Corrupt /\ f \notin t.deletes

\* A patch sets the fields of CC Switch and keeps the rest of the file.
Patch(f, t, c) ==
    IF f \in t.deletes THEN Absent
    ELSE [own |-> t.own, user |-> IF c \in {Absent, Corrupt} THEN DefaultUser ELSE c.user]

IsNoop(p) == p.pre = p.planned

\* Mutant of SlotOf: the slots are counted from one.
SlotOfNext(f, t, n) == IF f \in t.deletes THEN None ELSE n + 1

\* The staged slot of a plan: a deletion has no temporary file.
SlotOf(f, t, n) == IF f \in t.deletes THEN None ELSE n

PlanFrom(f, t, c, n) ==
    [pre |-> c, planned |-> Patch(f, t, c), staged |-> SlotOf(f, t, n)]

Changed(t) == {f \in Files : Patch(f, t, file[f]) # file[f]}

\* The file a loop over S handles next: the first one in publication order.
Lowest(S) == {f \in S : \A g \in S : f <= g}

\* tmp without the temporary files of the intent m.
Discarded(m) ==
    [f \in Files |-> [n \in Slots |->
        IF f \in DOMAIN m.files /\ n = m.files[f].staged THEN None ELSE tmp[f][n]]]

\* tmp without slot n of file f; a deletion (n = None) leaves it as it is.
WithoutSlot(f, n) ==
    IF n = None THEN tmp ELSE [tmp EXCEPT ![f][n] = None]

StagedReady(f, p) ==
    IF p.staged = None THEN p.planned = Absent ELSE tmp[f][p.staged] = p.planned

\* An I/O step fails: the step is one that may, and the bound is not reached.
Fails(step) == step \in Faults /\ faults < MaxFaults /\ faults' = faults + 1

Init ==
    /\ \E o \in Owners :
         /\ file = [f \in Files |-> [own |-> o, user |-> DefaultUser]]
         /\ store = [settings |-> o, db |-> o, mode |-> "direct", mirror |-> FALSE]
    /\ tmp = [f \in Files |-> [n \in Slots |-> None]]
    /\ backed = {}
    /\ pending = None
    /\ pc = "idle"
    /\ job = None /\ recovering = FALSE /\ mem = None
    /\ todo = {} /\ replans = 0 /\ any = FALSE
    /\ wrote = {} /\ rolled = {} /\ raced = {}
    /\ faults = 0 /\ crashes = 0

\* The holder of the write lock returns, with a result or with an error.
Return ==
    /\ pc' = "idle"
    /\ job' = None /\ recovering' = FALSE /\ mem' = None
    /\ todo' = {} /\ replans' = 0 /\ any' = FALSE

Goto(step) == pc' = step
-----------------------------------------------------------------------------
(* run: plan, stage, record the intent.                                    *)

\* Mutant of Recover: temporary files are swept before the intent is read.
RecoverAfterSweep(t) ==
    /\ pending # None
    /\ Goto("classify")
    /\ job' = t /\ recovering' = TRUE /\ mem' = pending
    /\ tmp' = Discarded(pending)
    /\ UNCHANGED <<file, backed, pending, store, todo, replans, any, history, budget>>

\* Startup or an entry point settles an unfinished operation first.
Recover(t) ==
    /\ pending # None
    /\ Goto("classify")
    /\ job' = t /\ recovering' = TRUE /\ mem' = pending
    /\ UNCHANGED <<disk, pending, store, todo, replans, any, history, budget>>

\* Mutant of Settle: an intent that was never marked is left for later.
SettleMarkedOnly == pc = "idle" /\ pending # None /\ pending.published /\ Recover(None)

\* settle: complete what the last operation left, and nothing else.
Settle == pc = "idle" /\ Recover(None)

\* AppWrite::begin: take the write lock and recover before planning.
Begin(t) ==
    /\ pc = "idle"
    /\ \/ Recover(t)
       \/ /\ pending = None
          /\ Goto("plan")
          /\ job' = t
          /\ UNCHANGED <<disk, pending, store, recovering, mem, todo, replans, any,
                         history, budget>>

Intent(t, S) ==
    [target |-> t, files |-> [f \in S |-> PlanFrom(f, t, file[f], 0)], published |-> FALSE]

\* A file that does not parse stops the operation before anything is written.
PlanRefused ==
    /\ pc = "plan"
    /\ \E f \in Files : Refuses(f, job, file[f])
    /\ Return
    /\ UNCHANGED <<disk, pending, store, history, budget>>

\* Plan every file and stage the new contents.
PlanAndStage ==
    /\ pc = "plan"
    /\ ~ \E f \in Files : Refuses(f, job, file[f])
    /\ Changed(job) # {}
    /\ \/ /\ mem' = Intent(job, Changed(job))
          /\ tmp' = [f \in Files |-> IF f \in Changed(job) \ job.deletes
                                     THEN [tmp[f] EXCEPT ![0] = Patch(f, job, file[f])]
                                     ELSE tmp[f]]
          /\ raced' = {}
          /\ Goto("intend")
          /\ UNCHANGED <<job, recovering, todo, replans, any, faults>>
       \/ /\ Fails("stage")
          /\ Return
          /\ UNCHANGED <<tmp, raced>>
    /\ UNCHANGED <<file, backed, pending, store, wrote, rolled, crashes>>

\* No file changes: the target is settled without an intent.
PlanNothing ==
    /\ pc = "plan"
    /\ ~ \E f \in Files : Refuses(f, job, file[f])
    /\ Changed(job) = {}
    /\ mem' = Intent(job, {})
    /\ raced' = {}
    /\ Goto("settings")
    /\ UNCHANGED <<disk, pending, store, job, recovering, todo, replans, any,
                   wrote, rolled, budget>>

RecordIntent ==
    /\ pc = "intend"
    /\ \/ /\ pending' = mem
          /\ todo' = DOMAIN mem.files
          /\ Goto("publish")
          /\ UNCHANGED <<tmp, job, recovering, mem, replans, any, faults>>
       \/ /\ Fails("intend")
          /\ tmp' = Discarded(mem)
          /\ Return
          /\ UNCHANGED pending
    /\ UNCHANGED <<file, backed, store, history, crashes>>
-----------------------------------------------------------------------------
(* run: publish the files one by one.                                      *)

\* Mutant of GiveUp: the operation is withdrawn although files were swapped.
GiveUpAlways == Goto("drop") /\ UNCHANGED <<job, recovering, mem, todo, replans, any>>

\* Withdraw the operation, or leave its intent to be rolled forward.
GiveUp ==
    IF any THEN Return
    ELSE Goto("drop") /\ UNCHANGED <<job, recovering, mem, todo, replans, any>>

\* Mutant of BackUp: recovery swaps files without the first-write backup.
BackUpInRunOnly(f) == backed' = IF recovering THEN backed ELSE backed \cup {f}

\* ensure_first_write_backup, once for every file.
BackUp(f) == backed' = backed \cup {f}

\* Mutant of AfterCheck: the first swap is not preceded by the mark.
AfterCheckUnmarked == "rename"

\* The first swap of an operation is preceded by the mark.
AfterCheck == IF mem.published THEN "rename" ELSE "mark"

\* The last read before the swap still finds the content the plan started
\* from: keep the first-write backup, then mark or swap.
CheckUnchanged ==
    /\ pc = "publish"
    /\ \E f \in Lowest(todo) :
         /\ file[f] = mem.files[f].pre
         /\ \/ /\ BackUp(f)
               /\ raced' = raced \ {f}
               /\ Goto(AfterCheck)
               /\ UNCHANGED <<memory, faults>>
            \/ /\ Fails("backup")
               /\ Return
               /\ UNCHANGED <<backed, raced>>
    /\ UNCHANGED <<file, tmp, pending, store, wrote, rolled, crashes>>

\* Record that publication begins, before the first swap.
MarkPublished ==
    /\ pc = "mark"
    /\ mem' = [mem EXCEPT !.published = TRUE]
    /\ \/ /\ pending' = [mem EXCEPT !.published = TRUE]
          /\ Goto("rename")
          /\ UNCHANGED faults
       \/ /\ Fails("mark")
          /\ Goto("drop")
          /\ UNCHANGED pending
    /\ UNCHANGED <<disk, store, job, recovering, todo, replans, any, history, crashes>>

\* publish: swap the staged content in, or delete the file.
PublishFile ==
    /\ pc = "rename"
    /\ \E f \in Lowest(todo) :
         \/ /\ file' = [file EXCEPT ![f] = mem.files[f].planned]
            /\ tmp' = WithoutSlot(f, mem.files[f].staged)
            /\ wrote' = wrote \cup {f}
            /\ todo' = todo \ {f}
            /\ any' = TRUE /\ replans' = 0
            /\ Goto("publish")
            /\ UNCHANGED <<job, recovering, mem, faults>>
         \/ /\ Fails("rename")
            /\ GiveUp
            /\ UNCHANGED <<file, tmp, wrote>>
    /\ UNCHANGED <<backed, pending, store, rolled, raced, crashes>>

\* Mutant of Attempt: replans are not counted.
AttemptUncounted == replans

\* The number of the replan that a changed file calls for.
Attempt == replans + 1

\* The file changed under the plan once too often, or no longer parses.
GiveUpOnConflict ==
    /\ pc = "publish"
    /\ \E f \in Lowest(todo) :
         /\ file[f] # mem.files[f].pre
         /\ Attempt > MaxReplans \/ Refuses(f, mem.target, file[f])
    /\ GiveUp
    /\ UNCHANGED <<disk, pending, store, history, budget>>

\* Plan again from the new content; its result may be what is there already.
Replan ==
    /\ pc = "publish"
    /\ \E f \in Lowest(todo) :
       LET p == PlanFrom(f, mem.target, file[f], Attempt) IN
         /\ file[f] # mem.files[f].pre
         /\ Attempt <= MaxReplans
         /\ ~ Refuses(f, mem.target, file[f])
         /\ \/ /\ IsNoop(p)
               /\ tmp' = WithoutSlot(f, mem.files[f].staged)
               /\ mem' = [mem EXCEPT !.files[f] = [p EXCEPT !.staged = None]]
               /\ raced' = raced \ {f}
               /\ Goto("reintend")
               /\ UNCHANGED <<job, recovering, todo, replans, any, faults>>
            \/ /\ ~ IsNoop(p)
               /\ tmp' = IF p.staged = None THEN tmp
                         ELSE [tmp EXCEPT ![f][p.staged] = p.planned]
               /\ mem' = [mem EXCEPT !.files[f] = p]
               /\ replans' = Attempt
               /\ raced' = raced \ {f}
               /\ Goto("reintend")
               /\ UNCHANGED <<job, recovering, todo, any, faults>>
            \/ /\ ~ IsNoop(p)
               /\ Fails("stage")
               /\ Return
               /\ UNCHANGED <<tmp, raced>>
    /\ UNCHANGED <<file, backed, pending, store, wrote, rolled, crashes>>

\* Mutant of RecordReplan: a file that was planned again is taken for done.
RecordReplanDone ==
    /\ pc = "reintend"
    /\ \E f \in Lowest(todo) :
          \/ /\ pending' = mem
             /\ tmp' = tmp
             /\ todo' = todo \ {f}
             /\ replans' = 0
             /\ Goto("publish")
             /\ UNCHANGED <<job, recovering, mem, any, faults>>
          \/ /\ Fails("intend")
             /\ Return
             /\ UNCHANGED <<tmp, pending>>
    /\ UNCHANGED <<file, backed, store, history, crashes>>

\* Record the new plan; only then is the old temporary file discarded.
RecordReplan ==
    /\ pc = "reintend"
    /\ \E f \in Lowest(todo) :
       LET done == IsNoop(mem.files[f]) IN
          \/ /\ pending' = mem
             /\ tmp' = IF done THEN tmp ELSE WithoutSlot(f, pending.files[f].staged)
             /\ todo' = IF done THEN todo \ {f} ELSE todo
             /\ replans' = IF done THEN 0 ELSE replans
             /\ Goto("publish")
             /\ UNCHANGED <<job, recovering, mem, any, faults>>
          \/ /\ Fails("intend")
             /\ Return
             /\ UNCHANGED <<tmp, pending>>
    /\ UNCHANGED <<file, backed, store, history, crashes>>

AllPublished ==
    /\ pc = "publish" /\ todo = {}
    /\ Goto("settings")
    /\ UNCHANGED <<disk, pending, store, memory, history, budget>>
-----------------------------------------------------------------------------
(* Withdrawing: drop_unpublished, and the discard of recover.              *)

DropFiles ==
    /\ pc = "drop"
    /\ tmp' = Discarded(mem)
    /\ Goto("dropClear")
    /\ UNCHANGED <<file, backed, pending, store, memory, history, budget>>

\* After a discard, the write that was waiting for recover goes on.
DropIntent ==
    /\ pc = "dropClear"
    /\ \/ /\ pending' = None
          /\ wrote' = {} /\ rolled' = {}
          /\ IF recovering /\ job # None
             THEN /\ Goto("plan")
                  /\ recovering' = FALSE /\ mem' = None
                  /\ UNCHANGED <<job, todo, replans, any>>
             ELSE Return
          /\ UNCHANGED faults
       \/ /\ Fails("clear")
          /\ Return
          /\ UNCHANGED <<pending, wrote, rolled>>
    /\ UNCHANGED <<disk, store, raced, crashes>>
-----------------------------------------------------------------------------
(* commit_target: settle the target, one durable write after the other.    *)

\* One write of commit_target, and where it goes on.
Commit(step, new, next) ==
    /\ pc = step
    /\ \/ /\ store' = new
          /\ Goto(next)
          /\ UNCHANGED <<memory, faults>>
       \/ /\ new # store
          /\ Fails("settle")
          /\ Return
          /\ UNCHANGED store
    /\ UNCHANGED <<disk, pending, history, crashes>>

CommitSettings ==
    LET p == mem.target.pointer IN
    Commit("settings", IF p = None THEN store ELSE [store EXCEPT !.settings = p], "db")

\* Mutant of CommitDb: the database pointer is forgotten.
CommitDbSkipped == Commit("db", store, "mode")

CommitDb ==
    LET p == mem.target.pointer IN
    Commit("db", IF p = None THEN store ELSE [store EXCEPT !.db = p], "mode")

CommitMode ==
    LET m == mem.target.mode IN
    Commit("mode", IF m = None THEN store ELSE [store EXCEPT !.mode = m], "mirror")

MirrorProxyFlag ==
    LET m == mem.target.mode IN
    Commit("mirror", IF m = None THEN store ELSE [store EXCEPT !.mirror = (m = "proxy")],
           IF recovering THEN "sweep" ELSE "clear")

Sweep ==
    /\ pc = "sweep"
    /\ tmp' = Discarded(mem)
    /\ Goto("clear")
    /\ UNCHANGED <<file, backed, pending, store, memory, history, budget>>

\* The operation is complete: its intent goes.  Without files there is none.
ClearIntent ==
    /\ pc = "clear"
    /\ \/ /\ pending' = None
          /\ wrote' = {} /\ rolled' = {}
          /\ UNCHANGED faults
       \/ /\ pending # None
          /\ Fails("clear")
          /\ UNCHANGED <<pending, wrote, rolled>>
    /\ Return
    /\ UNCHANGED <<disk, store, raced, crashes>>
-----------------------------------------------------------------------------
(* recover: roll forward an operation that began to publish.               *)

\* Publication began: it is on record, or some file already holds its plan.
Started == pending.published \/ \E f \in DOMAIN pending.files : file[f] = pending.files[f].planned

\* Mutant of Unswapped: whatever is not at its new content is rolled forward.
UnswappedOrChanged(m) == {f \in DOMAIN m.files : file[f] # m.files[f].planned}

\* The files of the intent m still at their old content.
Unswapped(m) ==
    {f \in DOMAIN m.files : file[f] = m.files[f].pre /\ file[f] # m.files[f].planned}

Classify ==
    /\ pc = "classify"
    /\ IF Started
       THEN /\ todo' = Unswapped(mem)
            /\ Goto("roll")
       ELSE Goto("drop") /\ UNCHANGED todo
    /\ raced' = {}
    /\ UNCHANGED <<disk, pending, store, job, recovering, mem, replans, any,
                   wrote, rolled, budget>>

\* A file that was at its old content when classified gets the new one if its
\* temporary file is intact; the file itself is not compared again.
RollForward ==
    /\ pc = "roll"
    /\ \E f \in Lowest(todo) :
       LET p == mem.files[f] IN
          \/ /\ IF StagedReady(f, p)
                THEN /\ BackUp(f)
                     /\ file' = [file EXCEPT ![f] = p.planned]
                     /\ tmp' = WithoutSlot(f, p.staged)
                     /\ rolled' = rolled \cup {f}
                ELSE UNCHANGED <<backed, file, tmp, rolled>>
             /\ todo' = todo \ {f}
             /\ UNCHANGED <<pc, job, recovering, mem, replans, any, faults>>
          \/ /\ StagedReady(f, p)
             /\ Fails("rollforward")
             /\ Return
             /\ BackUp(f)
             /\ UNCHANGED <<file, tmp, rolled>>
    /\ UNCHANGED <<pending, store, wrote, raced, crashes>>

RolledForward ==
    /\ pc = "roll" /\ todo = {}
    /\ Goto("settings")
    /\ UNCHANGED <<disk, pending, store, memory, history, budget>>
-----------------------------------------------------------------------------
(* The client, the death of the process, and the next start.               *)

\* The client rewrites its own part, breaks the file, deletes it or makes it.
ClientContents(c) ==
    IF c \in {Absent, Corrupt} THEN [own : Owners, user : UserParts]
    ELSE {[c EXCEPT !.user = u] : u \in UserParts} \cup {Absent, Corrupt}

ClientWrites(f) ==
    /\ \E c \in ClientContents(file[f]) \ {file[f]} : file' = [file EXCEPT ![f] = c]
    /\ raced' = IF mem = None /\ pending = None THEN raced ELSE raced \cup {f}
    /\ UNCHANGED <<tmp, backed, pending, store, pc, memory, wrote, rolled, budget>>

Crash ==
    /\ pc # "down" /\ crashes < MaxCrashes
    /\ crashes' = crashes + 1
    /\ Goto("down")
    /\ job' = None /\ recovering' = FALSE /\ mem' = None
    /\ todo' = {} /\ replans' = 0 /\ any' = FALSE
    /\ UNCHANGED <<disk, pending, store, history, faults>>

\* recover_on_startup, before any startup step writes a client file.
Restart ==
    /\ pc = "down"
    /\ \/ Recover(None)
       \/ /\ pending = None
          /\ Goto("idle")
          /\ UNCHANGED <<disk, pending, store, memory, history, budget>>

Run == PlanRefused \/ PlanAndStage \/ PlanNothing \/ RecordIntent \/ CheckUnchanged
       \/ MarkPublished \/ PublishFile \/ GiveUpOnConflict \/ Replan \/ RecordReplan
       \/ AllPublished \/ DropFiles \/ DropIntent
       \/ CommitSettings \/ CommitDb \/ CommitMode \/ MirrorProxyFlag
       \/ Sweep \/ ClearIntent \/ Classify \/ RollForward \/ RolledForward

Next == Run \/ Settle \/ (\E t \in Targets : Begin(t))
        \/ (\E f \in Files : ClientWrites(f)) \/ Crash \/ Restart

\* The lock holder keeps running, a dead process is started again, and someone
\* keeps entering settle: every entry point calls it before it reads a pointer.
Fairness == WF_vars(Run) /\ WF_vars(Restart) /\ WF_vars(Settle)

Spec == Init /\ [][Next]_vars
FairSpec == Spec /\ Fairness
-----------------------------------------------------------------------------
(* The abstract specification this module implements.                      *)

Promise == INSTANCE WriteAheadIntent WITH
    intent <- IF pending = None THEN None
              ELSE [target |-> pending.target, marked |-> pending.published],
    swapped <- (wrote # {})
-----------------------------------------------------------------------------
(* Properties.                                                             *)

\* The stores hold everything the target t says.
Settled(t) == Promise!Settled(t)

\* A file the publication loop swapped in is covered by an intent on disk that
\* says publication began, so no recovery can take the operation for unstarted.
MarkBeforeSwap == wrote # {} => pending # None /\ pending.published

\* An operation that changed a file is forgotten only once its pointer, its
\* mode and the mirror of the mode are settled, crashes and failures included.
NeverForgotten ==
    [][wrote # {} /\ pending' = None => Settled(pending.target)]_vars

\* A marked intent is settled only after some file of it was swapped, or when
\* the client has meanwhile changed every one: a withdrawn operation, none of
\* whose files was swapped, changes nothing (operation.rs: drop_unpublished).
SettlesWhatItSwapped ==
    pc \in {"settings", "db", "mode", "mirror"} /\ pending # None /\ mem.published =>
        \/ wrote \cup rolled # {} \/ Settled(mem.target)
        \/ \A f \in DOMAIN pending.files :
              file[f] # pending.files[f].pre \/ IsNoop(pending.files[f]) \/ f \in raced

\* A swap overwrites the client's part of a file only if the client wrote
\* between the last comparison and the swap: neither a replan nor a recovery
\* after a crash loses an edit it could have seen.
ClientPartSurvives ==
    [][\A f \in ((wrote' \ wrote) \cup (rolled' \ rolled)) \ raced :
         \/ file'[f] = Absent
         \/ file[f] = Absent
         \/ file[f] # Corrupt /\ file'[f].user = file[f].user]_vars

\* No file is swapped before its first-write backup is complete.
BackupBeforeSwap == wrote \cup rolled \subseteq backed

\* An operation that comes to its settlement has handled every file of its plan: each
\* was swapped in, or a replan found its content there, however often the client
\* wrote in between (operation.rs: run, the loop over the files).
PublishesAll ==
    pc = "settings" /\ ~ recovering =>
        \A f \in DOMAIN mem.files : f \in wrote \/ IsNoop(mem.files[f])

\* How far the holder of the write lock is: the stage of its work and, within the
\* publication of one file, its place.
Stage ==
    [idle |-> 0, down |-> 0, clear |-> 1, sweep |-> 2, mirror |-> 3, mode |-> 4, db |-> 5,
     settings |-> 6, dropClear |-> 7, drop |-> 8, publish |-> 9, reintend |-> 9,
     mark |-> 9, rename |-> 9, roll |-> 9, intend |-> 10, plan |-> 11, classify |-> 12]
Place ==
    CASE pc = "reintend" -> IF \E f \in Lowest(todo) : IsNoop(mem.files[f]) THEN 0 ELSE 4
      [] pc = "publish"  -> 3
      [] pc = "mark"     -> 2
      [] OTHER           -> 1

\* The holder gets on: a recovery comes to its end, or a stage does, or a file is done
\* with, or one more of its replans is used up, or the file has come a place further.
GetsOn ==
    \/ recovering /\ ~ recovering'
    \/ /\ recovering' = recovering
       /\ \/ Stage[pc'] < Stage[pc]
          \/ /\ Stage[pc'] = Stage[pc]
             /\ \/ todo' # todo /\ todo' \subseteq todo
                \/ /\ todo' = todo
                   /\ \/ replans < replans' /\ replans' <= MaxReplans
                      \/ replans' = replans /\ Place' < Place

\* Whoever holds the write lock gets on with every step of its own, and the client
\* cannot send it back: of its writes the holder only sees the number of replans, and
\* that is bounded (operation.rs: MAX_REPLANS).
HolderGetsOn ==
    [][pc \notin {"idle", "down"} =>
          (\E f \in Files : ClientWrites(f)) \/ pc' \in {"idle", "down"} \/ GetsOn]_vars

\* The operation keeps the promise of a write-ahead intent.
KeepsPromise == Promise!Spec

\* Every intent is eventually completed or dropped, however often the client
\* writes in the meantime.
IntentSettles == pending # None ~> pending = None

\* The holder of the write lock always returns: a client that keeps writing
\* cannot keep the publication loop replanning for ever.
LockReleased == pc # "idle" ~> pc = "idle"
=============================================================================
