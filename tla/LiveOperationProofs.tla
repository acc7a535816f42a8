------------------------ MODULE LiveOperationProofs ------------------------
(***************************************************************************)
(* Proofs about the multi-file operation, for any number of files, any     *)
(* targets, any bounds and any set of failing steps.                       *)
(***************************************************************************)
EXTENDS LiveOperation, TLAPS

\* Where the steps of the publication loop and of the settlement are.
LoopSteps == {"publish", "reintend", "mark", "rename"}
CommitSteps == {"settings", "db", "mode", "mirror", "sweep", "clear"}

\* While the holder of the lock plans, no intent is on record.
PlanInv ==
    /\ pc \in {"plan", "intend"} => pending = None
    /\ pc = "plan" => job # None
    /\ pc = "intend" => ~ mem.published
    /\ pc \notin {"idle", "down", "plan"} => mem # None

\* In the publication loop the intent in memory agrees with the one on disk,
\* and published_any records whether a file was swapped.
LoopInv ==
    /\ pc \in LoopSteps =>
         /\ pending # None
         /\ pending.target = mem.target
         /\ pending.published = mem.published
         /\ DOMAIN pending.files = DOMAIN mem.files
         /\ todo \subseteq DOMAIN mem.files
         /\ ~ any => wrote = {}
    /\ pc = "rename" => mem.published
    /\ pc = "mark" => ~ mem.published

\* What is withdrawn has swapped no file.
DropInv == pc \in {"drop", "dropClear"} => wrote = {}

\* A recovery works from the intent it read.
RecoverInv ==
    /\ pc \in {"classify", "roll"} => mem = pending
    /\ pc = "roll" => todo \subseteq DOMAIN mem.files

\* The settlement is as far as its step says.
CommitInv ==
    pc \in CommitSteps =>
        LET t == mem.target IN
        /\ pending # None => pending.target = t
        /\ pc # "settings" /\ t.pointer # None => store.settings = t.pointer
        /\ pc \notin {"settings", "db"} /\ t.pointer # None => store.db = t.pointer
        /\ pc \in {"mirror", "sweep", "clear"} /\ t.mode # None => store.mode = t.mode
        /\ pc \in {"sweep", "clear"} /\ t.mode # None =>
               store.mirror = (t.mode = "proxy")

\* The inductive invariant.
Inv == TypeOK /\ MarkBeforeSwap /\ PlanInv /\ LoopInv /\ DropInv /\ RecoverInv /\ CommitInv
-----------------------------------------------------------------------------
(* The pure part.                                                          *)

\* A patch of a content is a content.
LEMMA PatchType ==
    ASSUME NEW f \in Files, NEW t \in Targets, NEW c \in Content
    PROVE  Patch(f, t, c) \in Content
<1>1. t \in Target
  BY TargetAssumption
<1>2. DefaultUser \in UserParts
  BY UserAssumption DEF DefaultUser
<1>3. c \notin {Absent, Corrupt} => c.user \in UserParts
  BY DEF Content
<1> QED
  BY <1>1, <1>2, <1>3 DEF Patch, Content, Target

\* The plan of a file is what an intent records of a file.
LEMMA PlanType ==
    ASSUME NEW f \in Files, NEW t \in Targets, NEW c \in Content, NEW n \in Slots
    PROVE  PlanFrom(f, t, c, n) \in PendingFile
BY PatchType DEF PlanFrom, PendingFile, SlotOf

\* An intent over any set of files is an intent.
LEMMA IntentType ==
    ASSUME TypeOK, NEW t \in Targets, NEW S \in SUBSET Files
    PROVE  Intent(t, S) \in Pending /\ ~ Intent(t, S).published
<1>1. 0 \in Slots
  BY SizeAssumption DEF Slots
<1>2. \A f \in S : PlanFrom(f, t, file[f], 0) \in PendingFile
  BY <1>1, PlanType DEF TypeOK, DiskOK
<1>3. [f \in S |-> PlanFrom(f, t, file[f], 0)] \in [S -> PendingFile]
  BY <1>2
<1> QED
  BY <1>3 DEF Intent, Pending

\* The files of an intent are files, with a plan each.
LEMMA IntentFiles ==
    ASSUME NEW m \in Pending
    PROVE  /\ m.target \in Targets
           /\ m.published \in BOOLEAN
           /\ DOMAIN m.files \in SUBSET Files
           /\ m.files \in [DOMAIN m.files -> PendingFile]
           /\ \A f \in DOMAIN m.files : m.files[f] \in PendingFile
<1>1. PICK S \in SUBSET Files : m.files \in [S -> PendingFile]
  BY DEF Pending
<1> QED
  BY <1>1 DEF Pending

\* Replacing the plan of one file of an intent changes nothing else of it.
LEMMA ReplanType ==
    ASSUME NEW m \in Pending, NEW f \in DOMAIN m.files, NEW p \in PendingFile
    PROVE  /\ [m EXCEPT !.files[f] = p] \in Pending
           /\ [m EXCEPT !.files[f] = p].target = m.target
           /\ [m EXCEPT !.files[f] = p].published = m.published
           /\ DOMAIN [m EXCEPT !.files[f] = p].files = DOMAIN m.files
<1>1. PICK S \in SUBSET Files : m.files \in [S -> PendingFile]
  BY DEF Pending
<1>2. [m.files EXCEPT ![f] = p] \in [S -> PendingFile]
  BY <1>1
<1>3. [m EXCEPT !.files[f] = p] = [m EXCEPT !.files = [m.files EXCEPT ![f] = p]]
  BY DEF Pending
<1> QED
  BY <1>1, <1>2, <1>3 DEF Pending

\* Marking an intent changes nothing else of it.
LEMMA MarkType ==
    ASSUME NEW m \in Pending
    PROVE  /\ [m EXCEPT !.published = TRUE] \in Pending
           /\ [m EXCEPT !.published = TRUE].target = m.target
           /\ [m EXCEPT !.published = TRUE].published = TRUE
           /\ [m EXCEPT !.published = TRUE].files = m.files
BY DEF Pending

\* Consuming or discarding temporary files keeps the type of the slots.
LEMMA SlotsType ==
    ASSUME TypeOK
    PROVE  /\ \A f \in Files, n \in Slots \cup {None} :
                 WithoutSlot(f, n) \in [Files -> [Slots -> Content \cup {None}]]
           /\ \A m \in Pending : Discarded(m) \in [Files -> [Slots -> Content \cup {None}]]
BY DEF TypeOK, DiskOK, WithoutSlot, Discarded
-----------------------------------------------------------------------------
(* The invariant is inductive.                                             *)

\* The inductive invariant holds in the initial states.
LEMMA InitInv == Init => Inv
<1> SUFFICES ASSUME Init PROVE Inv
  OBVIOUS
<1>1. PICK o \in Owners :
         /\ file = [f \in Files |-> [own |-> o, user |-> DefaultUser]]
         /\ store = [settings |-> o, db |-> o, mode |-> "direct", mirror |-> FALSE]
  BY DEF Init
<1>2. DefaultUser \in UserParts
  BY UserAssumption DEF DefaultUser
<1>3. TypeOK
  BY <1>1, <1>2 DEF Init, TypeOK, DiskOK, MemoryOK, HistoryOK, CountsOK, Content, Steps
<1>4. MarkBeforeSwap /\ PlanInv /\ LoopInv /\ DropInv /\ RecoverInv /\ CommitInv
  BY DEF Init, MarkBeforeSwap, PlanInv, LoopInv, DropInv, RecoverInv, CommitInv,
         LoopSteps, CommitSteps
<1> QED
  BY <1>3, <1>4 DEF Inv

\* A return, as a crash, leaves nothing in memory and hence satisfies every
\* part of the invariant that speaks of memory.
LEMMA ReturnInv ==
    ASSUME Inv, Return,
           pending' \in Pending \cup {None},
           wrote' # {} => pending' # None /\ pending'.published
    PROVE  /\ pc' \in Steps /\ job' \in Targets \cup {None} /\ recovering' \in BOOLEAN
           /\ mem' \in Pending \cup {None} /\ todo' \in SUBSET Files
           /\ replans' \in Nat /\ any' \in BOOLEAN
           /\ MarkBeforeSwap' /\ PlanInv' /\ LoopInv' /\ DropInv' /\ RecoverInv' /\ CommitInv'
BY DEF Inv, Return, Steps, MarkBeforeSwap, PlanInv, LoopInv, DropInv, RecoverInv,
       CommitInv, LoopSteps, CommitSteps

\* Taking the write lock starts a plan or a recovery.
LEMMA BeginInv ==
    ASSUME Inv, NEW t \in Targets, Begin(t)
    PROVE  Inv'
<1>1. DiskOK'
  BY DEF Inv, TypeOK, DiskOK, MemoryOK,
     Begin, Recover, Goto, disk, history, budget
<1>2. MemoryOK'
  BY DEF Inv, TypeOK, DiskOK, MemoryOK, Steps,
     Begin, Recover, Goto, disk, history, budget
<1>3. HistoryOK'
  BY DEF Inv, TypeOK, HistoryOK,
     Begin, Recover, Goto, disk, history, budget
<1>4. CountsOK'
  BY DEF Inv, TypeOK, CountsOK,
     Begin, Recover, Goto, disk, history, budget
<1>5. (MarkBeforeSwap /\ PlanInv /\ LoopInv /\ DropInv /\ RecoverInv /\ CommitInv)'
  BY NoneAssumption DEF Inv, MarkBeforeSwap, PlanInv, LoopInv, DropInv, RecoverInv, CommitInv,
         LoopSteps, CommitSteps, TypeOK, DiskOK, MemoryOK, HistoryOK,
     Begin, Recover, Goto, disk, history, budget
<1> QED
  BY <1>1, <1>2, <1>3, <1>4, <1>5 DEF Inv, TypeOK

\* Settling starts a recovery.
LEMMA SettleInv ==
    ASSUME Inv, Settle
    PROVE  Inv'
<1>1. DiskOK'
  BY DEF Inv, TypeOK, DiskOK, MemoryOK,
     Settle, Recover, Goto, disk, history, budget
<1>2. MemoryOK'
  BY DEF Inv, TypeOK, DiskOK, MemoryOK, Steps,
     Settle, Recover, Goto, disk, history, budget
<1>3. HistoryOK'
  BY DEF Inv, TypeOK, HistoryOK,
     Settle, Recover, Goto, disk, history, budget
<1>4. CountsOK'
  BY DEF Inv, TypeOK, CountsOK,
     Settle, Recover, Goto, disk, history, budget
<1>5. (MarkBeforeSwap /\ PlanInv /\ LoopInv /\ DropInv /\ RecoverInv /\ CommitInv)'
  BY NoneAssumption DEF Inv, MarkBeforeSwap, PlanInv, LoopInv, DropInv, RecoverInv, CommitInv,
         LoopSteps, CommitSteps, TypeOK, DiskOK, MemoryOK, HistoryOK,
     Settle, Recover, Goto, disk, history, budget
<1> QED
  BY <1>1, <1>2, <1>3, <1>4, <1>5 DEF Inv, TypeOK

\* A start recovers.
LEMMA RestartInv ==
    ASSUME Inv, Restart
    PROVE  Inv'
<1>1. DiskOK'
  BY DEF Inv, TypeOK, DiskOK, MemoryOK,
     Restart, Recover, Goto, disk, history, budget, memory
<1>2. MemoryOK'
  BY DEF Inv, TypeOK, DiskOK, MemoryOK, Steps,
     Restart, Recover, Goto, disk, history, budget, memory
<1>3. HistoryOK'
  BY DEF Inv, TypeOK, HistoryOK,
     Restart, Recover, Goto, disk, history, budget, memory
<1>4. CountsOK'
  BY DEF Inv, TypeOK, CountsOK,
     Restart, Recover, Goto, disk, history, budget, memory
<1>5. (MarkBeforeSwap /\ PlanInv /\ LoopInv /\ DropInv /\ RecoverInv /\ CommitInv)'
  BY NoneAssumption DEF Inv, MarkBeforeSwap, PlanInv, LoopInv, DropInv, RecoverInv, CommitInv,
         LoopSteps, CommitSteps, TypeOK, DiskOK, MemoryOK, HistoryOK,
     Restart, Recover, Goto, disk, history, budget, memory
<1> QED
  BY <1>1, <1>2, <1>3, <1>4, <1>5 DEF Inv, TypeOK

\* A crash forgets what was in memory.
LEMMA CrashInv ==
    ASSUME Inv, Crash
    PROVE  Inv'
<1>1. DiskOK'
  BY DEF Inv, TypeOK, DiskOK, MemoryOK,
     Crash, Goto, disk, history
<1>2. MemoryOK'
  BY DEF Inv, TypeOK, DiskOK, MemoryOK, Steps,
     Crash, Goto, disk, history
<1>3. HistoryOK'
  BY DEF Inv, TypeOK, HistoryOK,
     Crash, Goto, disk, history
<1>4. CountsOK'
  BY DEF Inv, TypeOK, CountsOK,
     Crash, Goto, disk, history
<1>5. (MarkBeforeSwap /\ PlanInv /\ LoopInv /\ DropInv /\ RecoverInv /\ CommitInv)'
  BY NoneAssumption DEF Inv, MarkBeforeSwap, PlanInv, LoopInv, DropInv, RecoverInv, CommitInv,
         LoopSteps, CommitSteps, TypeOK, DiskOK, MemoryOK, HistoryOK,
     Crash, Goto, disk, history
<1> QED
  BY <1>1, <1>2, <1>3, <1>4, <1>5 DEF Inv, TypeOK

\* A refused plan returns.
LEMMA PlanRefusedInv ==
    ASSUME Inv, PlanRefused
    PROVE  Inv'
<1>1. DiskOK'
  BY DEF Inv, TypeOK, DiskOK, MemoryOK,
     PlanRefused, Return, disk, history, budget
<1>2. MemoryOK'
  BY DEF Inv, TypeOK, DiskOK, MemoryOK, Steps,
     PlanRefused, Return, disk, history, budget
<1>3. HistoryOK'
  BY DEF Inv, TypeOK, HistoryOK,
     PlanRefused, Return, disk, history, budget
<1>4. CountsOK'
  BY DEF Inv, TypeOK, CountsOK,
     PlanRefused, Return, disk, history, budget
<1>5. (MarkBeforeSwap /\ PlanInv /\ LoopInv /\ DropInv /\ RecoverInv /\ CommitInv)'
  BY NoneAssumption DEF Inv, MarkBeforeSwap, PlanInv, LoopInv, DropInv, RecoverInv, CommitInv,
         LoopSteps, CommitSteps, TypeOK, DiskOK, MemoryOK, HistoryOK,
     PlanRefused, Return, disk, history, budget
<1> QED
  BY <1>1, <1>2, <1>3, <1>4, <1>5 DEF Inv, TypeOK

\* A plan without changes goes on to the settlement.
LEMMA PlanNothingInv ==
    ASSUME Inv, PlanNothing
    PROVE  Inv'
<1>1. DiskOK'
  BY IntentType DEF Inv, PlanInv, TypeOK, DiskOK, MemoryOK,
     PlanNothing, Goto, disk, budget
<1>2. MemoryOK'
  BY IntentType DEF Inv, PlanInv, TypeOK, DiskOK, MemoryOK, Steps,
     PlanNothing, Goto, disk, budget
<1>3. HistoryOK'
  BY DEF Inv, TypeOK, HistoryOK,
     PlanNothing, Goto, disk, budget
<1>4. CountsOK'
  BY DEF Inv, TypeOK, CountsOK,
     PlanNothing, Goto, disk, budget
<1>5. (MarkBeforeSwap /\ PlanInv /\ LoopInv /\ DropInv /\ RecoverInv /\ CommitInv)'
  BY IntentType, NoneAssumption DEF Inv, MarkBeforeSwap, PlanInv, LoopInv, DropInv, RecoverInv, CommitInv,
         LoopSteps, CommitSteps, TypeOK, DiskOK, MemoryOK, HistoryOK,
     PlanNothing, Goto, disk, budget
<1> QED
  BY <1>1, <1>2, <1>3, <1>4, <1>5 DEF Inv, TypeOK

\* After the last swap the settlement begins.
LEMMA AllPublishedInv ==
    ASSUME Inv, AllPublished
    PROVE  Inv'
<1>1. DiskOK'
  BY DEF Inv, TypeOK, DiskOK, MemoryOK,
     AllPublished, Goto, disk, history, budget, memory
<1>2. MemoryOK'
  BY DEF Inv, TypeOK, DiskOK, MemoryOK, Steps,
     AllPublished, Goto, disk, history, budget, memory
<1>3. HistoryOK'
  BY DEF Inv, TypeOK, HistoryOK,
     AllPublished, Goto, disk, history, budget, memory
<1>4. CountsOK'
  BY DEF Inv, TypeOK, CountsOK,
     AllPublished, Goto, disk, history, budget, memory
<1>5. (MarkBeforeSwap /\ PlanInv /\ LoopInv /\ DropInv /\ RecoverInv /\ CommitInv)'
  BY NoneAssumption DEF Inv, MarkBeforeSwap, PlanInv, LoopInv, DropInv, RecoverInv, CommitInv,
         LoopSteps, CommitSteps, TypeOK, DiskOK, MemoryOK, HistoryOK,
     AllPublished, Goto, disk, history, budget, memory
<1> QED
  BY <1>1, <1>2, <1>3, <1>4, <1>5 DEF Inv, TypeOK

\* After the last file of a recovery the settlement begins.
LEMMA RolledForwardInv ==
    ASSUME Inv, RolledForward
    PROVE  Inv'
<1>1. DiskOK'
  BY DEF Inv, TypeOK, DiskOK, MemoryOK,
     RolledForward, Goto, disk, history, budget, memory
<1>2. MemoryOK'
  BY DEF Inv, TypeOK, DiskOK, MemoryOK, Steps,
     RolledForward, Goto, disk, history, budget, memory
<1>3. HistoryOK'
  BY DEF Inv, TypeOK, HistoryOK,
     RolledForward, Goto, disk, history, budget, memory
<1>4. CountsOK'
  BY DEF Inv, TypeOK, CountsOK,
     RolledForward, Goto, disk, history, budget, memory
<1>5. (MarkBeforeSwap /\ PlanInv /\ LoopInv /\ DropInv /\ RecoverInv /\ CommitInv)'
  BY NoneAssumption DEF Inv, MarkBeforeSwap, PlanInv, LoopInv, DropInv, RecoverInv, CommitInv,
         LoopSteps, CommitSteps, TypeOK, DiskOK, MemoryOK, HistoryOK,
     RolledForward, Goto, disk, history, budget, memory
<1> QED
  BY <1>1, <1>2, <1>3, <1>4, <1>5 DEF Inv, TypeOK

\* Dropping temporary files.
LEMMA DropFilesInv ==
    ASSUME Inv, DropFiles
    PROVE  Inv'
<1>1. DiskOK'
  BY SlotsType DEF Inv, PlanInv, TypeOK, DiskOK, MemoryOK,
     DropFiles, Goto, history, budget, memory
<1>2. MemoryOK'
  BY SlotsType DEF Inv, PlanInv, TypeOK, DiskOK, MemoryOK, Steps,
     DropFiles, Goto, history, budget, memory
<1>3. HistoryOK'
  BY DEF Inv, TypeOK, HistoryOK,
     DropFiles, Goto, history, budget, memory
<1>4. CountsOK'
  BY DEF Inv, TypeOK, CountsOK,
     DropFiles, Goto, history, budget, memory
<1>5. (MarkBeforeSwap /\ PlanInv /\ LoopInv /\ DropInv /\ RecoverInv /\ CommitInv)'
  BY NoneAssumption DEF Inv, MarkBeforeSwap, PlanInv, LoopInv, DropInv, RecoverInv, CommitInv,
         LoopSteps, CommitSteps, TypeOK, DiskOK, MemoryOK, HistoryOK,
     DropFiles, Goto, history, budget, memory
<1> QED
  BY <1>1, <1>2, <1>3, <1>4, <1>5 DEF Inv, TypeOK

\* Sweeping temporary files.
LEMMA SweepInv ==
    ASSUME Inv, Sweep
    PROVE  Inv'
<1>1. DiskOK'
  BY SlotsType DEF Inv, PlanInv, TypeOK, DiskOK, MemoryOK,
     Sweep, Goto, history, budget, memory
<1>2. MemoryOK'
  BY SlotsType DEF Inv, PlanInv, TypeOK, DiskOK, MemoryOK, Steps,
     Sweep, Goto, history, budget, memory
<1>3. HistoryOK'
  BY DEF Inv, TypeOK, HistoryOK,
     Sweep, Goto, history, budget, memory
<1>4. CountsOK'
  BY DEF Inv, TypeOK, CountsOK,
     Sweep, Goto, history, budget, memory
<1>5. (MarkBeforeSwap /\ PlanInv /\ LoopInv /\ DropInv /\ RecoverInv /\ CommitInv)'
  BY NoneAssumption DEF Inv, MarkBeforeSwap, PlanInv, LoopInv, DropInv, RecoverInv, CommitInv,
         LoopSteps, CommitSteps, TypeOK, DiskOK, MemoryOK, HistoryOK,
     Sweep, Goto, history, budget, memory
<1> QED
  BY <1>1, <1>2, <1>3, <1>4, <1>5 DEF Inv, TypeOK

\* The classification of a recovery.
LEMMA ClassifyInv ==
    ASSUME Inv, Classify
    PROVE  Inv'
<1>1. DiskOK'
  BY IntentFiles DEF Inv, RecoverInv, PlanInv, TypeOK, DiskOK, MemoryOK,
     Classify, Started, Unswapped, Goto, disk, budget
<1>2. MemoryOK'
  BY IntentFiles DEF Inv, RecoverInv, PlanInv, TypeOK, DiskOK, MemoryOK, Steps,
     Classify, Started, Unswapped, Goto, disk, budget
<1>3. HistoryOK'
  BY DEF Inv, TypeOK, HistoryOK,
     Classify, Started, Unswapped, Goto, disk, budget
<1>4. CountsOK'
  BY DEF Inv, TypeOK, CountsOK,
     Classify, Started, Unswapped, Goto, disk, budget
<1>5. (MarkBeforeSwap /\ PlanInv /\ LoopInv /\ DropInv /\ RecoverInv /\ CommitInv)'
  BY IntentFiles DEF Inv, MarkBeforeSwap, PlanInv, LoopInv, DropInv, RecoverInv, CommitInv,
         LoopSteps, CommitSteps, TypeOK, DiskOK, MemoryOK, HistoryOK,
     Classify, Started, Unswapped, Goto, disk, budget
<1> QED
  BY <1>1, <1>2, <1>3, <1>4, <1>5 DEF Inv, TypeOK

\* The client changes one file.
LEMMA ClientWritesInv ==
    ASSUME Inv, NEW f \in Files, ClientWrites(f)
    PROVE  Inv'
<1>1. DiskOK'
  BY DEF Inv, TypeOK, DiskOK, MemoryOK,
     ClientWrites, ClientContents, Content, memory, budget
<1>2. MemoryOK'
  BY DEF Inv, TypeOK, DiskOK, MemoryOK, Steps,
     ClientWrites, ClientContents, Content, memory, budget
<1>3. HistoryOK'
  BY DEF Inv, TypeOK, HistoryOK,
     ClientWrites, ClientContents, Content, memory, budget
<1>4. CountsOK'
  BY DEF Inv, TypeOK, CountsOK,
     ClientWrites, ClientContents, Content, memory, budget
<1>5. (MarkBeforeSwap /\ PlanInv /\ LoopInv /\ DropInv /\ RecoverInv /\ CommitInv)'
  BY DEF Inv, MarkBeforeSwap, PlanInv, LoopInv, DropInv, RecoverInv, CommitInv,
         LoopSteps, CommitSteps, TypeOK, DiskOK, MemoryOK, HistoryOK,
     ClientWrites, ClientContents, Content, memory, budget
<1> QED
  BY <1>1, <1>2, <1>3, <1>4, <1>5 DEF Inv, TypeOK

\* A plan stages the new contents.
LEMMA PlanAndStageInv ==
    ASSUME Inv, PlanAndStage
    PROVE  Inv'
<1>1. DiskOK'
  <2>1. job \in Targets /\ job # None
    BY DEF Inv, PlanInv, TypeOK, MemoryOK, PlanAndStage
  <2>2. \A f \in Files : Patch(f, job, file[f]) \in Content
    BY <2>1, PatchType DEF Inv, TypeOK, DiskOK
  <2>3. 0 \in Slots
    BY SizeAssumption DEF Slots
  <2>4. \/ tmp' = tmp
        \/ tmp' = [f \in Files |-> IF f \in Changed(job) \ job.deletes
                                  THEN [tmp[f] EXCEPT ![0] = Patch(f, job, file[f])]
                                  ELSE tmp[f]]
    BY DEF PlanAndStage
  <2>5. tmp' \in [Files -> [Slots -> Content \cup {None}]]
    BY <2>2, <2>3, <2>4 DEF Inv, TypeOK, DiskOK
  <2> QED
    BY <2>5 DEF Inv, TypeOK, DiskOK, PlanAndStage
<1>2. MemoryOK'
  <2>1. job \in Targets /\ job # None
    BY DEF Inv, PlanInv, TypeOK, MemoryOK, PlanAndStage
  <2>2. Changed(job) \in SUBSET Files
    BY DEF Changed
  <2>3. Intent(job, Changed(job)) \in Pending
    BY <2>1, <2>2, IntentType DEF Inv
  <2> QED
    BY <2>1, <2>3 DEF Inv, TypeOK, MemoryOK, Steps, PlanAndStage, Return, Goto
<1>3. HistoryOK'
  BY DEF Inv, TypeOK, HistoryOK,
     PlanAndStage, Changed, Fails, Return, Goto
<1>4. CountsOK'
  BY DEF Inv, TypeOK, CountsOK,
     PlanAndStage, Changed, Fails, Return, Goto
<1>5. (MarkBeforeSwap /\ PlanInv /\ LoopInv /\ DropInv /\ RecoverInv /\ CommitInv)'
  BY IntentType, NoneAssumption DEF Inv, MarkBeforeSwap, PlanInv, LoopInv, DropInv, RecoverInv, CommitInv,
         LoopSteps, CommitSteps, TypeOK, DiskOK, MemoryOK, HistoryOK,
     PlanAndStage, Changed, Fails, Return, Goto
<1> QED
  BY <1>1, <1>2, <1>3, <1>4, <1>5 DEF Inv, TypeOK

\* The intent is recorded.
LEMMA RecordIntentInv ==
    ASSUME Inv, RecordIntent
    PROVE  Inv'
<1>1. DiskOK'
  BY IntentFiles, SlotsType DEF Inv, PlanInv, TypeOK, DiskOK, MemoryOK,
     RecordIntent, Fails, Return, Goto, history
<1>2. MemoryOK'
  BY IntentFiles, SlotsType DEF Inv, PlanInv, TypeOK, DiskOK, MemoryOK, Steps,
     RecordIntent, Fails, Return, Goto, history
<1>3. HistoryOK'
  BY DEF Inv, TypeOK, HistoryOK,
     RecordIntent, Fails, Return, Goto, history
<1>4. CountsOK'
  BY DEF Inv, TypeOK, CountsOK,
     RecordIntent, Fails, Return, Goto, history
<1>5. (MarkBeforeSwap /\ PlanInv /\ LoopInv /\ DropInv /\ RecoverInv /\ CommitInv)'
  BY IntentFiles, NoneAssumption DEF Inv, MarkBeforeSwap, PlanInv, LoopInv, DropInv, RecoverInv, CommitInv,
         LoopSteps, CommitSteps, TypeOK, DiskOK, MemoryOK, HistoryOK,
     RecordIntent, Fails, Return, Goto, history
<1> QED
  BY <1>1, <1>2, <1>3, <1>4, <1>5 DEF Inv, TypeOK

\* A file is found unchanged and backed up.
LEMMA CheckUnchangedInv ==
    ASSUME Inv, CheckUnchanged
    PROVE  Inv'
<1>1. DiskOK'
  BY DEF Inv, TypeOK, DiskOK, MemoryOK,
     CheckUnchanged, AfterCheck, BackUp, Lowest, Fails, Return, Goto, memory
<1>2. MemoryOK'
  BY DEF Inv, TypeOK, DiskOK, MemoryOK, Steps,
     CheckUnchanged, AfterCheck, BackUp, Lowest, Fails, Return, Goto, memory
<1>3. HistoryOK'
  BY DEF Inv, TypeOK, HistoryOK,
     CheckUnchanged, AfterCheck, BackUp, Lowest, Fails, Return, Goto, memory
<1>4. CountsOK'
  BY DEF Inv, TypeOK, CountsOK,
     CheckUnchanged, AfterCheck, BackUp, Lowest, Fails, Return, Goto, memory
<1>5. (MarkBeforeSwap /\ PlanInv /\ LoopInv /\ DropInv /\ RecoverInv /\ CommitInv)'
  BY NoneAssumption DEF Inv, MarkBeforeSwap, PlanInv, LoopInv, DropInv, RecoverInv, CommitInv,
         LoopSteps, CommitSteps, TypeOK, DiskOK, MemoryOK, HistoryOK,
     CheckUnchanged, AfterCheck, BackUp, Lowest, Fails, Return, Goto, memory
<1> QED
  BY <1>1, <1>2, <1>3, <1>4, <1>5 DEF Inv, TypeOK

\* The mark is recorded.
LEMMA MarkPublishedInv ==
    ASSUME Inv, MarkPublished
    PROVE  Inv'
<1>1. DiskOK'
  BY MarkType DEF Inv, PlanInv, LoopInv, LoopSteps, TypeOK, DiskOK, MemoryOK,
     MarkPublished, Fails, Goto, disk, history
<1>2. MemoryOK'
  BY MarkType DEF Inv, PlanInv, LoopInv, LoopSteps, TypeOK, DiskOK, MemoryOK, Steps,
     MarkPublished, Fails, Goto, disk, history
<1>3. HistoryOK'
  BY DEF Inv, TypeOK, HistoryOK,
     MarkPublished, Fails, Goto, disk, history
<1>4. CountsOK'
  BY DEF Inv, TypeOK, CountsOK,
     MarkPublished, Fails, Goto, disk, history
<1>5. pc = "mark" /\ mem \in Pending /\ pending # None /\ wrote = {}
  BY DEF Inv, MarkBeforeSwap, PlanInv, LoopInv, LoopSteps, TypeOK, MemoryOK, MarkPublished
<1>6. /\ mem' \in Pending /\ mem' # None
      /\ mem'.target = mem.target /\ mem'.published /\ mem'.files = mem.files
  BY <1>5, MarkType, NoneAssumption DEF MarkPublished
<1>7. \/ pending' = mem' /\ pc' = "rename"
      \/ pending' = pending /\ pc' = "drop"
  BY DEF MarkPublished, Fails, Goto
<1>8. UNCHANGED <<wrote, todo, any>>
  BY DEF MarkPublished, history
<1>9. (MarkBeforeSwap /\ PlanInv /\ LoopInv /\ DropInv /\ RecoverInv /\ CommitInv)'
  BY <1>5, <1>6, <1>7, <1>8
     DEF Inv, MarkBeforeSwap, PlanInv, LoopInv, DropInv, RecoverInv, CommitInv,
         LoopSteps, CommitSteps
<1> QED
  BY <1>1, <1>2, <1>3, <1>4, <1>9 DEF Inv, TypeOK

\* A file is swapped.
LEMMA PublishFileInv ==
    ASSUME Inv, PublishFile
    PROVE  Inv'
<1>1. DiskOK'
  <2>1. PICK f \in todo :
          /\ \/ UNCHANGED <<file, tmp>>
             \/ /\ file' = [file EXCEPT ![f] = mem.files[f].planned]
                /\ tmp' = WithoutSlot(f, mem.files[f].staged)
          /\ backed' \in {backed, backed \cup {f}}
    BY DEF PublishFile, Lowest, BackUp
  <2>2. f \in Files /\ mem \in Pending /\ f \in DOMAIN mem.files
    BY DEF Inv, TypeOK, MemoryOK, PlanInv, LoopInv, LoopSteps, PublishFile
  <2>3. mem.files[f].planned \in Content /\ mem.files[f].staged \in Slots \cup {None}
    BY <2>2, IntentFiles DEF PendingFile
  <2>4. WithoutSlot(f, mem.files[f].staged) \in [Files -> [Slots -> Content \cup {None}]]
    BY <2>2, <2>3, SlotsType DEF Inv
  <2>5. file' \in [Files -> Content] /\ tmp' \in [Files -> [Slots -> Content \cup {None}]]
    BY <2>1, <2>2, <2>3, <2>4 DEF Inv, TypeOK, DiskOK
  <2>6. backed' \in SUBSET Files /\ UNCHANGED <<pending, store>>
    BY <2>1, <2>2 DEF Inv, TypeOK, DiskOK, PublishFile
  <2> QED
    BY <2>5, <2>6 DEF Inv, TypeOK, DiskOK
<1>2. MemoryOK'
  BY IntentFiles, SlotsType DEF Inv, PlanInv, LoopInv, LoopSteps, TypeOK, DiskOK, MemoryOK, Steps,
     PublishFile, GiveUp, Lowest, Fails, Return, Goto, PendingFile
<1>3. HistoryOK'
  BY DEF Inv, TypeOK, HistoryOK, MemoryOK,
     PublishFile, GiveUp, Lowest, Fails, Return, Goto, PendingFile
<1>4. CountsOK'
  BY DEF Inv, TypeOK, CountsOK,
     PublishFile, GiveUp, Lowest, Fails, Return, Goto, PendingFile
<1>5. (MarkBeforeSwap /\ PlanInv /\ LoopInv /\ DropInv /\ RecoverInv /\ CommitInv)'
  BY IntentFiles DEF Inv, MarkBeforeSwap, PlanInv, LoopInv, DropInv, RecoverInv, CommitInv,
         LoopSteps, CommitSteps, TypeOK, DiskOK, MemoryOK, HistoryOK,
     PublishFile, GiveUp, Lowest, Fails, Return, Goto, PendingFile
<1> QED
  BY <1>1, <1>2, <1>3, <1>4, <1>5 DEF Inv, TypeOK

\* A conflict ends the operation.
LEMMA GiveUpOnConflictInv ==
    ASSUME Inv, GiveUpOnConflict
    PROVE  Inv'
<1>1. DiskOK'
  BY DEF Inv, TypeOK, DiskOK, MemoryOK,
     GiveUpOnConflict, GiveUp, Lowest, Return, Goto, disk, history, budget
<1>2. MemoryOK'
  BY DEF Inv, TypeOK, DiskOK, MemoryOK, Steps,
     GiveUpOnConflict, GiveUp, Lowest, Return, Goto, disk, history, budget
<1>3. HistoryOK'
  BY DEF Inv, TypeOK, HistoryOK,
     GiveUpOnConflict, GiveUp, Lowest, Return, Goto, disk, history, budget
<1>4. CountsOK'
  BY DEF Inv, TypeOK, CountsOK,
     GiveUpOnConflict, GiveUp, Lowest, Return, Goto, disk, history, budget
<1>5. (MarkBeforeSwap /\ PlanInv /\ LoopInv /\ DropInv /\ RecoverInv /\ CommitInv)'
  BY NoneAssumption DEF Inv, MarkBeforeSwap, PlanInv, LoopInv, DropInv, RecoverInv, CommitInv,
         LoopSteps, CommitSteps, TypeOK, DiskOK, MemoryOK, HistoryOK,
     GiveUpOnConflict, GiveUp, Lowest, Return, Goto, disk, history, budget
<1> QED
  BY <1>1, <1>2, <1>3, <1>4, <1>5 DEF Inv, TypeOK

\* A new plan is recorded.
LEMMA RecordReplanInv ==
    ASSUME Inv, RecordReplan
    PROVE  Inv'
<1>1. DiskOK'
  BY IntentFiles, SlotsType DEF Inv, PlanInv, LoopInv, LoopSteps, TypeOK, DiskOK, MemoryOK,
     RecordReplan, Lowest, Fails, Return, Goto, history, PendingFile
<1>2. MemoryOK'
  BY IntentFiles, SlotsType DEF Inv, PlanInv, LoopInv, LoopSteps, TypeOK, DiskOK, MemoryOK, Steps,
     RecordReplan, Lowest, Fails, Return, Goto, history, PendingFile
<1>3. HistoryOK'
  BY DEF Inv, TypeOK, HistoryOK,
     RecordReplan, Lowest, Fails, Return, Goto, history, PendingFile
<1>4. CountsOK'
  BY DEF Inv, TypeOK, CountsOK,
     RecordReplan, Lowest, Fails, Return, Goto, history, PendingFile
<1>5. (MarkBeforeSwap /\ PlanInv /\ LoopInv /\ DropInv /\ RecoverInv /\ CommitInv)'
  BY IntentFiles, NoneAssumption DEF Inv, MarkBeforeSwap, PlanInv, LoopInv, DropInv, RecoverInv, CommitInv,
         LoopSteps, CommitSteps, TypeOK, DiskOK, MemoryOK, HistoryOK,
     RecordReplan, Lowest, Fails, Return, Goto, history, PendingFile
<1> QED
  BY <1>1, <1>2, <1>3, <1>4, <1>5 DEF Inv, TypeOK

\* The intent is withdrawn.
LEMMA DropIntentInv ==
    ASSUME Inv, DropIntent
    PROVE  Inv'
<1>1. DiskOK'
  BY DEF Inv, TypeOK, DiskOK, MemoryOK,
     DropIntent, Fails, Return, Goto, disk
<1>2. MemoryOK'
  BY DEF Inv, TypeOK, DiskOK, MemoryOK, Steps,
     DropIntent, Fails, Return, Goto, disk
<1>3. HistoryOK'
  BY DEF Inv, TypeOK, HistoryOK,
     DropIntent, Fails, Return, Goto, disk
<1>4. CountsOK'
  BY DEF Inv, TypeOK, CountsOK,
     DropIntent, Fails, Return, Goto, disk
<1>5. (MarkBeforeSwap /\ PlanInv /\ LoopInv /\ DropInv /\ RecoverInv /\ CommitInv)'
  BY NoneAssumption DEF Inv, MarkBeforeSwap, PlanInv, LoopInv, DropInv, RecoverInv, CommitInv,
         LoopSteps, CommitSteps, TypeOK, DiskOK, MemoryOK, HistoryOK,
     DropIntent, Fails, Return, Goto, disk
<1> QED
  BY <1>1, <1>2, <1>3, <1>4, <1>5 DEF Inv, TypeOK

\* The device pointer is settled.
LEMMA CommitSettingsInv ==
    ASSUME Inv, CommitSettings
    PROVE  Inv'
<1>1. DiskOK'
  BY IntentFiles, TargetAssumption DEF Inv, PlanInv, TypeOK, DiskOK, MemoryOK,
     CommitSettings, Commit, Fails, Return, Goto, disk, history, memory, Target
<1>2. MemoryOK'
  BY IntentFiles, TargetAssumption DEF Inv, PlanInv, TypeOK, DiskOK, MemoryOK, Steps,
     CommitSettings, Commit, Fails, Return, Goto, disk, history, memory, Target
<1>3. HistoryOK'
  BY DEF Inv, TypeOK, HistoryOK,
     CommitSettings, Commit, Fails, Return, Goto, disk, history, memory, Target
<1>4. CountsOK'
  BY DEF Inv, TypeOK, CountsOK,
     CommitSettings, Commit, Fails, Return, Goto, disk, history, memory, Target
<1>5. (MarkBeforeSwap /\ PlanInv /\ LoopInv /\ DropInv /\ RecoverInv /\ CommitInv)'
  BY IntentFiles, TargetAssumption DEF Inv, MarkBeforeSwap, PlanInv, LoopInv, DropInv, RecoverInv, CommitInv,
         LoopSteps, CommitSteps, TypeOK, DiskOK, MemoryOK, HistoryOK,
     CommitSettings, Commit, Fails, Return, Goto, disk, history, memory, Target
<1> QED
  BY <1>1, <1>2, <1>3, <1>4, <1>5 DEF Inv, TypeOK

\* The database pointer is settled.
LEMMA CommitDbInv ==
    ASSUME Inv, CommitDb
    PROVE  Inv'
<1>1. DiskOK'
  BY IntentFiles, TargetAssumption DEF Inv, PlanInv, TypeOK, DiskOK, MemoryOK,
     CommitDb, Commit, Fails, Return, Goto, disk, history, memory, Target
<1>2. MemoryOK'
  BY IntentFiles, TargetAssumption DEF Inv, PlanInv, TypeOK, DiskOK, MemoryOK, Steps,
     CommitDb, Commit, Fails, Return, Goto, disk, history, memory, Target
<1>3. HistoryOK'
  BY DEF Inv, TypeOK, HistoryOK,
     CommitDb, Commit, Fails, Return, Goto, disk, history, memory, Target
<1>4. CountsOK'
  BY DEF Inv, TypeOK, CountsOK,
     CommitDb, Commit, Fails, Return, Goto, disk, history, memory, Target
<1>5. (MarkBeforeSwap /\ PlanInv /\ LoopInv /\ DropInv /\ RecoverInv /\ CommitInv)'
  BY IntentFiles, TargetAssumption DEF Inv, MarkBeforeSwap, PlanInv, LoopInv, DropInv, RecoverInv, CommitInv,
         LoopSteps, CommitSteps, TypeOK, DiskOK, MemoryOK, HistoryOK,
     CommitDb, Commit, Fails, Return, Goto, disk, history, memory, Target
<1> QED
  BY <1>1, <1>2, <1>3, <1>4, <1>5 DEF Inv, TypeOK

\* The mode is settled.
LEMMA CommitModeInv ==
    ASSUME Inv, CommitMode
    PROVE  Inv'
<1>1. DiskOK'
  BY IntentFiles, TargetAssumption DEF Inv, PlanInv, TypeOK, DiskOK, MemoryOK,
     CommitMode, Commit, Fails, Return, Goto, disk, history, memory, Target
<1>2. MemoryOK'
  BY IntentFiles, TargetAssumption DEF Inv, PlanInv, TypeOK, DiskOK, MemoryOK, Steps,
     CommitMode, Commit, Fails, Return, Goto, disk, history, memory, Target
<1>3. HistoryOK'
  BY DEF Inv, TypeOK, HistoryOK,
     CommitMode, Commit, Fails, Return, Goto, disk, history, memory, Target
<1>4. CountsOK'
  BY DEF Inv, TypeOK, CountsOK,
     CommitMode, Commit, Fails, Return, Goto, disk, history, memory, Target
<1>5. (MarkBeforeSwap /\ PlanInv /\ LoopInv /\ DropInv /\ RecoverInv /\ CommitInv)'
  BY IntentFiles, TargetAssumption DEF Inv, MarkBeforeSwap, PlanInv, LoopInv, DropInv, RecoverInv, CommitInv,
         LoopSteps, CommitSteps, TypeOK, DiskOK, MemoryOK, HistoryOK,
     CommitMode, Commit, Fails, Return, Goto, disk, history, memory, Target
<1> QED
  BY <1>1, <1>2, <1>3, <1>4, <1>5 DEF Inv, TypeOK

\* The mirror of the mode is settled.
LEMMA MirrorProxyFlagInv ==
    ASSUME Inv, MirrorProxyFlag
    PROVE  Inv'
<1>1. DiskOK'
  BY IntentFiles, TargetAssumption DEF Inv, PlanInv, TypeOK, DiskOK, MemoryOK,
     MirrorProxyFlag, Commit, Fails, Return, Goto, disk, history, memory, Target
<1>2. MemoryOK'
  BY IntentFiles, TargetAssumption DEF Inv, PlanInv, TypeOK, DiskOK, MemoryOK, Steps,
     MirrorProxyFlag, Commit, Fails, Return, Goto, disk, history, memory, Target
<1>3. HistoryOK'
  BY DEF Inv, TypeOK, HistoryOK,
     MirrorProxyFlag, Commit, Fails, Return, Goto, disk, history, memory, Target
<1>4. CountsOK'
  BY DEF Inv, TypeOK, CountsOK,
     MirrorProxyFlag, Commit, Fails, Return, Goto, disk, history, memory, Target
<1>5. (MarkBeforeSwap /\ PlanInv /\ LoopInv /\ DropInv /\ RecoverInv /\ CommitInv)'
  BY IntentFiles, TargetAssumption DEF Inv, MarkBeforeSwap, PlanInv, LoopInv, DropInv, RecoverInv, CommitInv,
         LoopSteps, CommitSteps, TypeOK, DiskOK, MemoryOK, HistoryOK,
     MirrorProxyFlag, Commit, Fails, Return, Goto, disk, history, memory, Target
<1> QED
  BY <1>1, <1>2, <1>3, <1>4, <1>5 DEF Inv, TypeOK

\* The completed intent goes.
LEMMA ClearIntentInv ==
    ASSUME Inv, ClearIntent
    PROVE  Inv'
<1>1. DiskOK'
  BY DEF Inv, TypeOK, DiskOK, MemoryOK,
     ClearIntent, Fails, Return, disk
<1>2. MemoryOK'
  BY DEF Inv, TypeOK, DiskOK, MemoryOK, Steps,
     ClearIntent, Fails, Return, disk
<1>3. HistoryOK'
  BY DEF Inv, TypeOK, HistoryOK,
     ClearIntent, Fails, Return, disk
<1>4. CountsOK'
  BY DEF Inv, TypeOK, CountsOK,
     ClearIntent, Fails, Return, disk
<1>5. (MarkBeforeSwap /\ PlanInv /\ LoopInv /\ DropInv /\ RecoverInv /\ CommitInv)'
  BY NoneAssumption DEF Inv, MarkBeforeSwap, PlanInv, LoopInv, DropInv, RecoverInv, CommitInv,
         LoopSteps, CommitSteps, TypeOK, DiskOK, MemoryOK, HistoryOK,
     ClearIntent, Fails, Return, disk
<1> QED
  BY <1>1, <1>2, <1>3, <1>4, <1>5 DEF Inv, TypeOK

\* A recovery swaps a file.
LEMMA RollForwardInv ==
    ASSUME Inv, RollForward
    PROVE  Inv'
<1>1. DiskOK'
  <2>1. PICK f \in todo :
          /\ \/ UNCHANGED <<file, tmp>>
             \/ /\ file' = [file EXCEPT ![f] = mem.files[f].planned]
                /\ tmp' = WithoutSlot(f, mem.files[f].staged)
          /\ backed' \in {backed, backed \cup {f}}
    BY DEF RollForward, Lowest, BackUp
  <2>2. f \in Files /\ mem \in Pending /\ f \in DOMAIN mem.files
    BY DEF Inv, TypeOK, MemoryOK, PlanInv, RecoverInv, RollForward
  <2>3. mem.files[f].planned \in Content /\ mem.files[f].staged \in Slots \cup {None}
    BY <2>2, IntentFiles DEF PendingFile
  <2>4. WithoutSlot(f, mem.files[f].staged) \in [Files -> [Slots -> Content \cup {None}]]
    BY <2>2, <2>3, SlotsType DEF Inv
  <2>5. file' \in [Files -> Content] /\ tmp' \in [Files -> [Slots -> Content \cup {None}]]
    BY <2>1, <2>2, <2>3, <2>4 DEF Inv, TypeOK, DiskOK
  <2>6. backed' \in SUBSET Files /\ UNCHANGED <<pending, store>>
    BY <2>1, <2>2 DEF Inv, TypeOK, DiskOK, RollForward
  <2> QED
    BY <2>5, <2>6 DEF Inv, TypeOK, DiskOK
<1>2. MemoryOK'
  BY IntentFiles, SlotsType DEF Inv, PlanInv, RecoverInv, TypeOK, DiskOK, MemoryOK, Steps,
     RollForward, Lowest, BackUp, Fails, Return, PendingFile
<1>3. HistoryOK'
  BY DEF Inv, TypeOK, HistoryOK, MemoryOK,
     RollForward, Lowest, BackUp, Fails, Return, PendingFile
<1>4. CountsOK'
  BY DEF Inv, TypeOK, CountsOK,
     RollForward, Lowest, BackUp, Fails, Return, PendingFile
<1>5. (MarkBeforeSwap /\ PlanInv /\ LoopInv /\ DropInv /\ RecoverInv /\ CommitInv)'
  BY IntentFiles DEF Inv, MarkBeforeSwap, PlanInv, LoopInv, DropInv, RecoverInv, CommitInv,
         LoopSteps, CommitSteps, TypeOK, DiskOK, MemoryOK, HistoryOK,
     RollForward, Lowest, BackUp, Fails, Return, PendingFile
<1> QED
  BY <1>1, <1>2, <1>3, <1>4, <1>5 DEF Inv, TypeOK

\* A file that changed is planned again.
LEMMA ReplanInv ==
    ASSUME Inv, Replan
    PROVE  Inv'
<1>1. /\ pc = "publish" /\ mem \in Pending /\ pending # None
      /\ todo \subseteq DOMAIN mem.files /\ replans \in Nat
      /\ mem.target \in Targets /\ DOMAIN mem.files \in SUBSET Files
  BY IntentFiles
     DEF Inv, PlanInv, LoopInv, LoopSteps, TypeOK, MemoryOK, CountsOK, Replan
<1>2. PICK f \in todo :
         LET p == PlanFrom(f, mem.target, file[f], Attempt) IN
         /\ Attempt <= MaxReplans
         /\ \/ /\ tmp' = WithoutSlot(f, mem.files[f].staged)
               /\ mem' = [mem EXCEPT !.files[f] = [p EXCEPT !.staged = None]]
               /\ replans' = replans
               /\ Goto("reintend")
               /\ UNCHANGED <<job, recovering, todo, any, faults>>
            \/ /\ tmp' = IF p.staged = None THEN tmp
                         ELSE [tmp EXCEPT ![f][p.staged] = p.planned]
               /\ mem' = [mem EXCEPT !.files[f] = p]
               /\ replans' = Attempt
               /\ Goto("reintend")
               /\ UNCHANGED <<job, recovering, todo, any, faults>>
            \/ /\ Fails("stage")
               /\ Return
               /\ UNCHANGED tmp
         /\ raced' \in {raced, raced \ {f}}
  BY DEF Replan, Lowest
<1> DEFINE p == PlanFrom(f, mem.target, file[f], Attempt)
<1>3. UNCHANGED <<file, backed, pending, store, wrote, rolled, crashes>>
  BY DEF Replan
<1>4. Attempt \in Slots /\ Attempt \in Nat
  BY <1>1, <1>2, SizeAssumption DEF Attempt, Slots
<1>5. p \in PendingFile /\ [p EXCEPT !.staged = None] \in PendingFile
  <2>1. p \in PendingFile
    BY <1>1, <1>4, PlanType DEF Inv, TypeOK, DiskOK
  <2> QED
    BY <2>1 DEF PendingFile
<1>6. f \in Files /\ f \in DOMAIN mem.files /\ mem.files[f].staged \in Slots \cup {None}
  BY <1>1, IntentFiles DEF PendingFile
<1>7. /\ pc' \in {"reintend", "idle"}
      /\ pc' = "reintend" =>
           /\ mem' \in Pending
           /\ mem'.target = mem.target
           /\ mem'.published = mem.published
           /\ DOMAIN mem'.files = DOMAIN mem.files
           /\ UNCHANGED <<job, recovering, todo, any>>
      /\ pc' = "idle" => Return
  <2> HIDE DEF p
  <2>1. \A q \in PendingFile :
           LET m == [mem EXCEPT !.files[f] = q] IN
           /\ m \in Pending /\ m.target = mem.target /\ m.published = mem.published
           /\ DOMAIN m.files = DOMAIN mem.files
    BY <1>1, <1>6, ReplanType
  <2>2. \/ /\ Goto("reintend")
           /\ \E q \in PendingFile : mem' = [mem EXCEPT !.files[f] = q]
           /\ UNCHANGED <<job, recovering, todo, any>>
        \/ Return
    BY <1>2, <1>5 DEF p
  <2>3. CASE Return
    BY <2>3 DEF Return
  <2>4. ASSUME NEW q \in PendingFile, mem' = [mem EXCEPT !.files[f] = q], Goto("reintend"),
               UNCHANGED <<job, recovering, todo, any>>
        PROVE  /\ pc' = "reintend" /\ mem' \in Pending /\ mem'.target = mem.target
               /\ mem'.published = mem.published /\ DOMAIN mem'.files = DOMAIN mem.files
    BY <2>1, <2>4 DEF Goto
  <2> QED
    BY <2>2, <2>3, <2>4
<1>8. DiskOK'
  <2>1. WithoutSlot(f, mem.files[f].staged) \in [Files -> [Slots -> Content \cup {None}]]
    BY <1>6, SlotsType DEF Inv
  <2>2. p.staged \in Slots \cup {None} /\ p.planned \in Content
    BY <1>5 DEF PendingFile
  <2>3. tmp' \in [Files -> [Slots -> Content \cup {None}]]
    <3> HIDE DEF p
    <3>1. p.staged # None =>
            [tmp EXCEPT ![f][p.staged] = p.planned] \in [Files -> [Slots -> Content \cup {None}]]
      BY <1>6, <2>2 DEF Inv, TypeOK, DiskOK
    <3> QED
      BY <1>2, <2>1, <3>1 DEF Inv, TypeOK, DiskOK, p
  <2> QED
    BY <1>3, <2>3 DEF Inv, TypeOK, DiskOK
<1>9. MemoryOK'
  BY <1>7 DEF Inv, TypeOK, MemoryOK, Steps, Return
<1>10. HistoryOK'
  BY <1>2, <1>3 DEF Inv, TypeOK, HistoryOK
<1>11. CountsOK'
  BY <1>2, <1>3, <1>4 DEF Inv, TypeOK, CountsOK, Fails, Return
<1>12. (MarkBeforeSwap /\ PlanInv /\ LoopInv /\ DropInv /\ RecoverInv /\ CommitInv)'
  BY <1>1, <1>3, <1>7, NoneAssumption
     DEF Inv, MarkBeforeSwap, PlanInv, LoopInv, DropInv, RecoverInv, CommitInv,
         LoopSteps, CommitSteps, Return
<1> QED
  BY <1>8, <1>9, <1>10, <1>11, <1>12 DEF Inv, TypeOK

\* Every step preserves the invariant.
LEMMA NextInv == Inv /\ [Next]_vars => Inv'
<1> SUFFICES ASSUME Inv, [Next]_vars PROVE Inv'
  OBVIOUS
<1>1. CASE Run
  BY <1>1, PlanRefusedInv, PlanAndStageInv, PlanNothingInv, RecordIntentInv,
     CheckUnchangedInv, MarkPublishedInv, PublishFileInv, GiveUpOnConflictInv,
     ReplanInv, RecordReplanInv, AllPublishedInv, DropFilesInv, DropIntentInv,
     CommitSettingsInv, CommitDbInv, CommitModeInv, MirrorProxyFlagInv, SweepInv,
     ClearIntentInv, ClassifyInv, RollForwardInv, RolledForwardInv
     DEF Run
<1>2. CASE Settle
  BY <1>2, SettleInv
<1>3. CASE \E t \in Targets : Begin(t)
  BY <1>3, BeginInv
<1>4. CASE \E f \in Files : ClientWrites(f)
  BY <1>4, ClientWritesInv
<1>5. CASE Crash
  BY <1>5, CrashInv
<1>6. CASE Restart
  BY <1>6, RestartInv
<1>7. CASE UNCHANGED vars
  BY <1>7 DEF vars, disk, memory, history, budget, Inv, TypeOK, DiskOK, MemoryOK,
     HistoryOK, CountsOK, MarkBeforeSwap, PlanInv, LoopInv, DropInv, RecoverInv, CommitInv
<1> QED
  BY <1>1, <1>2, <1>3, <1>4, <1>5, <1>6, <1>7 DEF Next

\* The inductive invariant holds in every reachable state.
THEOREM Invariance == Spec => []Inv
<1>1. Init => Inv
  BY InitInv
<1>2. Inv /\ [Next]_vars => Inv'
  BY NextInv
<1> QED
  BY <1>1, <1>2, PTL DEF Spec
-----------------------------------------------------------------------------
(* What follows for the operation.                                         *)

\* Type correctness, for any files, targets, bounds and failing steps.
THEOREM TypeCorrect == Spec => []TypeOK
<1>1. Inv => TypeOK
  BY DEF Inv
<1> QED
  BY <1>1, Invariance, PTL

\* An operation whose publication loop swapped a file has its mark on disk.
THEOREM MarkPrecedesSwap == Spec => []MarkBeforeSwap
<1>1. Inv => MarkBeforeSwap
  BY DEF Inv
<1> QED
  BY <1>1, Invariance, PTL

\* An operation that swapped a file is forgotten only once it is settled.
THEOREM OperationNeverForgotten == Spec => NeverForgotten
<1>1. Inv /\ [Next]_vars => [wrote # {} /\ pending' = None => Settled(pending.target)]_vars
  <2> SUFFICES ASSUME Inv, Next, wrote # {}, pending' = None
               PROVE  Settled(pending.target)
    OBVIOUS
  <2>1. pending # None
    BY DEF Inv, MarkBeforeSwap
  <2>2. DropIntent \/ ClearIntent \/ RecordIntent \/ RecordReplan \/ MarkPublished
    BY <2>1 DEF Next, Run, Settle, Begin, Recover, ClientWrites, Crash, Restart, PlanRefused,
       PlanAndStage, PlanNothing, CheckUnchanged, PublishFile, GiveUpOnConflict,
       Replan, AllPublished, DropFiles, CommitSettings, CommitDb, CommitMode,
       MirrorProxyFlag, Commit, Sweep, Classify, RollForward, RolledForward
  <2>3. CASE DropIntent
    BY <2>3 DEF DropIntent, Inv, DropInv
  <2>4. CASE ClearIntent
    <3>1. pc = "clear"
      BY <2>4 DEF ClearIntent
    <3> QED
      BY <2>1, <3>1 DEF Inv, CommitInv, CommitSteps, Settled, Promise!Settled
  <2>5. CASE RecordIntent
    BY <2>1, <2>5 DEF RecordIntent, Inv, PlanInv
  <2>6. CASE RecordReplan
    BY <2>1, <2>6 DEF RecordReplan, Inv, PlanInv
  <2>7. CASE MarkPublished
    BY <2>1, <2>7, MarkType, NoneAssumption
       DEF MarkPublished, Inv, PlanInv, TypeOK, MemoryOK
  <2> QED
    BY <2>2, <2>3, <2>4, <2>5, <2>6, <2>7
<1> QED
  BY <1>1, Invariance, PTL DEF Spec, NeverForgotten

\* Every step of the operation is a step of the write-ahead intent, or stutters.
LEMMA StepKeepsPromise == Inv /\ [Next]_vars => [Promise!Next]_(Promise!vars)
<1> SUFFICES ASSUME Inv, [Next]_vars PROVE [Promise!Next]_(Promise!vars)
  OBVIOUS
<1> DEFINE Shown(m) == [target |-> m.target, marked |-> m.published]
<1>1. ASSUME pending' = pending, wrote' = wrote, store' = store
      PROVE  [Promise!Next]_(Promise!vars)
  BY <1>1 DEF Promise!vars
<1>2. pending # None => pending \in Pending /\ Shown(pending) # None
  BY IntentFiles, NoneAssumption DEF Inv, TypeOK, DiskOK
<1>3. CASE RecordIntent
  <2>1. /\ pending = None /\ wrote = {} /\ mem \in Pending /\ mem # None
        /\ mem.target \in Targets /\ mem.published = FALSE
        /\ wrote' = wrote /\ store' = store
    BY <1>3, IntentFiles
       DEF RecordIntent, Inv, PlanInv, MarkBeforeSwap, TypeOK, MemoryOK, history
  <2>2. CASE pending' = mem
    <3>1. Promise!Record(mem.target)
      BY <2>1, <2>2 DEF Promise!Record
    <3> QED
      BY <2>1, <3>1 DEF Promise!Next
  <2> QED
    BY <1>1, <1>3, <2>1, <2>2 DEF RecordIntent
<1>4. CASE MarkPublished
  <2>1. /\ pending # None /\ mem \in Pending /\ pending.target = mem.target
        /\ wrote' = wrote /\ store' = store
    BY <1>4 DEF MarkPublished, Inv, LoopInv, PlanInv, LoopSteps, TypeOK, MemoryOK, history
  <2>2. CASE pending' = [mem EXCEPT !.published = TRUE]
    <3>1. /\ pending' # None /\ pending'.target = pending.target
          /\ pending'.published = TRUE
      BY <2>1, <2>2, MarkType, NoneAssumption
    <3>2. Promise!Mark
      BY <1>2, <2>1, <3>1 DEF Promise!Mark
    <3> QED
      BY <3>2 DEF Promise!Next
  <2> QED
    BY <1>1, <1>4, <2>1, <2>2 DEF MarkPublished
<1>5. CASE PublishFile
  <2>1. /\ pending # None /\ pending.published
        /\ pending' = pending /\ store' = store
    BY <1>5 DEF PublishFile, Inv, LoopInv, LoopSteps
  <2>2. CASE wrote' # {}
    <3>1. Promise!Swap
      BY <1>2, <2>1, <2>2 DEF Promise!Swap
    <3> QED
      BY <3>1 DEF Promise!Next
  <2>3. wrote' # {} \/ wrote' = wrote
    BY <1>5 DEF PublishFile
  <2> QED
    BY <1>1, <2>1, <2>2, <2>3
<1>6. CASE RecordReplan
  <2>1. /\ pending # None /\ mem # None /\ pending.target = mem.target
        /\ pending.published = mem.published
        /\ wrote' = wrote /\ store' = store /\ pending' \in {pending, mem}
    BY <1>6 DEF RecordReplan, Inv, LoopInv, PlanInv, LoopSteps, history
  <2> QED
    BY <2>1 DEF Promise!vars
<1>7. CASE DropIntent
  <2>1. wrote = {} /\ store' = store
    BY <1>7 DEF DropIntent, Inv, DropInv
  <2>2. CASE pending' = None /\ wrote' = {} /\ pending # None
    <3>1. Promise!Withdraw
      BY <1>2, <2>1, <2>2 DEF Promise!Withdraw
    <3> QED
      BY <3>1 DEF Promise!Next
  <2> QED
    BY <1>1, <1>7, <2>1, <2>2 DEF DropIntent
<1>8. CASE ClearIntent
  <2>1. pc = "clear" /\ store' = store
    BY <1>8 DEF ClearIntent
  <2>2. CASE pending' = None /\ wrote' = {} /\ pending # None
    <3>1. Promise!Settled(pending.target)
      BY <2>1, <2>2 DEF Inv, CommitInv, CommitSteps, Promise!Settled
    <3>2. Promise!Complete
      BY <1>2, <2>1, <2>2, <3>1 DEF Promise!Complete, Promise!Settled
    <3> QED
      BY <3>2 DEF Promise!Next
  <2>3. pending = None => wrote = {}
    BY DEF Inv, MarkBeforeSwap
  <2> QED
    BY <1>1, <1>8, <2>1, <2>2, <2>3 DEF ClearIntent
<1>9. CASE CommitSettings \/ CommitDb \/ CommitMode \/ MirrorProxyFlag
  <2>1. /\ mem.target \in Targets
        /\ pending # None => pending.target = mem.target
        /\ pending' = pending /\ wrote' = wrote
    BY <1>9, IntentFiles
       DEF CommitSettings, CommitDb, CommitMode, MirrorProxyFlag, Commit, Inv, PlanInv,
           CommitInv, CommitSteps, TypeOK, MemoryOK, history
  <2> DEFINE t == mem.target
  <2>2. \/ store' = store
        \/ t.pointer # None /\ store' = [store EXCEPT !.settings = t.pointer]
        \/ t.pointer # None /\ store' = [store EXCEPT !.db = t.pointer]
        \/ t.mode # None /\ store' = [store EXCEPT !.mode = t.mode]
        \/ t.mode # None /\ store' = [store EXCEPT !.mirror = (t.mode = "proxy")]
    BY <1>9 DEF CommitSettings, CommitDb, CommitMode, MirrorProxyFlag, Commit
  <2>3. store' = store \/ Promise!SettleOne(t)
    BY <2>1, <2>2 DEF Promise!SettleOne
  <2> QED
    BY <1>1, <2>1, <2>3 DEF Promise!Next
<1>10. CASE UNCHANGED vars
  BY <1>1, <1>10 DEF vars, history
<1>11. CASE Next /\ ~ (RecordIntent \/ MarkPublished \/ PublishFile \/ RecordReplan
                       \/ DropIntent \/ ClearIntent \/ CommitSettings \/ CommitDb
                       \/ CommitMode \/ MirrorProxyFlag)
  <2>1. pending' = pending /\ wrote' = wrote /\ store' = store
    BY <1>11
       DEF Next, Run, Settle, Begin, Recover, ClientWrites, Crash, Restart, PlanRefused,
           PlanAndStage, PlanNothing, CheckUnchanged, GiveUpOnConflict, Replan,
           AllPublished, DropFiles, Sweep, Classify, RollForward, RolledForward, history
  <2> QED
    BY <1>1, <2>1
<1> QED
  BY <1>3, <1>4, <1>5, <1>6, <1>7, <1>8, <1>9, <1>10, <1>11

\* The operation, with its crashes and recoveries, implements the abstract
\* write-ahead intent.
THEOREM Refinement == Spec => KeepsPromise
<1>1. Init => Promise!Init
  BY DEF Init, Promise!Init
<1>2. Inv /\ [Next]_vars => [Promise!Next]_(Promise!vars)
  BY StepKeepsPromise
<1> QED
  BY <1>1, <1>2, Invariance, PTL DEF Spec, KeepsPromise, Promise!Spec
=============================================================================
