---------------------------- MODULE SettlementProofs ----------------------------
(***************************************************************************)
(* More proofs about the multi-file operation: that the first-write backup *)
(* precedes every swap and an edit of the client survives one, always, and,*)
(* where the swap itself does not fail, that an operation which swapped    *)
(* nothing settles nothing.                                                *)
(***************************************************************************)
EXTENDS LiveOperationProofs, FiniteSetTheorems

\* The first-write backup of the file about to be swapped is there.
BackupInv ==
    /\ BackupBeforeSwap
    /\ pc \in {"mark", "rename"} => Lowest(todo) \subseteq backed

\* run is not a recovery, and before its loop nothing is counted or swapped.
ModeInv ==
    /\ pc \in {"idle", "down", "plan", "intend"} \cup LoopSteps => ~ recovering
    /\ recovering \/ pc \in {"idle", "down", "plan", "intend"} => replans = 0 /\ ~ any

\* The loop marks its intent just before the first swap, and withdraws it only
\* unmarked.
MarkedLate ==
    /\ pc \in LoopSteps => (any <=> wrote # {})
    /\ pc \in {"publish", "reintend"} /\ ~ any => ~ mem.published
    /\ pc \in {"drop", "dropClear"} => pending = None \/ ~ pending.published

\* A replan never uses the slot of the plan on disk.
SlotInv ==
    /\ pc = "intend" => \A f \in DOMAIN mem.files : mem.files[f].staged \in {None, 0}
    /\ pc \in {"publish", "mark", "rename"} =>
         /\ mem.files = pending.files
         /\ \A f \in Lowest(todo) : mem.files[f].staged \in {None, replans}
    /\ pc = "reintend" => \A f \in Lowest(todo) :
         /\ mem.files[f].staged \in {None, replans}
         /\ IsNoop(mem.files[f]) \/ pending.files[f].staged # replans
    /\ pc \in LoopSteps => \A f \in todo \ Lowest(todo) : mem.files[f].staged \in {None, 0}

\* Every file of the intent m that is to change can still be swapped.
Ready(m) == \A f \in DOMAIN m.files : IsNoop(m.files[f]) \/ StagedReady(f, m.files[f])

\* Until the first swap the plans of the loop are staged.
LoopReady == pc \in {"intend"} \cup LoopSteps /\ wrote = {} => Ready(mem)

\* A marked intent that has swapped nothing is staged, or settled.
MarkedReady ==
    pending # None /\ pending.published /\ wrote \cup rolled = {} =>
        Settled(pending.target) \/ Ready(pending)

\* A file of the intent m that is not at its old content, or has no new one, or
\* that the client wrote meanwhile.
Missed(m, f) == file[f] # m.files[f].pre \/ IsNoop(m.files[f]) \/ f \in raced

\* A recovery that has swapped nothing found nothing to swap.
RollMissed ==
    pc = "roll" /\ mem.published /\ wrote \cup rolled = {} =>
        Settled(mem.target) \/ \A f \in DOMAIN mem.files : f \in todo \/ Missed(mem, f)

\* The inductive invariant of the settlement, beside the one of the operation.
SettledInv ==
    /\ ModeInv /\ MarkedLate /\ SlotInv /\ LoopReady /\ MarkedReady /\ RollMissed
    /\ SettlesWhatItSwapped
-----------------------------------------------------------------------------
(* The backup.                                                             *)

\* A loop handles one file at a time.
LEMMA OneLowest ==
    ASSUME NEW S \in SUBSET Files, NEW f \in Lowest(S), NEW g \in Lowest(S)
    PROVE  f = g
  BY SizeAssumption DEF Files, Lowest

\* Every step keeps the backup ahead of the swap.
LEMMA BackupStep == Inv /\ BackupInv /\ [Next]_vars => BackupInv'
<1> SUFFICES ASSUME Inv, BackupInv, [Next]_vars PROVE BackupInv'
  OBVIOUS
<1> USE DEF BackupInv, BackupBeforeSwap
<1>0. todo \in SUBSET Files
  BY DEF Inv, TypeOK, MemoryOK
<1>1. CASE CheckUnchanged
  <2>1. PICK f \in Lowest(todo) :
          \/ backed' = backed \cup {f} /\ UNCHANGED memory
          \/ Return /\ UNCHANGED backed
    BY <1>1 DEF CheckUnchanged, BackUp
  <2>2. UNCHANGED <<wrote, rolled>>
    BY <1>1 DEF CheckUnchanged
  <2>3. Lowest(todo) = {f}
    BY <1>0, <2>1, OneLowest
  <2> QED BY <2>1, <2>2, <2>3 DEF Return, memory
<1>2. CASE MarkPublished
  BY <1>2 DEF MarkPublished, disk, history
<1>3. CASE PublishFile
  <2>1. PICK f \in Lowest(todo) : wrote' \in {wrote, wrote \cup {f}}
    BY <1>3 DEF PublishFile
  <2>2. f \in backed /\ UNCHANGED <<backed, rolled>>
    BY <1>3, <2>1 DEF PublishFile
  <2>3. pc' \notin {"mark", "rename"}
    BY <1>3 DEF PublishFile, GiveUp, Return, Goto
  <2> QED BY <2>1, <2>2, <2>3
<1>4. CASE RollForward
  <2>1. pc' \notin {"mark", "rename"} /\ wrote' = wrote
    BY <1>4 DEF RollForward, Return
  <2>2. PICK f \in Lowest(todo) :
          \/ UNCHANGED <<backed, rolled>>
          \/ backed' = backed \cup {f} /\ rolled' \in {rolled, rolled \cup {f}}
    BY <1>4 DEF RollForward, BackUp
  <2> QED BY <2>1, <2>2
<1>5. CASE UNCHANGED vars \/ \E f \in Files : ClientWrites(f)
  BY <1>5 DEF vars, disk, memory, history, ClientWrites
<1>6. CASE DropIntent \/ ClearIntent
  <2>1. backed' = backed /\ pc' \notin {"mark", "rename"}
    BY <1>6 DEF DropIntent, ClearIntent, disk, Return, Goto
  <2>2. UNCHANGED <<wrote, rolled>> \/ (wrote' = {} /\ rolled' = {})
    BY <1>6 DEF DropIntent, ClearIntent
  <2> QED BY <2>1, <2>2
<1>7. CASE \/ PlanRefused \/ PlanAndStage \/ PlanNothing \/ RecordIntent \/ GiveUpOnConflict
           \/ Replan \/ RecordReplan \/ AllPublished \/ DropFiles \/ CommitSettings \/ CommitDb
           \/ CommitMode \/ MirrorProxyFlag \/ Sweep \/ Classify \/ RolledForward
  <2>1. UNCHANGED <<backed, wrote, rolled>>
    BY <1>7 DEF PlanRefused, PlanAndStage, PlanNothing, RecordIntent, GiveUpOnConflict, Replan,
       RecordReplan, AllPublished, DropFiles, CommitSettings, CommitDb, CommitMode, Commit,
       MirrorProxyFlag, Sweep, Classify, RolledForward, disk, history
  <2>2. pc' \notin {"mark", "rename"}
    BY <1>7 DEF PlanRefused, PlanAndStage, PlanNothing, RecordIntent, GiveUpOnConflict, Replan,
       RecordReplan, AllPublished, DropFiles, CommitSettings, CommitDb, CommitMode, Commit,
       MirrorProxyFlag, Sweep, Classify, RolledForward, Return, Goto, GiveUp
  <2> QED BY <2>1, <2>2
<1>8. CASE Settle \/ (\E t \in Targets : Begin(t)) \/ Crash \/ Restart
  BY <1>8 DEF Settle, Begin, Crash, Restart, Recover, disk, history, Goto
<1> QED
  BY <1>1, <1>2, <1>3, <1>4, <1>5, <1>6, <1>7, <1>8 DEF Next, Run

\* No client file is swapped, by an operation or by a recovery, before its
\* first-write backup is complete, whatever fails and whenever the process dies
\* (engine.rs: ensure_first_write_backup).
THEOREM BackupsPrecedeSwaps == Spec => []BackupBeforeSwap
<1>1. Init => BackupInv
  BY DEF Init, BackupInv, BackupBeforeSwap
<1>2. BackupInv => BackupBeforeSwap
  BY DEF BackupInv
<1> QED
  BY <1>1, <1>2, BackupStep, Invariance, PTL DEF Spec
-----------------------------------------------------------------------------
(* The settlement.                                                         *)

\* A replan gives the file a new plan, in a slot of its own that holds it, or none
\* if there is nothing left to do, and leaves the other files alone.
LEMMA ReplanKeeps ==
    ASSUME Inv, Replan, ~ Return
    PROVE  \E f \in Lowest(todo), q \in PendingFile :
             /\ f \in DOMAIN mem.files /\ f \in Files
             /\ mem' = [mem EXCEPT !.files[f] = q]
             /\ mem'.published = mem.published
             /\ mem'.target = mem.target
             /\ DOMAIN mem'.files = DOMAIN mem.files
             /\ mem'.files[f] = q
             /\ \A g \in DOMAIN mem.files : g # f => mem'.files[g] = mem.files[g]
             /\ \A g \in Files : g # f => tmp'[g] = tmp[g]
             /\ todo' = todo /\ any' = any
             /\ \/ IsNoop(q) /\ q.staged = None /\ replans' = replans
                \/ /\ ~ IsNoop(q)
                   /\ replans' = replans + 1 /\ replans' \in Slots
                   /\ q.staged \in {None, replans'}
                   /\ IF q.staged = None THEN q.planned = Absent /\ tmp' = tmp
                      ELSE tmp'[f][q.staged] = q.planned
<1>1. /\ pc = "publish" /\ mem \in Pending /\ todo \subseteq DOMAIN mem.files /\ replans \in Nat
      /\ mem.target \in Targets /\ DOMAIN mem.files \in SUBSET Files
      /\ tmp \in [Files -> [Slots -> Content \cup {None}]]
  BY IntentFiles DEF Inv, PlanInv, LoopInv, LoopSteps, TypeOK, DiskOK, MemoryOK, CountsOK, Replan
<1>2. PICK f \in Lowest(todo) :
       LET p == PlanFrom(f, mem.target, file[f], Attempt) IN
         /\ Attempt <= MaxReplans
         /\ \/ /\ IsNoop(p)
               /\ tmp' = WithoutSlot(f, mem.files[f].staged)
               /\ mem' = [mem EXCEPT !.files[f] = [p EXCEPT !.staged = None]]
               /\ UNCHANGED <<todo, replans, any>>
            \/ /\ ~ IsNoop(p)
               /\ tmp' = IF p.staged = None THEN tmp
                         ELSE [tmp EXCEPT ![f][p.staged] = p.planned]
               /\ mem' = [mem EXCEPT !.files[f] = p]
               /\ replans' = Attempt
               /\ UNCHANGED <<todo, any>>
  BY DEF Replan
<1>3. f \in DOMAIN mem.files /\ f \in Files /\ mem.files[f].staged \in Slots \cup {None}
  BY <1>1, <1>2, IntentFiles DEF Lowest, PendingFile
<1>4. Attempt \in Slots /\ Attempt = replans + 1
  BY <1>1, <1>2, SizeAssumption DEF Attempt, Slots
<1> DEFINE p == PlanFrom(f, mem.target, file[f], Attempt)
<1>5. /\ p \in PendingFile /\ [p EXCEPT !.staged = None] \in PendingFile
      /\ p.staged \in {None, Attempt}
      /\ p.staged = None => p.planned = Absent
      /\ IsNoop(p) => IsNoop([p EXCEPT !.staged = None])
      /\ [p EXCEPT !.staged = None].staged = None
  <2>1. p \in PendingFile
    BY <1>1, <1>3, <1>4, PlanType DEF Inv, TypeOK, DiskOK
  <2>2. p.staged \in {None, Attempt} /\ (p.staged = None => p.planned = Absent)
    BY <1>4, NoneAssumption DEF PlanFrom, SlotOf, Patch
  <2> HIDE DEF p
  <2> QED BY <2>1, <2>2 DEF PendingFile, IsNoop
<1> HIDE DEF p
<1>6. \A q \in PendingFile :
         LET m == [mem EXCEPT !.files[f] = q] IN
         /\ m.published = mem.published
         /\ m.target = mem.target
         /\ DOMAIN m.files = DOMAIN mem.files
         /\ m.files[f] = q
         /\ \A g \in DOMAIN mem.files : g # f => m.files[g] = mem.files[g]
  <2> SUFFICES ASSUME NEW q \in PendingFile
               PROVE  LET m == [mem EXCEPT !.files[f] = q] IN
                      /\ m.published = mem.published
                      /\ m.target = mem.target
                      /\ DOMAIN m.files = DOMAIN mem.files
                      /\ m.files[f] = q
                      /\ \A g \in DOMAIN mem.files : g # f => m.files[g] = mem.files[g]
    OBVIOUS
  <2>1. PICK S \in SUBSET Files : mem.files \in [S -> PendingFile]
    BY <1>1 DEF Pending
  <2>2. [mem EXCEPT !.files[f] = q] = [mem EXCEPT !.files = [mem.files EXCEPT ![f] = q]]
    BY <1>1 DEF Pending
  <2> QED BY <1>1, <1>3, <2>1, <2>2 DEF Pending
<1>7. CASE /\ IsNoop(p)
           /\ tmp' = WithoutSlot(f, mem.files[f].staged)
           /\ mem' = [mem EXCEPT !.files[f] = [p EXCEPT !.staged = None]]
           /\ UNCHANGED <<todo, replans, any>>
  <2>1. \A g \in Files : g # f => tmp'[g] = tmp[g]
    BY <1>1, <1>7 DEF WithoutSlot
  <2> DEFINE q == [p EXCEPT !.staged = None]
  <2>2. q \in PendingFile /\ IsNoop(q) /\ q.staged = None /\ mem' = [mem EXCEPT !.files[f] = q]
    BY <1>5, <1>7
  <2> HIDE DEF q
  <2>3. /\ mem'.published = mem.published
        /\ mem'.target = mem.target
        /\ DOMAIN mem'.files = DOMAIN mem.files
        /\ mem'.files[f] = q
        /\ \A g \in DOMAIN mem.files : g # f => mem'.files[g] = mem.files[g]
    BY <1>5, <1>6, <2>2
  <2>4. f \in Lowest(todo) /\ q \in PendingFile
    BY <1>2, <2>2
  <2> USE <2>4
  <2> WITNESS f \in Lowest(todo), q \in PendingFile
  <2> QED BY <1>2, <1>3, <1>7, <2>1, <2>2, <2>3
<1>8. CASE /\ ~ IsNoop(p)
           /\ tmp' = IF p.staged = None THEN tmp ELSE [tmp EXCEPT ![f][p.staged] = p.planned]
           /\ mem' = [mem EXCEPT !.files[f] = p]
           /\ replans' = Attempt
           /\ UNCHANGED <<todo, any>>
  <2>1. \A g \in Files : g # f => tmp'[g] = tmp[g]
    BY <1>1, <1>8
  <2>2. IF p.staged = None THEN p.planned = Absent /\ tmp' = tmp
        ELSE tmp'[f][p.staged] = p.planned
    BY <1>1, <1>3, <1>4, <1>5, <1>8
  <2>3. /\ mem'.published = mem.published
        /\ mem'.target = mem.target
        /\ DOMAIN mem'.files = DOMAIN mem.files
        /\ mem'.files[f] = p
        /\ \A g \in DOMAIN mem.files : g # f => mem'.files[g] = mem.files[g]
    BY <1>5, <1>6, <1>8
  <2>4. f \in Lowest(todo) /\ p \in PendingFile
    BY <1>2, <1>5
  <2> USE <2>4
  <2> WITNESS f \in Lowest(todo), p \in PendingFile
  <2> QED BY <1>2, <1>3, <1>4, <1>5, <1>8, <2>1, <2>2, <2>3
<1> QED
  BY <1>2, <1>7, <1>8 DEF p

\* Every step keeps the mode of the lock holder.
LEMMA ModeStep == Inv /\ ModeInv /\ [Next]_vars => ModeInv'
<1> SUFFICES ASSUME Inv, ModeInv, [Next]_vars PROVE ModeInv'
  OBVIOUS
<1> USE DEF ModeInv, LoopSteps
<1>1. CASE Return
  BY <1>1 DEF Return
<1>2. CASE UNCHANGED vars \/ \E f \in Files : ClientWrites(f)
  BY <1>2 DEF vars, memory, ClientWrites
<1>3. CASE Settle \/ (\E t \in Targets : Begin(t)) \/ Crash \/ Restart
  BY <1>3 DEF Settle, Begin, Crash, Restart, Recover, memory, Goto
<1>4. CASE ~ Return /\ (PlanRefused \/ PlanAndStage \/ PlanNothing \/ RecordIntent
                        \/ CheckUnchanged \/ MarkPublished \/ PublishFile)
  BY <1>4 DEF PlanRefused, PlanAndStage, PlanNothing, RecordIntent, CheckUnchanged, AfterCheck,
     MarkPublished, PublishFile, GiveUp, Goto, memory
<1>5. CASE ~ Return /\ (GiveUpOnConflict \/ Replan \/ RecordReplan)
  BY <1>5 DEF GiveUpOnConflict, GiveUp, Replan, RecordReplan, Goto
<1>6. CASE ~ Return /\ (AllPublished \/ DropFiles \/ DropIntent \/ Sweep \/ ClearIntent
                        \/ Classify \/ RollForward \/ RolledForward)
  BY <1>6 DEF AllPublished, DropFiles, DropIntent, Sweep, ClearIntent, Classify, RollForward,
     RolledForward, Goto, memory
<1>7. CASE ~ Return /\ (CommitSettings \/ CommitDb \/ CommitMode \/ MirrorProxyFlag)
  BY <1>7 DEF CommitSettings, CommitDb, CommitMode, MirrorProxyFlag, Commit, Goto, memory
<1> QED
  BY <1>1, <1>2, <1>3, <1>4, <1>5, <1>6, <1>7 DEF Next, Run

\* Where no swap fails, every step keeps the mark late.
LEMMA MarkedStep ==
    "rename" \notin Faults /\ Inv /\ ModeInv /\ MarkedLate /\ [Next]_vars => MarkedLate'
<1> SUFFICES ASSUME "rename" \notin Faults, Inv, ModeInv, MarkedLate, [Next]_vars
             PROVE  MarkedLate'
  OBVIOUS
<1> USE DEF MarkedLate, LoopSteps
<1>0. any \in BOOLEAN /\ (pending = None => wrote = {})
  BY DEF Inv, TypeOK, MemoryOK, MarkBeforeSwap
<1>1. CASE Return
  BY <1>1 DEF Return
<1>2. CASE UNCHANGED vars \/ \E f \in Files : ClientWrites(f)
  BY <1>2 DEF vars, memory, history, ClientWrites
<1>3. CASE Settle \/ (\E t \in Targets : Begin(t)) \/ Crash \/ Restart
  BY <1>3 DEF Settle, Begin, Crash, Restart, Recover, memory, Goto
<1>4. CASE ~ Return /\ (PlanRefused \/ PlanAndStage \/ PlanNothing \/ AllPublished \/ Sweep
                        \/ ClearIntent \/ RollForward \/ RolledForward)
  BY <1>4 DEF PlanRefused, PlanAndStage, PlanNothing, AllPublished, Sweep,
     ClearIntent, RollForward, RolledForward, Goto
<1>5. CASE ~ Return /\ RecordIntent
  BY <1>0, <1>5 DEF ModeInv, RecordIntent, Inv, PlanInv, Goto, history
<1>6. CASE ~ Return /\ CheckUnchanged
  BY <1>6 DEF CheckUnchanged, AfterCheck, Goto, memory
<1>7. CASE MarkPublished
  BY <1>7 DEF MarkPublished, Inv, LoopInv, Goto, history
<1>8. CASE PublishFile
  <2>1. pc' = "publish" /\ any' = TRUE /\ wrote' # {}
    BY <1>8 DEF PublishFile, Fails, Goto
  <2> QED BY <2>1
<1>9. CASE ~ Return /\ GiveUpOnConflict
  BY <1>0, <1>9 DEF GiveUpOnConflict, GiveUp, Inv, LoopInv, Goto, history
<1>10. CASE ~ Return /\ Replan
  BY <1>10, ReplanKeeps DEF Replan, Goto
<1>11. CASE ~ Return /\ RecordReplan
  BY <1>11 DEF RecordReplan, Goto, history
<1>12. CASE ~ Return /\ (DropFiles \/ DropIntent)
  BY <1>12 DEF DropFiles, DropIntent, Goto, memory
<1>13. CASE Classify
  BY <1>13 DEF Classify, Started, Goto
<1>14. CASE ~ Return /\ (CommitSettings \/ CommitDb \/ CommitMode \/ MirrorProxyFlag)
  BY <1>14 DEF CommitSettings, CommitDb, CommitMode, MirrorProxyFlag, Commit, Goto, memory
<1> QED
  BY <1>1, <1>2, <1>3, <1>4, <1>5, <1>6, <1>7, <1>8, <1>9, <1>10, <1>11, <1>12, <1>13, <1>14 DEF Next, Run

\* The steps after which the lock holder is neither in the loop nor about to
\* enter it.
Elsewhere ==
    \/ PlanRefused \/ PlanNothing \/ AllPublished \/ GiveUpOnConflict \/ DropFiles \/ DropIntent
    \/ CommitSettings \/ CommitDb \/ CommitMode \/ MirrorProxyFlag \/ Sweep \/ ClearIntent
    \/ Classify \/ RollForward \/ RolledForward
    \/ Settle \/ (\E t \in Targets : Begin(t)) \/ Crash \/ Restart

\* Where these steps lead.
LEMMA ElsewhereGoes ==
    ASSUME Elsewhere
    PROVE  pc' \notin {"intend"} \cup LoopSteps
<1> USE DEF LoopSteps, Goto, Return, GiveUp
<1>1. CASE \/ PlanRefused \/ PlanNothing \/ AllPublished \/ GiveUpOnConflict \/ DropFiles \/ DropIntent
  BY <1>1 DEF PlanRefused, PlanNothing, AllPublished, GiveUpOnConflict, DropFiles, DropIntent
<1>2. CASE CommitSettings \/ CommitDb \/ CommitMode \/ MirrorProxyFlag
  BY <1>2 DEF CommitSettings, CommitDb, CommitMode, MirrorProxyFlag, Commit
<1>3. CASE Sweep \/ ClearIntent \/ Classify \/ RollForward \/ RolledForward
  BY <1>3 DEF Sweep, ClearIntent, Classify, RollForward, RolledForward
<1>4. CASE Settle \/ (\E t \in Targets : Begin(t)) \/ Crash \/ Restart
  BY <1>4 DEF Settle, Begin, Crash, Restart, Recover
<1> QED
  BY <1>1, <1>2, <1>3, <1>4 DEF Elsewhere

\* Marking changes the mark alone.
LEMMA MarkKeeps ==
    ASSUME Inv, MarkPublished
    PROVE  /\ pc = "mark" /\ mem'.files = mem.files
           /\ pc' \in {"rename", "drop"}
           /\ pc' = "rename" => pending' = mem'
           /\ UNCHANGED <<todo, replans, file, tmp, wrote, rolled, raced, store>>
<1>1. mem \in Pending
  BY DEF Inv, TypeOK, MemoryOK, PlanInv, MarkPublished
<1> QED
  BY <1>1, MarkType DEF MarkPublished, disk, history, Goto

\* Every step keeps the slots apart.
LEMMA SlotStep == Inv /\ ModeInv /\ SlotInv /\ [Next]_vars => SlotInv'
<1> SUFFICES ASSUME Inv, ModeInv, SlotInv, [Next]_vars PROVE SlotInv'
  OBVIOUS
<1>0. todo \in SUBSET Files
  BY DEF Inv, TypeOK, MemoryOK
<1>1. CASE pc' \notin {"intend"} \cup LoopSteps
  BY <1>1 DEF SlotInv, LoopSteps
<1>2. CASE UNCHANGED vars \/ \E f \in Files : ClientWrites(f)
  <2>1. UNCHANGED <<pc, mem, pending, todo, replans>>
    BY <1>2 DEF vars, memory, ClientWrites
  <2> QED BY <2>1 DEF SlotInv, LoopSteps, Lowest, IsNoop
<1>3. CASE ~ Return /\ PlanAndStage
  <2>1. pc' = "intend" /\ mem' = Intent(job, Changed(job))
    BY <1>3 DEF PlanAndStage, Goto
  <2> QED BY <2>1 DEF SlotInv, LoopSteps, Intent, PlanFrom, SlotOf
<1>4. CASE ~ Return /\ RecordIntent
  <2>1. /\ pc = "intend" /\ pc' = "publish" /\ pending' = mem /\ mem' = mem
        /\ todo' = DOMAIN mem.files /\ replans' = 0
    BY <1>4 DEF RecordIntent, Goto, ModeInv
  <2> QED BY <2>1 DEF SlotInv, LoopSteps, Lowest
<1>5. CASE ~ Return /\ CheckUnchanged
  <2>1. pc = "publish" /\ pc' \in {"mark", "rename"} /\ UNCHANGED <<mem, pending, todo, replans>>
    BY <1>5 DEF CheckUnchanged, AfterCheck, memory, Goto
  <2> QED BY <2>1 DEF SlotInv, LoopSteps, Lowest
<1>6. CASE MarkPublished
  <2>1. CASE pc' = "rename"
    <3>1. todo' = todo /\ replans' = replans /\ Lowest(todo)' = Lowest(todo)
      BY <1>6, MarkKeeps DEF Lowest
    <3>2. mem'.files = mem.files /\ pending'.files = mem.files
      BY <1>6, <2>1, MarkKeeps
    <3> QED BY <1>6, <2>1, <3>1, <3>2, MarkKeeps DEF SlotInv, LoopSteps
  <2> QED BY <1>6, <2>1, MarkKeeps DEF SlotInv, LoopSteps
<1>7. CASE PublishFile
  <2>1. CASE pc' = "publish"
    <3>1. PICK f \in Lowest(todo) :
            todo' = todo \ {f} /\ replans' = 0 /\ UNCHANGED <<mem, pending>> /\ pc = "rename"
      BY <1>7, <2>1 DEF PublishFile, GiveUp, Goto, Return
    <3>2. todo' \subseteq todo \ Lowest(todo)
      BY <1>0, <3>1, OneLowest
    <3>3. \A g \in todo' : mem.files[g].staged \in {None, 0}
      BY <3>1, <3>2 DEF SlotInv, LoopSteps
    <3> QED BY <2>1, <3>1, <3>3 DEF SlotInv, LoopSteps, Lowest
  <2> QED BY <1>1, <1>7, <2>1 DEF PublishFile, GiveUp, Goto, Return, LoopSteps
<1>8. CASE ~ Return /\ Replan
  <2>1. PICK f \in Lowest(todo), q \in PendingFile :
             /\ f \in DOMAIN mem.files /\ f \in Files
             /\ mem'.files[f] = q
             /\ \A g \in DOMAIN mem.files : g # f => mem'.files[g] = mem.files[g]
             /\ todo' = todo
             /\ \/ IsNoop(q) /\ q.staged = None /\ replans' = replans
                \/ /\ ~ IsNoop(q)
                   /\ replans' = replans + 1 /\ replans' \in Slots
                   /\ q.staged \in {None, replans'}
    BY <1>8, ReplanKeeps
  <2>2. /\ pc = "publish" /\ pc' = "reintend" /\ pending' = pending /\ replans \in Nat
        /\ todo \subseteq DOMAIN mem.files /\ mem.files = pending.files
    BY <1>8 DEF Replan, Goto, Inv, TypeOK, CountsOK, LoopInv, LoopSteps, SlotInv
  <2>3. Lowest(todo) = {f} /\ Lowest(todo)' = {f}
    BY <1>0, <2>1, OneLowest DEF Lowest
  <2>4. \A g \in todo' \ Lowest(todo)' : mem'.files[g].staged \in {None, 0}
    BY <2>1, <2>2, <2>3 DEF SlotInv, LoopSteps
  <2>5. pending.files[f].staged # replans' \/ IsNoop(q)
    BY <2>1, <2>2, <2>3, NoneAssumption DEF SlotInv
  <2>6. IsNoop(mem'.files[f]) \/ pending'.files[f].staged # replans'
    BY <2>1, <2>2, <2>5
  <2> QED BY <2>1, <2>2, <2>3, <2>4, <2>6 DEF SlotInv, LoopSteps, IsNoop
<1>9. CASE ~ Return /\ RecordReplan
  <2>1. PICK f \in Lowest(todo) :
          /\ pending' = mem /\ mem' = mem /\ pc = "reintend" /\ pc' = "publish"
          /\ todo' = IF IsNoop(mem.files[f]) THEN todo \ {f} ELSE todo
          /\ replans' = IF IsNoop(mem.files[f]) THEN 0 ELSE replans
    BY <1>9 DEF RecordReplan, Goto
  <2>2. CASE IsNoop(mem.files[f])
    <3>1. todo' \subseteq todo \ Lowest(todo) /\ replans' = 0
      BY <1>0, <2>1, <2>2, OneLowest
    <3>2. \A g \in todo' : mem.files[g].staged \in {None, 0}
      BY <2>1, <3>1 DEF SlotInv, LoopSteps
    <3> QED BY <2>1, <3>1, <3>2 DEF SlotInv, LoopSteps, Lowest
  <2>3. CASE ~ IsNoop(mem.files[f])
    <3>1. todo' = todo /\ replans' = replans /\ Lowest(todo)' = Lowest(todo)
      BY <2>1, <2>3 DEF Lowest
    <3> QED BY <2>1, <3>1 DEF SlotInv, LoopSteps
  <2> QED BY <2>2, <2>3
<1>10. CASE Elsewhere
  BY <1>1, <1>10, ElsewhereGoes
<1>11. CASE Return
  BY <1>1, <1>11 DEF Return, LoopSteps
<1> QED
  BY <1>2, <1>3, <1>4, <1>5, <1>6, <1>7, <1>8, <1>9, <1>10, <1>11 DEF Next, Run, Elsewhere

\* Where no swap fails, every step keeps the plans of the loop staged.
LEMMA LoopReadyStep ==
    Inv /\ SlotInv /\ LoopReady /\ [Next]_vars => LoopReady'
<1> SUFFICES ASSUME Inv, SlotInv, LoopReady, [Next]_vars PROVE LoopReady'
  OBVIOUS
<1>0. tmp \in [Files -> [Slots -> Content \cup {None}]]
  BY DEF Inv, TypeOK, DiskOK
<1>1. CASE pc' \notin {"intend"} \cup LoopSteps
  BY <1>1 DEF LoopReady
<1>2. CASE UNCHANGED <<mem, tmp, wrote>> /\ pc \in {"intend"} \cup LoopSteps
  BY <1>2 DEF LoopReady, Ready, StagedReady, IsNoop
<1>3. CASE UNCHANGED vars \/ \E f \in Files : ClientWrites(f)
  BY <1>1, <1>2, <1>3 DEF vars, disk, memory, history, ClientWrites
<1>4. CASE ~ Return /\ PlanAndStage
  <2>1. /\ mem' = Intent(job, Changed(job))
        /\ tmp' = [f \in Files |-> IF f \in Changed(job) \ job.deletes
                                   THEN [tmp[f] EXCEPT ![0] = Patch(f, job, file[f])]
                                   ELSE tmp[f]]
    BY <1>4 DEF PlanAndStage
  <2>2. DOMAIN mem'.files = Changed(job) /\ Changed(job) \subseteq Files /\ 0 \in Slots
    BY <2>1, SizeAssumption DEF Intent, Changed, Slots
  <2>3. ASSUME NEW f \in Changed(job)
        PROVE  IF mem'.files[f].staged = None THEN mem'.files[f].planned = Absent
               ELSE tmp'[f][mem'.files[f].staged] = mem'.files[f].planned
    <3>1. mem'.files[f] = PlanFrom(f, job, file[f], 0)
      BY <2>1 DEF Intent
    <3>2. CASE f \in job.deletes
      BY <3>1, <3>2 DEF PlanFrom, SlotOf, Patch
    <3>3. CASE f \notin job.deletes
      <4>1. mem'.files[f].staged = 0 /\ mem'.files[f].planned = Patch(f, job, file[f])
        BY <3>1, <3>3 DEF PlanFrom, SlotOf
      <4>2. tmp'[f][0] = Patch(f, job, file[f])
        BY <1>0, <2>1, <2>2, <3>3
      <4> QED BY <2>2, <4>1, <4>2, NoneAssumption
    <3> QED BY <3>2, <3>3
  <2> QED BY <2>2, <2>3 DEF LoopReady, Ready, StagedReady
<1>5. CASE ~ Return /\ (RecordIntent \/ CheckUnchanged)
  <2>1. UNCHANGED <<mem, tmp, wrote>> /\ pc \in {"intend"} \cup LoopSteps
    BY <1>5 DEF RecordIntent, CheckUnchanged, AfterCheck, Goto, memory, history, LoopSteps
  <2> QED BY <1>2, <2>1
<1>6. CASE MarkPublished
  BY <1>6, MarkKeeps DEF LoopReady, LoopSteps, Ready, StagedReady
<1>7. CASE PublishFile
  <2>1. wrote' # {} \/ pc' \notin {"intend"} \cup LoopSteps
    BY <1>7 DEF PublishFile, GiveUp, Return, Goto, LoopSteps
  <2> QED BY <2>1 DEF LoopReady
<1>8. CASE ~ Return /\ Replan
  <2>1. PICK f \in Lowest(todo), q \in PendingFile :
             /\ f \in DOMAIN mem.files /\ f \in Files
             /\ DOMAIN mem'.files = DOMAIN mem.files
             /\ mem'.files[f] = q
             /\ \A g \in DOMAIN mem.files : g # f => mem'.files[g] = mem.files[g]
             /\ \A g \in Files : g # f => tmp'[g] = tmp[g]
             /\ \/ IsNoop(q)
                \/ IF q.staged = None THEN q.planned = Absent /\ tmp' = tmp
                   ELSE tmp'[f][q.staged] = q.planned
    BY <1>8, ReplanKeeps
  <2>2. pc = "publish" /\ wrote' = wrote /\ DOMAIN mem.files \subseteq Files
    BY <1>8, IntentFiles DEF Replan, Inv, PlanInv, TypeOK, MemoryOK
  <2>3. ASSUME wrote = {}, NEW g \in DOMAIN mem.files
        PROVE  \/ IsNoop(mem'.files[g])
               \/ IF mem'.files[g].staged = None THEN mem'.files[g].planned = Absent
                  ELSE tmp'[g][mem'.files[g].staged] = mem'.files[g].planned
    <3>1. IsNoop(mem.files[g]) \/ StagedReady(g, mem.files[g])
      BY <2>2, <2>3 DEF LoopReady, LoopSteps, Ready
    <3>2. CASE g # f
      BY <2>1, <2>2, <3>1, <3>2 DEF StagedReady
    <3>3. CASE g = f
      BY <2>1, <3>3
    <3> QED BY <3>2, <3>3
  <2> QED BY <2>1, <2>2, <2>3 DEF LoopReady, Ready, StagedReady, IsNoop
<1>9. CASE ~ Return /\ RecordReplan
  <2>1. PICK f \in Lowest(todo) :
          /\ mem' = mem /\ pc = "reintend" /\ wrote' = wrote
          /\ tmp' = IF IsNoop(mem.files[f]) THEN tmp ELSE WithoutSlot(f, pending.files[f].staged)
    BY <1>9 DEF RecordReplan, history
  <2>2. \/ IsNoop(mem.files[f])
        \/ /\ mem.files[f].staged \in {None, replans}
           /\ pending.files[f].staged # replans
    BY <2>1 DEF SlotInv
  <2>3. f \in Files /\ DOMAIN mem.files \subseteq Files
    BY <2>1, IntentFiles DEF Lowest, Inv, PlanInv, TypeOK, MemoryOK
  <2>4. ASSUME wrote = {}, NEW g \in DOMAIN mem.files
        PROVE  \/ IsNoop(mem.files[g])
               \/ IF mem.files[g].staged = None THEN mem.files[g].planned = Absent
                  ELSE tmp'[g][mem.files[g].staged] = mem.files[g].planned
    <3>1. IsNoop(mem.files[g]) \/ StagedReady(g, mem.files[g])
      BY <2>1, <2>4 DEF LoopReady, LoopSteps, Ready
    <3>2. mem.files[g].staged \in Slots \cup {None}
      BY <2>1, IntentFiles DEF PendingFile, Inv, PlanInv, TypeOK, MemoryOK
    <3> QED BY <1>0, <2>1, <2>2, <2>3, <3>1, <3>2 DEF StagedReady, WithoutSlot
  <2> QED BY <2>1, <2>4 DEF LoopReady, Ready, StagedReady, IsNoop
<1>10. CASE Elsewhere
  BY <1>1, <1>10, ElsewhereGoes
<1>11. CASE Return
  BY <1>1, <1>11 DEF Return, LoopSteps
<1> QED
  BY <1>3, <1>4, <1>5, <1>6, <1>7, <1>8, <1>9, <1>10, <1>11 DEF Next, Run, Elsewhere

\* A write of the settlement undoes nothing of the target it settles.
LEMMA CommitKeeps ==
    ASSUME Inv, CommitSettings \/ CommitDb \/ CommitMode \/ MirrorProxyFlag,
           NEW t, t = mem.target, Settled(t)
    PROVE  Settled(t)'
<1>1. store \in [settings : Owners, db : Owners, mode : {"direct", "proxy"}, mirror : BOOLEAN]
  BY DEF Inv, TypeOK, DiskOK
<1>2. \/ store' = store
      \/ t.pointer # None /\ store' = [store EXCEPT !.settings = t.pointer]
      \/ t.pointer # None /\ store' = [store EXCEPT !.db = t.pointer]
      \/ t.mode # None /\ store' = [store EXCEPT !.mode = t.mode]
      \/ t.mode # None /\ store' = [store EXCEPT !.mirror = (t.mode = "proxy")]
  BY DEF CommitSettings, CommitDb, CommitMode, MirrorProxyFlag, Commit
<1> QED
  BY <1>1, <1>2 DEF Settled, Promise!Settled

\* Where no swap fails, every step keeps a marked intent ready or settled.
LEMMA MarkedReadyStep ==
    "rename" \notin Faults /\ Inv /\ MarkedLate /\ LoopReady /\ MarkedReady /\ [Next]_vars
        => MarkedReady'
<1> SUFFICES ASSUME "rename" \notin Faults, Inv, MarkedLate, LoopReady, MarkedReady, [Next]_vars
             PROVE  MarkedReady'
  OBVIOUS
<1>1. CASE UNCHANGED <<pending, tmp, wrote, rolled, store>>
  BY <1>1 DEF MarkedReady, Settled, Promise!Settled, Ready, StagedReady, IsNoop
<1>2. CASE pending' = None \/ ~ pending'.published \/ wrote' \cup rolled' # {}
  BY <1>2 DEF MarkedReady
<1>3. CASE UNCHANGED vars \/ \E f \in Files : ClientWrites(f)
  BY <1>1, <1>3 DEF vars, disk, history, ClientWrites
<1>4. CASE Settle \/ (\E t \in Targets : Begin(t)) \/ Crash \/ Restart
  BY <1>1, <1>4 DEF Settle, Begin, Crash, Restart, Recover, disk, history
<1>5. CASE PlanRefused \/ PlanNothing \/ AllPublished \/ GiveUpOnConflict \/ CheckUnchanged
           \/ Classify \/ RolledForward
  BY <1>1, <1>5 DEF PlanRefused, PlanNothing, AllPublished, GiveUpOnConflict, CheckUnchanged,
     Classify, RolledForward, disk, history
<1>6. CASE PlanAndStage \/ RecordIntent
  <2>1. pending' = None \/ ~ pending'.published
    BY <1>6 DEF PlanAndStage, RecordIntent, Inv, PlanInv
  <2> QED BY <1>2, <2>1
<1>7. CASE MarkPublished
  <2>1. pc = "mark" /\ mem'.files = mem.files /\ UNCHANGED <<tmp, wrote, rolled>>
    BY <1>7, MarkKeeps
  <2>2. CASE pending' = mem'
    <3>1. wrote = {} => Ready(mem)
      BY <2>1 DEF LoopReady, LoopSteps
    <3>2. wrote = {} => Ready(pending)'
      BY <2>1, <2>2, <3>1 DEF Ready, StagedReady
    <3> QED BY <2>1, <3>2 DEF MarkedReady
  <2>3. CASE pending' = pending
    <3>1. ~ pending.published
      BY <2>1 DEF Inv, LoopInv, LoopSteps
    <3> QED BY <1>2, <2>3, <3>1
  <2> QED BY <1>7, <2>2, <2>3 DEF MarkPublished
<1>8. CASE PublishFile
  <2>1. wrote' # {}
    BY <1>8 DEF PublishFile, Fails
  <2> QED BY <1>2, <2>1
<1>9. CASE Replan \/ RecordReplan
  <2>1. pc \in {"publish", "reintend"} /\ pending' \in {pending, mem} /\ wrote' = wrote
    BY <1>9 DEF Replan, RecordReplan, history
  <2>2. wrote = {} => ~ mem.published
    BY <2>1 DEF MarkedLate, LoopSteps
  <2>3. pending.published = mem.published
    BY <2>1 DEF Inv, LoopInv, LoopSteps
  <2> QED BY <1>2, <2>1, <2>2, <2>3
<1>10. CASE DropFiles
  <2>1. pending' = pending /\ (pending = None \/ ~ pending.published)
    BY <1>10 DEF DropFiles, MarkedLate
  <2> QED BY <1>2, <2>1
<1>11. CASE DropIntent \/ ClearIntent
  <2>1. pending' = None \/ UNCHANGED <<pending, tmp, wrote, rolled, store>>
    BY <1>11 DEF DropIntent, ClearIntent, disk
  <2> QED BY <1>1, <1>2, <2>1
<1>12. CASE CommitSettings \/ CommitDb \/ CommitMode \/ MirrorProxyFlag
  <2>1. UNCHANGED <<pending, tmp, wrote, rolled>> /\ pc \in CommitSteps
    BY <1>12 DEF CommitSettings, CommitDb, CommitMode, MirrorProxyFlag, Commit, disk, history,
       CommitSteps
  <2>2. pending # None => pending.target = mem.target
    BY <2>1 DEF Inv, CommitInv
  <2>3. PICK t : t = pending.target
    OBVIOUS
  <2>4. pending # None /\ Settled(t) => Settled(t)'
    BY <1>12, <2>2, <2>3, CommitKeeps
  <2>5. Ready(pending) => Ready(pending)'
    BY <2>1 DEF Ready, StagedReady, IsNoop
  <2> QED BY <2>1, <2>3, <2>4, <2>5 DEF MarkedReady, Settled, Promise!Settled
<1>13. CASE Sweep
  <2>1. pc = "sweep" /\ UNCHANGED <<pending, store>>
    BY <1>13 DEF Sweep
  <2>2. pending # None => Settled(pending.target)
    BY <2>1 DEF Inv, CommitInv, CommitSteps, Settled, Promise!Settled
  <2> QED BY <2>1, <2>2 DEF MarkedReady, Settled, Promise!Settled
<1>14. CASE RollForward
  <2>1. UNCHANGED <<pending, tmp, wrote, rolled, store>> \/ rolled' # {}
    BY <1>14 DEF RollForward
  <2> QED BY <1>1, <1>2, <2>1
<1> QED
  BY <1>3, <1>4, <1>5, <1>6, <1>7, <1>8, <1>9, <1>10, <1>11, <1>12, <1>13, <1>14 DEF Next, Run

\* Where no swap fails, every step of a recovery passes over a file only if there
\* was nothing to swap.
LEMMA RollMissedStep ==
    Inv /\ MarkedReady /\ RollMissed /\ [Next]_vars => RollMissed'
<1> SUFFICES ASSUME Inv, MarkedReady, RollMissed, [Next]_vars PROVE RollMissed'
  OBVIOUS
<1> USE DEF RollMissed
<1>0. file \in [Files -> Content]
  BY DEF Inv, TypeOK, DiskOK
<1>1. CASE pc' # "roll"
  BY <1>1
<1>2. CASE UNCHANGED vars
  BY <1>2 DEF vars, disk, memory, history, Settled, Promise!Settled, Missed, IsNoop
<1>3. CASE \E f \in Files : ClientWrites(f)
  <2>1. PICK g \in Files :
          /\ \E c : file' = [file EXCEPT ![g] = c]
          /\ raced' = IF mem = None /\ pending = None THEN raced ELSE raced \cup {g}
          /\ UNCHANGED <<pc, mem, todo, pending, store, wrote, rolled>>
    BY <1>3 DEF ClientWrites, memory
  <2>2. CASE pc = "roll" /\ mem.published /\ wrote \cup rolled = {} /\ ~ Settled(mem.target)
    <3>1. raced' = raced \cup {g}
      BY <2>1, <2>2 DEF Inv, PlanInv
    <3>2. \A f \in DOMAIN mem.files : f \in todo \/ Missed(mem, f)
      BY <2>2
    <3>3. \A f \in DOMAIN mem.files : f # g => file'[f] = file[f]
      BY <1>0, <2>1, IntentFiles, <2>2 DEF Inv, PlanInv, TypeOK, MemoryOK
    <3>4. \A f \in DOMAIN mem.files :
             f \in todo \/ file'[f] # mem.files[f].pre \/ IsNoop(mem.files[f]) \/ f \in raced'
      BY <3>1, <3>2, <3>3 DEF Missed
    <3> QED BY <2>1, <3>4 DEF Missed, IsNoop
  <2> QED BY <2>1, <2>2 DEF Settled, Promise!Settled
<1>4. CASE Classify
  <2>1. mem' = mem /\ UNCHANGED file /\ (pc' = "roll" => todo' = Unswapped(mem))
    BY <1>4 DEF Classify, Goto, disk
  <2> QED BY <2>1 DEF Unswapped, Missed, IsNoop
<1>5. CASE ~ Return /\ RollForward
  <2>1. PICK f \in Lowest(todo) :
          /\ pc = "roll" /\ UNCHANGED <<mem, pending, store, wrote, raced>> /\ todo' = todo \ {f}
          /\ \/ ~ StagedReady(f, mem.files[f]) /\ UNCHANGED <<file, rolled>>
             \/ rolled' # {}
    BY <1>5 DEF RollForward
  <2>2. mem = pending /\ f \in DOMAIN mem.files /\ pending # None
    BY <2>1 DEF Inv, RecoverInv, PlanInv, Lowest
  <2>3. CASE /\ mem.published /\ wrote \cup rolled = {} /\ ~ Settled(mem.target)
             /\ ~ StagedReady(f, mem.files[f]) /\ UNCHANGED <<file, rolled>>
    <3>1. Missed(mem, f)
      BY <2>2, <2>3 DEF MarkedReady, Ready, Missed
    <3>2. \A g \in DOMAIN mem.files : g \in todo' \/ Missed(mem, g)
      BY <2>1, <2>3, <3>1
    <3> QED BY <2>1, <2>3, <3>2 DEF Missed, IsNoop
  <2> QED BY <2>1, <2>3 DEF Settled, Promise!Settled
<1>6. CASE ~ Return /\ (PlanRefused \/ PlanAndStage \/ PlanNothing \/ RecordIntent
                        \/ CheckUnchanged \/ MarkPublished \/ PublishFile)
  BY <1>6 DEF PlanRefused, PlanAndStage, PlanNothing, RecordIntent, CheckUnchanged, AfterCheck,
     MarkPublished, PublishFile, GiveUp, Goto
<1>7. CASE ~ Return /\ (GiveUpOnConflict \/ Replan \/ RecordReplan \/ DropIntent)
  BY <1>7 DEF GiveUpOnConflict, GiveUp, Replan, RecordReplan, DropIntent, Goto
<1>8. CASE AllPublished \/ DropFiles \/ Sweep \/ RolledForward \/ ClearIntent
  BY <1>8 DEF AllPublished, DropFiles, Sweep, RolledForward, ClearIntent, Return, Goto
<1>9. CASE CommitSettings \/ CommitDb \/ CommitMode \/ MirrorProxyFlag
  BY <1>9 DEF CommitSettings, CommitDb, CommitMode, MirrorProxyFlag, Commit, Return, Goto
<1>10. CASE Settle \/ (\E t \in Targets : Begin(t)) \/ Crash \/ Restart
  BY <1>10 DEF Settle, Begin, Crash, Restart, Recover, Goto
<1>11. CASE Return
  BY <1>1, <1>11 DEF Return
<1> QED
  BY <1>2, <1>3, <1>4, <1>5, <1>6, <1>7, <1>8, <1>9, <1>10, <1>11 DEF Next, Run

\* Where no swap fails, an operation that swapped nothing settles nothing new.
LEMMA SettlesStep ==
    Inv /\ MarkedLate /\ RollMissed /\ SettlesWhatItSwapped /\ [Next]_vars => SettlesWhatItSwapped'
<1> SUFFICES ASSUME Inv, MarkedLate, RollMissed, SettlesWhatItSwapped, [Next]_vars
             PROVE  SettlesWhatItSwapped'
  OBVIOUS
<1> USE DEF SettlesWhatItSwapped
<1>0. file \in [Files -> Content]
  BY DEF Inv, TypeOK, DiskOK
<1>1. CASE pc' \notin {"settings", "db", "mode", "mirror"}
  BY <1>1
<1>2. CASE UNCHANGED vars
  BY <1>2 DEF vars, disk, memory, history, Settled, Promise!Settled, IsNoop
<1>3. CASE \E f \in Files : ClientWrites(f)
  <2>1. PICK g \in Files :
          /\ \E c : file' = [file EXCEPT ![g] = c]
          /\ raced' = IF mem = None /\ pending = None THEN raced ELSE raced \cup {g}
          /\ UNCHANGED <<pc, mem, pending, store, wrote, rolled>>
    BY <1>3 DEF ClientWrites, memory
  <2>2. CASE /\ pc \in {"settings", "db", "mode", "mirror"} /\ pending # None /\ mem.published
             /\ wrote \cup rolled = {} /\ ~ Settled(mem.target)
    <3>1. raced' = raced \cup {g}
      BY <2>1, <2>2
    <3>2. \A f \in DOMAIN pending.files : f # g => file'[f] = file[f]
      BY <1>0, <2>1, <2>2, IntentFiles DEF Inv, TypeOK, DiskOK
    <3>3. \A f \in DOMAIN pending.files :
             file'[f] # pending.files[f].pre \/ IsNoop(pending.files[f]) \/ f \in raced'
      BY <2>2, <3>1, <3>2
    <3> QED BY <2>1, <3>3 DEF IsNoop
  <2> QED BY <2>1, <2>2 DEF Settled, Promise!Settled
<1>4. CASE PlanNothing
  <2>1. pending' = None
    BY <1>4 DEF PlanNothing, disk, Inv, PlanInv
  <2> QED BY <2>1
<1>5. CASE AllPublished
  <2>1. UNCHANGED <<mem, wrote, rolled>> /\ (mem.published => wrote # {})
    BY <1>5 DEF AllPublished, memory, history, MarkedLate, LoopSteps
  <2> QED BY <2>1
<1>6. CASE RolledForward
  <2>1. /\ pc = "roll" /\ todo = {} /\ mem = pending
        /\ UNCHANGED <<mem, pending, store, file, wrote, rolled, raced>>
    BY <1>6 DEF RolledForward, memory, history, disk, Inv, RecoverInv
  <2>2. mem.published /\ wrote \cup rolled = {} =>
           Settled(mem.target) \/ \A f \in DOMAIN mem.files : Missed(mem, f)
    BY <2>1 DEF RollMissed
  <2> QED BY <2>1, <2>2 DEF Missed, Settled, Promise!Settled, IsNoop
<1>7. CASE ~ Return /\ (CommitSettings \/ CommitDb \/ CommitMode \/ MirrorProxyFlag)
  <2>1. /\ pc \in {"settings", "db", "mode", "mirror"}
        /\ UNCHANGED <<mem, pending, file, wrote, rolled, raced>>
    BY <1>7 DEF CommitSettings, CommitDb, CommitMode, MirrorProxyFlag, Commit, disk, history, memory
  <2>2. PICK t : t = mem.target
    OBVIOUS
  <2>3. Settled(t) => Settled(t)'
    BY <1>7, <2>2, CommitKeeps
  <2>4. Settled(mem.target) => Settled(mem.target)'
    BY <2>1, <2>2, <2>3 DEF Settled, Promise!Settled
  <2> QED BY <2>1, <2>4 DEF IsNoop
<1>8. CASE ~ Return /\ (PlanRefused \/ PlanAndStage \/ RecordIntent
                        \/ CheckUnchanged \/ MarkPublished \/ PublishFile)
  BY <1>8 DEF PlanRefused, PlanAndStage, RecordIntent, CheckUnchanged, AfterCheck,
     MarkPublished, PublishFile, GiveUp, Goto
<1>9. CASE ~ Return /\ (GiveUpOnConflict \/ Replan \/ RecordReplan \/ DropIntent)
  BY <1>9 DEF GiveUpOnConflict, GiveUp, Replan, RecordReplan, DropIntent, Goto
<1>10. CASE ~ Return /\ (DropFiles \/ Sweep \/ ClearIntent \/ Classify \/ RollForward)
  BY <1>10 DEF DropFiles, Sweep, ClearIntent, Classify, RollForward, Goto
<1>11. CASE Settle \/ (\E t \in Targets : Begin(t)) \/ Crash \/ Restart
  BY <1>11 DEF Settle, Begin, Crash, Restart, Recover, Goto
<1>12. CASE Return
  BY <1>1, <1>12 DEF Return
<1> QED
  BY <1>2, <1>3, <1>4, <1>5, <1>6, <1>7, <1>8, <1>9, <1>10, <1>11, <1>12 DEF Next, Run

\* Where no swap fails, an operation none of whose files was swapped settles its
\* target only if the client has meanwhile changed every one of them, whatever
\* else fails and whenever the process dies (operation.rs: drop_unpublished).
THEOREM NothingSwappedNothingSettled ==
    ASSUME "rename" \notin Faults
    PROVE  Spec => []SettlesWhatItSwapped
<1>1. Init => SettledInv
  BY DEF Init, SettledInv, ModeInv, MarkedLate, SlotInv, LoopReady, MarkedReady, RollMissed,
     SettlesWhatItSwapped, LoopSteps
<1>2. Inv /\ SettledInv /\ [Next]_vars => SettledInv'
  BY ModeStep, MarkedStep, SlotStep, LoopReadyStep, MarkedReadyStep, RollMissedStep, SettlesStep
     DEF SettledInv
<1>3. SettledInv => SettlesWhatItSwapped
  BY DEF SettledInv
<1> QED
  BY <1>1, <1>2, <1>3, Invariance, PTL DEF Spec
-----------------------------------------------------------------------------
(* The loop over the files, and its end.                                   *)

\* The files the loop has left behind are published, or need not be; the number of
\* replans keeps to its bound; and only a recovery classifies and rolls forward.
HandledInv ==
    /\ pc \in {"classify", "roll"} => recovering
    /\ pc \in LoopSteps =>
         \A f \in DOMAIN mem.files : f \in todo \cup wrote \/ IsNoop(mem.files[f])
    /\ pc \in {"reintend", "mark", "rename"} => todo # {}
    /\ replans <= MaxReplans
    /\ PublishesAll

\* Every step keeps the loop's account of its files.
LEMMA HandledStep == Inv /\ ModeInv /\ HandledInv /\ [Next]_vars => HandledInv'
<1> SUFFICES ASSUME Inv, ModeInv, HandledInv, [Next]_vars PROVE HandledInv'
  OBVIOUS
<1> USE DEF HandledInv, LoopSteps, PublishesAll
<1>0. 0 <= MaxReplans /\ replans \in Nat
  BY SizeAssumption DEF Inv, TypeOK, CountsOK
<1>1. CASE Return
  BY <1>0, <1>1 DEF Return
<1>2. CASE UNCHANGED vars \/ \E f \in Files : ClientWrites(f)
  BY <1>2 DEF vars, memory, history, ClientWrites
<1>3. CASE Settle \/ (\E t \in Targets : Begin(t)) \/ Crash \/ Restart
  BY <1>0, <1>3 DEF Settle, Begin, Crash, Restart, Recover, memory, Goto
<1>4. CASE ~ Return /\ PlanAndStage
  BY <1>4 DEF PlanAndStage, Goto
<1>5. CASE PlanNothing
  <2>1. DOMAIN mem'.files = {}
    BY <1>5 DEF PlanNothing, Intent
  <2> QED BY <1>5, <2>1 DEF PlanNothing, Goto
<1>6. CASE ~ Return /\ RecordIntent
  BY <1>6 DEF RecordIntent, Goto, history
<1>7. CASE ~ Return /\ CheckUnchanged
  <2>1. todo # {}
    BY <1>7 DEF CheckUnchanged, Lowest
  <2> QED BY <1>7, <2>1 DEF CheckUnchanged, AfterCheck, Goto, memory
<1>8. CASE MarkPublished
  BY <1>8, MarkKeeps DEF MarkPublished, Goto
<1>9. CASE PublishFile
  <2>1. CASE ~ Return /\ pc' # "publish"
    BY <1>9, <2>1 DEF PublishFile, GiveUp, Goto
  <2>2. CASE ~ Return /\ pc' = "publish"
    <3>1. PICK f \in Lowest(todo) :
            /\ wrote' = wrote \cup {f} /\ todo' = todo \ {f} /\ mem' = mem /\ replans' = 0
      BY <1>9, <2>2 DEF PublishFile, GiveUp, Goto
    <3>2. pc = "rename"
      BY <1>9 DEF PublishFile
    <3> QED BY <1>0, <2>2, <3>1, <3>2
  <2> QED BY <1>1, <2>1, <2>2
<1>10. CASE ~ Return /\ GiveUpOnConflict
  BY <1>10 DEF GiveUpOnConflict, GiveUp, Goto
<1>11. CASE ~ Return /\ Replan
  <2>1. PICK f \in Lowest(todo), q \in PendingFile :
             /\ DOMAIN mem'.files = DOMAIN mem.files
             /\ \A g \in DOMAIN mem.files : g # f => mem'.files[g] = mem.files[g]
             /\ todo' = todo
             /\ replans' = replans \/ replans' \in Slots
    BY <1>11, ReplanKeeps
  <2>2. pc = "publish" /\ pc' = "reintend" /\ wrote' = wrote /\ f \in todo
    BY <1>11, <2>1 DEF Replan, Goto, Lowest
  <2>3. replans' <= MaxReplans
    BY <2>1, SizeAssumption DEF Slots
  <2> QED BY <2>1, <2>2, <2>3
<1>12. CASE ~ Return /\ RecordReplan
  <2>1. PICK f \in Lowest(todo) :
          /\ todo' = IF IsNoop(mem.files[f]) THEN todo \ {f} ELSE todo
          /\ replans' = IF IsNoop(mem.files[f]) THEN 0 ELSE replans
    BY <1>12 DEF RecordReplan
  <2>2. pc = "reintend" /\ pc' = "publish" /\ UNCHANGED <<wrote, mem, recovering>>
    BY <1>12 DEF RecordReplan, Goto, history
  <2> QED BY <1>0, <2>1, <2>2
<1>13. CASE AllPublished
  BY <1>13 DEF AllPublished, Goto, memory, history
<1>14. CASE ~ Return /\ (DropFiles \/ DropIntent \/ Sweep \/ ClearIntent \/ Classify)
  BY <1>14 DEF DropFiles, DropIntent, Sweep, ClearIntent, Classify, Goto, memory
<1>15. CASE ~ Return /\ RollForward
  <2>1. pc = "roll" /\ UNCHANGED <<pc, recovering, replans>>
    BY <1>15 DEF RollForward
  <2> QED BY <2>1
<1>16. CASE RolledForward
  BY <1>16 DEF RolledForward, Goto, memory
<1>17. CASE ~ Return /\ (CommitSettings \/ CommitDb \/ CommitMode \/ MirrorProxyFlag)
  BY <1>17 DEF CommitSettings, CommitDb, CommitMode, MirrorProxyFlag, Commit, Goto, memory
<1> QED
  BY <1>1, <1>2, <1>3, <1>4, <1>5, <1>6, <1>7, <1>8, <1>9, <1>10, <1>11, <1>12, <1>13, <1>14, <1>15, <1>16, <1>17
     DEF Next, Run, PlanRefused

\* Where the stages lead.
LEMMA StageGoes ==
    ASSUME Inv, ~ Return, pc' # "down",
           \/ PlanAndStage \/ PlanNothing \/ RecordIntent \/ AllPublished \/ DropFiles
           \/ CommitSettings \/ CommitDb \/ CommitMode \/ MirrorProxyFlag
           \/ Sweep \/ ClearIntent \/ Classify \/ RolledForward
    PROVE  recovering' = recovering /\ Stage[pc'] < Stage[pc]
<1> USE DEF Stage, Goto
<1>1. CASE PlanAndStage \/ PlanNothing \/ RecordIntent \/ AllPublished
  BY <1>1 DEF PlanAndStage, PlanNothing, RecordIntent, AllPublished, memory
<1>2. CASE DropFiles \/ Sweep \/ ClearIntent \/ Classify \/ RolledForward
  BY <1>2 DEF DropFiles, Sweep, ClearIntent, Classify, RolledForward, memory
<1>3. CASE CommitSettings \/ CommitDb \/ CommitMode \/ MirrorProxyFlag
  BY <1>3 DEF CommitSettings, CommitDb, CommitMode, MirrorProxyFlag, Commit, memory
<1> QED
  BY <1>1, <1>2, <1>3

\* A step of the holder of the write lock returns, or gets on.
LEMMA RunGetsOn ==
    ASSUME Inv, HandledInv, HandledInv', Run, ~ Return
    PROVE  GetsOn
<1>0. todo \in SUBSET Files /\ replans \in Nat
  BY DEF Inv, TypeOK, MemoryOK, CountsOK
<1>1. CASE \/ PlanAndStage \/ PlanNothing \/ RecordIntent \/ AllPublished \/ DropFiles
           \/ CommitSettings \/ CommitDb \/ CommitMode \/ MirrorProxyFlag
           \/ Sweep \/ ClearIntent \/ Classify \/ RolledForward
  <2>1. pc' # "down"
    BY <1>1 DEF PlanAndStage, PlanNothing, RecordIntent, AllPublished, DropFiles, CommitSettings,
       CommitDb, CommitMode, MirrorProxyFlag, Commit, Sweep, ClearIntent, Classify, RolledForward, Goto
  <2> QED BY <1>1, <2>1, StageGoes DEF GetsOn
<1>2. CASE CheckUnchanged
  <2>1. pc = "publish" /\ pc' \in {"mark", "rename"} /\ UNCHANGED memory
    BY <1>2 DEF CheckUnchanged, AfterCheck, Goto
  <2>2. Place' < Place /\ Stage[pc'] = Stage[pc]
    BY <2>1 DEF Place, Stage
  <2> QED BY <2>1, <2>2 DEF GetsOn, memory
<1>3. CASE MarkPublished
  <2>1. pc = "mark" /\ pc' \in {"rename", "drop"} /\ UNCHANGED <<recovering, todo, replans>>
    BY <1>3 DEF MarkPublished, Goto
  <2>2. pc' = "rename" => Place' < Place /\ Stage[pc'] = Stage[pc]
    BY <2>1 DEF Place, Stage
  <2>3. pc' = "drop" => Stage[pc'] < Stage[pc]
    BY <2>1 DEF Stage
  <2> QED BY <2>1, <2>2, <2>3 DEF GetsOn
<1>4. CASE PublishFile
  <2>1. \/ pc' = "drop" /\ recovering' = recovering
        \/ /\ pc' = "publish" /\ recovering' = recovering
           /\ \E f \in Lowest(todo) : todo' = todo \ {f}
    BY <1>4 DEF PublishFile, GiveUp, Goto
  <2>2. pc = "rename"
    BY <1>4 DEF PublishFile
  <2> QED BY <2>1, <2>2 DEF GetsOn, Stage, Lowest
<1>5. CASE GiveUpOnConflict
  BY <1>5 DEF GiveUpOnConflict, GiveUp, Goto, GetsOn, Stage
<1>6. CASE Replan
  <2>1. PICK f \in Lowest(todo), q \in PendingFile :
             /\ mem'.files[f] = q
             /\ todo' = todo
             /\ \/ IsNoop(q) /\ replans' = replans
                \/ replans' = replans + 1 /\ replans' \in Slots
    BY <1>6, ReplanKeeps
  <2>2. pc = "publish" /\ pc' = "reintend" /\ recovering' = recovering /\ Stage[pc'] = Stage[pc]
    BY <1>6 DEF Replan, Goto, Stage
  <2>3. CASE IsNoop(q) /\ replans' = replans
    <3>1. f \in Lowest(todo') /\ IsNoop(mem'.files[f])
      BY <2>1, <2>3
    <3>2. Place' < Place
      BY <2>2, <3>1 DEF Place, Lowest
    <3> QED BY <2>1, <2>2, <2>3, <3>2 DEF GetsOn
  <2>4. CASE replans' = replans + 1 /\ replans' \in Slots
    BY <1>0, <2>1, <2>2, <2>4, SizeAssumption DEF GetsOn, Slots
  <2> QED BY <2>1, <2>3, <2>4
<1>7. CASE RecordReplan
  <2>1. PICK f \in Lowest(todo) :
          /\ todo' = IF IsNoop(mem.files[f]) THEN todo \ {f} ELSE todo
          /\ replans' = IF IsNoop(mem.files[f]) THEN 0 ELSE replans
    BY <1>7 DEF RecordReplan
  <2>2. pc = "reintend" /\ pc' = "publish" /\ recovering' = recovering /\ Stage[pc'] = Stage[pc]
    BY <1>7 DEF RecordReplan, Goto, Stage
  <2>3. CASE IsNoop(mem.files[f])
    BY <2>1, <2>2, <2>3 DEF GetsOn, Lowest
  <2>4. CASE ~ IsNoop(mem.files[f])
    <3>1. ~ \E g \in Lowest(todo) : IsNoop(mem.files[g])
      BY <1>0, <2>1, <2>4, OneLowest
    <3>2. Place' < Place
      BY <2>2, <3>1 DEF Place
    <3> QED BY <2>1, <2>2, <2>4, <3>2 DEF GetsOn
  <2> QED BY <2>3, <2>4
<1>8. CASE DropIntent
  BY <1>8 DEF DropIntent, GetsOn
<1>9. CASE RollForward
  <2>1. PICK f \in Lowest(todo) : todo' = todo \ {f}
    BY <1>9 DEF RollForward
  <2>2. pc' = pc /\ recovering' = recovering
    BY <1>9 DEF RollForward
  <2> QED BY <2>1, <2>2 DEF GetsOn, Lowest
<1> QED
  BY <1>1, <1>2, <1>3, <1>4, <1>5, <1>6, <1>7, <1>8, <1>9 DEF Run, PlanRefused

\* An operation settles its target only when it has swapped every file of its plan in,
\* or found its content there: no replan, however many, drops a file from the loop
\* (operation.rs: run).
THEOREM LoopLeavesNothing == Spec => []PublishesAll
<1>1. Init => ModeInv /\ HandledInv
  BY SizeAssumption DEF Init, ModeInv, HandledInv, LoopSteps, PublishesAll
<1>2. HandledInv => PublishesAll
  BY DEF HandledInv
<1> QED
  BY <1>1, <1>2, ModeStep, HandledStep, Invariance, PTL DEF Spec

\* Every step of the holder of the write lock returns or gets on, whatever the client
\* writes meanwhile and whatever fails (operation.rs: run, recover, commit_target).
THEOREM HolderProgress == Spec => HolderGetsOn
<1> DEFINE Advances ==
       pc \notin {"idle", "down"} =>
           (\E f \in Files : ClientWrites(f)) \/ pc' \in {"idle", "down"} \/ GetsOn
<1>1. Init => ModeInv /\ HandledInv
  BY SizeAssumption DEF Init, ModeInv, HandledInv, LoopSteps, PublishesAll
<1>2. Inv /\ HandledInv /\ HandledInv' /\ [Next]_vars => [Advances]_vars
  <2> SUFFICES ASSUME Inv, HandledInv, HandledInv', Next, pc \notin {"idle", "down"}
               PROVE  (\E f \in Files : ClientWrites(f)) \/ pc' \in {"idle", "down"} \/ GetsOn
    OBVIOUS
  <2>1. CASE Run
    BY <2>1, RunGetsOn DEF Return
  <2>2. CASE Settle \/ (\E t \in Targets : Begin(t)) \/ Crash \/ Restart
    BY <2>2 DEF Settle, Begin, Crash, Restart, Goto
  <2> QED BY <2>1, <2>2 DEF Next
<1>3. Spec => [](Inv /\ HandledInv)
  BY <1>1, ModeStep, HandledStep, Invariance, PTL DEF Spec
<1> QED
  BY <1>2, <1>3, PTL DEF Spec, HolderGetsOn, Advances

\* A set of files that is not empty has a first one in publication order.
LEMMA LowestExists ==
    ASSUME NEW S \in SUBSET Files, S # {}
    PROVE  Lowest(S) # {}
<1>1. S \subseteq Nat
  BY DEF Files
<1>2. PICK f \in S : \A g \in S : ~ (<<g, f>> \in OpToRel(<, Nat))
  BY <1>1, NatLessThanWellFounded, WFMin
<1>3. ASSUME NEW g \in S PROVE f <= g
  <2>1. f \in Nat /\ g \in Nat /\ <<g, f>> \in Nat \X Nat
    BY <1>1
  <2>2. ~ (g < f)
    BY <1>2, <2>1 DEF OpToRel
  <2> QED BY <2>1, <2>2
<1> QED
  BY <1>3 DEF Lowest

\* The holder is never at a step that needs a file without having one: with the steps
\* that need none, some step of Run is possible at every point of its way.
THEOREM HolderNeverStuck ==
    Spec => [](\/ pc \in {"reintend", "mark", "rename"}
               \/ pc \in {"publish", "roll"} /\ todo # {}
               => \E f \in Lowest(todo) : f \in DOMAIN mem.files)
<1>1. Init => ModeInv /\ HandledInv
  BY SizeAssumption DEF Init, ModeInv, HandledInv, LoopSteps, PublishesAll
<1>2. Inv /\ HandledInv =>
        (\/ pc \in {"reintend", "mark", "rename"}
         \/ pc \in {"publish", "roll"} /\ todo # {}
         => \E f \in Lowest(todo) : f \in DOMAIN mem.files)
  <2> SUFFICES ASSUME Inv, HandledInv, pc \in LoopSteps \cup {"roll"}, todo # {}
               PROVE  \E f \in Lowest(todo) : f \in DOMAIN mem.files
    BY DEF HandledInv, LoopSteps
  <2>1. Lowest(todo) # {} /\ Lowest(todo) \subseteq todo
    BY LowestExists DEF Inv, TypeOK, MemoryOK, Lowest
  <2>2. todo \subseteq DOMAIN mem.files
    BY DEF Inv, LoopInv, RecoverInv
  <2> QED BY <2>1, <2>2
<1> QED
  BY <1>1, <1>2, ModeStep, HandledStep, Invariance, PTL DEF Spec

\* What is left to the holder, from the most to the least significant.
Rank ==
    [i \in 1..5 |-> CASE i = 1 -> IF recovering THEN 1 ELSE 0
                      [] i = 2 -> Stage[pc]
                      [] i = 3 -> Cardinality(todo)
                      [] i = 4 -> MaxReplans - replans
                      [] OTHER -> Place]
Ranks == [1..5 -> Nat]
Lower == LexProductOrdering(OpToRel(<, Nat), Nat, 5)

\* The files still to be handled are finitely many.
LEMMA TodoFinite == TypeOK => IsFiniteSet(todo)
<1>1. IsFiniteSet(Files)
  BY SizeAssumption, FS_Interval DEF Files
<1> QED
  BY <1>1, FS_Subset DEF TypeOK, MemoryOK

\* A rank is five natural numbers.
LEMMA RankType == Inv /\ HandledInv => Rank \in Ranks
<1> SUFFICES ASSUME Inv, HandledInv PROVE Rank \in Ranks
  OBVIOUS
<1>1. Cardinality(todo) \in Nat
  BY TodoFinite, FS_CardinalityType DEF Inv
<1>2. MaxReplans - replans \in Nat
  BY SizeAssumption DEF Inv, TypeOK, CountsOK, HandledInv
<1>3. Stage[pc] \in Nat
  BY DEF Inv, TypeOK, MemoryOK, Steps, Stage
<1>4. Place \in Nat
  BY DEF Place
<1> QED
  BY <1>1, <1>2, <1>3, <1>4 DEF Rank, Ranks

\* Getting on lowers the rank.
LEMMA GettingOnLowers ==
    ASSUME Inv, Inv', HandledInv, HandledInv', GetsOn
    PROVE  <<Rank', Rank>> \in Lower
<1> DEFINE R == Rank  S == Rank'
<1>0. R \in Ranks /\ S \in Ranks
  <2>1. (Inv /\ HandledInv => Rank \in Ranks)'
    BY RankType, PTL
  <2> QED BY <2>1, RankType
<1>1. /\ R[1] = IF recovering THEN 1 ELSE 0
      /\ R[2] = Stage[pc]
      /\ R[3] = Cardinality(todo)
      /\ R[4] = MaxReplans - replans
      /\ R[5] = Place
  BY DEF Rank
<1>2. /\ S[1] = IF recovering' THEN 1 ELSE 0
      /\ S[2] = Stage[pc']
      /\ S[3] = Cardinality(todo')
      /\ S[4] = MaxReplans - replans'
      /\ S[5] = Place'
  BY DEF Rank
<1>3. IsFiniteSet(todo)
  BY TodoFinite DEF Inv
<1>4. todo' # todo /\ todo' \subseteq todo => S[3] < R[3]
  BY <1>1, <1>2, <1>3, FS_Subset, FS_CardinalityType
<1>5. replans \in Nat /\ replans' \in Nat /\ MaxReplans \in Nat
  BY SizeAssumption DEF Inv, TypeOK, CountsOK
<1>6. \/ S[1] < R[1]
      \/ S[1] = R[1] /\ S[2] < R[2]
      \/ S[1] = R[1] /\ S[2] = R[2] /\ S[3] < R[3]
      \/ S[1] = R[1] /\ S[2] = R[2] /\ S[3] = R[3] /\ S[4] < R[4]
      \/ S[1] = R[1] /\ S[2] = R[2] /\ S[3] = R[3] /\ S[4] = R[4] /\ S[5] < R[5]
  <2>1. recovering \in BOOLEAN /\ recovering' \in BOOLEAN
    BY DEF Inv, TypeOK, MemoryOK
  <2>2. CASE recovering /\ ~ recovering'
    BY <1>1, <1>2, <2>2
  <2>3. CASE recovering' = recovering
    <3>1. S[1] = R[1]
      BY <1>1, <1>2, <2>3
    <3>2. CASE Stage[pc'] < Stage[pc]
      BY <1>1, <1>2, <3>1, <3>2
    <3>3. CASE Stage[pc'] = Stage[pc] /\ todo' # todo /\ todo' \subseteq todo
      <4>1. S[2] = R[2] /\ S[3] < R[3]
        BY <1>1, <1>2, <1>4, <3>3
      <4> QED BY <3>1, <4>1
    <3>4. CASE Stage[pc'] = Stage[pc] /\ todo' = todo
      <4>1. S[2] = R[2] /\ S[3] = R[3]
        BY <1>1, <1>2, <3>4
      <4>2. CASE replans < replans' /\ replans' <= MaxReplans
        <5>1. MaxReplans - replans' < MaxReplans - replans
          <6>1. \A a, b, c \in Nat : b < c => a - c < a - b
            OBVIOUS
          <6> QED BY <1>5, <4>2, <6>1
        <5>2. S[4] < R[4]
          BY <1>1, <1>2, <5>1
        <5> QED BY <3>1, <4>1, <5>2
      <4>3. CASE replans' = replans /\ Place' < Place
        <5>1. S[4] = R[4] /\ S[5] < R[5]
          BY <1>1, <1>2, <4>3
        <5> QED BY <3>1, <4>1, <5>1
      <4> QED BY <2>2, <2>3, <3>2, <3>3, <3>4, <4>2, <4>3 DEF GetsOn
    <3> QED BY <2>3, <3>2, <3>3, <3>4 DEF GetsOn
  <2> QED BY <2>2, <2>3 DEF GetsOn
<1> HIDE DEF R, S
<1>7. \E j \in 1..5 : (\A i \in 1..(j-1) : S[i] = R[i]) /\ S[j] < R[j]
  <2>1. CASE S[1] < R[1]
    BY <2>1
  <2>2. CASE S[1] = R[1] /\ S[2] < R[2]
    <3>1. \A i \in 1..(2-1) : S[i] = R[i]
      BY <2>2
    <3> QED BY <2>2, <3>1
  <2>3. CASE S[1] = R[1] /\ S[2] = R[2] /\ S[3] < R[3]
    <3>1. \A i \in 1..(3-1) : S[i] = R[i]
      BY <2>3
    <3> QED BY <2>3, <3>1
  <2>4. CASE S[1] = R[1] /\ S[2] = R[2] /\ S[3] = R[3] /\ S[4] < R[4]
    <3>1. \A i \in 1..(4-1) : S[i] = R[i]
      BY <2>4
    <3> QED BY <2>4, <3>1
  <2>5. CASE S[1] = R[1] /\ S[2] = R[2] /\ S[3] = R[3] /\ S[4] = R[4] /\ S[5] < R[5]
    <3>1. \A i \in 1..(5-1) : S[i] = R[i]
      BY <2>5
    <3> QED BY <2>5, <3>1
  <2> QED BY <1>6, <2>1, <2>2, <2>3, <2>4, <2>5
<1>8. \A j \in 1..5 : S[j] < R[j] => <<S[j], R[j]>> \in OpToRel(<, Nat)
  BY <1>0 DEF Ranks, OpToRel
<1>9. <<S, R>> \in Lower
  BY <1>0, <1>7, <1>8 DEF Lower, LexProductOrdering, Ranks
<1> QED
  BY <1>9 DEF R, S

\* No holder of the write lock takes infinitely many steps before it returns: each of
\* them lowers a rank, and there is no infinite descent, for any number of files and
\* of replans.  The client's writes leave the rank as it is.
THEOREM HolderDescends ==
    /\ IsWellFoundedOn(Lower, Ranks)
    /\ Spec => [][pc \notin {"idle", "down"} =>
                     \/ (\E f \in Files : ClientWrites(f)) /\ Rank' = Rank
                     \/ pc' \in {"idle", "down"}
                     \/ <<Rank', Rank>> \in Lower]_vars
<1>1. IsWellFoundedOn(Lower, Ranks)
  BY NatLessThanWellFounded, WFLexProductOrdering DEF Lower, Ranks
<1> DEFINE Descends ==
       pc \notin {"idle", "down"} =>
           \/ (\E f \in Files : ClientWrites(f)) /\ Rank' = Rank
           \/ pc' \in {"idle", "down"}
           \/ <<Rank', Rank>> \in Lower
<1>2. Init => ModeInv /\ HandledInv
  BY SizeAssumption DEF Init, ModeInv, HandledInv, LoopSteps, PublishesAll
<1>3. Inv /\ HandledInv /\ Inv' /\ HandledInv' /\ [Next]_vars => [Descends]_vars
  <2> SUFFICES ASSUME Inv, HandledInv, Inv', HandledInv', Next, pc \notin {"idle", "down"}
               PROVE  \/ (\E f \in Files : ClientWrites(f)) /\ Rank' = Rank
                      \/ pc' \in {"idle", "down"}
                      \/ <<Rank', Rank>> \in Lower
    OBVIOUS
  <2>1. CASE Run
    BY <2>1, RunGetsOn, GettingOnLowers DEF Return
  <2>2. CASE Settle \/ (\E t \in Targets : Begin(t)) \/ Crash \/ Restart
    BY <2>2 DEF Settle, Begin, Crash, Restart, Goto
  <2>3. ASSUME NEW f \in Files, ClientWrites(f)
        PROVE  Rank' = Rank
    BY <2>3 DEF ClientWrites, memory, Rank, Place
  <2> QED BY <2>1, <2>2, <2>3 DEF Next
<1>4. Spec => [](Inv /\ HandledInv)
  BY <1>2, ModeStep, HandledStep, Invariance, PTL DEF Spec
<1>5. Spec => [][Descends]_vars
  BY <1>3, <1>4, PTL DEF Spec
<1> QED
  BY <1>1, <1>5 DEF Descends
-----------------------------------------------------------------------------
(* The client's part of a file.                                            *)

\* The plan p keeps the part of the file that belongs to the user.
KeepsUser(p) ==
    \/ p.planned = Absent
    \/ p.pre = Absent
    \/ p.pre # Corrupt /\ p.planned.user = p.pre.user

Sound(m) == \A f \in DOMAIN m.files : KeepsUser(m.files[f])

\* What is about to be swapped was compared, and has been what it was unless the
\* client wrote it since.
Compared ==
    /\ pc \in {"mark", "rename"} =>
         \A f \in Lowest(todo) : f \in raced \/ file[f] = mem.files[f].pre
    /\ pc = "roll" => \A f \in todo : f \in raced \/ file[f] = mem.files[f].pre

SurviveInv ==
    /\ mem # None => Sound(mem)
    /\ pending # None => Sound(pending)
    /\ Compared

\* A patch keeps the user's part of a file that it does not refuse.
LEMMA PlanKeepsUser ==
    ASSUME NEW f, NEW t, NEW c, NEW n, ~ Refuses(f, t, c)
    PROVE  KeepsUser(PlanFrom(f, t, c, n))
BY ContentAssumption DEF Refuses, KeepsUser, PlanFrom, Patch

\* The plans of an intent keep the user's part, whoever plans again.
LEMMA SoundStep == Inv /\ SurviveInv /\ [Next]_vars =>
                   (mem # None => Sound(mem))' /\ (pending # None => Sound(pending))'
<1> SUFFICES ASSUME Inv, SurviveInv, [Next]_vars
    PROVE (mem # None => Sound(mem))' /\ (pending # None => Sound(pending))'
  OBVIOUS
<1> USE DEF SurviveInv, Sound
<1>1. CASE PlanAndStage \/ PlanNothing
  <2>1. pending' = pending /\ job \in Targets
    BY <1>1 DEF PlanAndStage, PlanNothing, disk, Inv, PlanInv, TypeOK, MemoryOK
  <2>2. \A f \in Files : KeepsUser(PlanFrom(f, job, file[f], 0))
    BY <1>1, PlanKeepsUser DEF PlanAndStage, PlanNothing
  <2>3. mem' = None \/ \E S \in SUBSET Files : mem' = Intent(job, S)
    BY <1>1 DEF PlanAndStage, PlanNothing, Return, Changed
  <2>4. \A S \in SUBSET Files : \A f \in DOMAIN Intent(job, S).files :
           f \in Files /\ Intent(job, S).files[f] = PlanFrom(f, job, file[f], 0)
    BY DEF Intent
  <2> QED BY <2>1, <2>2, <2>3, <2>4
<1>2. CASE Replan /\ ~ Return
  <2>1. PICK f \in Lowest(todo) :
          LET p == PlanFrom(f, mem.target, file[f], Attempt) IN
          /\ ~ Refuses(f, mem.target, file[f])
          /\ \/ mem' = [mem EXCEPT !.files[f] = p]
             \/ mem' = [mem EXCEPT !.files[f] = [p EXCEPT !.staged = None]]
    BY <1>2 DEF Replan
  <2> DEFINE p == PlanFrom(f, mem.target, file[f], Attempt)
             q == [p EXCEPT !.staged = None]
  <2>2. KeepsUser(p) /\ KeepsUser(q)
    <3>1. KeepsUser(p)
      BY <2>1, PlanKeepsUser
    <3>2. q.pre = p.pre /\ q.planned = p.planned
      BY DEF PlanFrom
    <3> QED BY <3>1, <3>2 DEF KeepsUser
  <2>3. mem \in Pending /\ mem # None
    BY <1>2 DEF Replan, Inv, PlanInv, TypeOK, MemoryOK
  <2> HIDE DEF p, q
  <2>4. PICK r : r \in {p, q} /\ mem' = [mem EXCEPT !.files[f] = r]
    BY <2>1 DEF p, q
  <2>5. mem'.files = [mem.files EXCEPT ![f] = r]
    BY <2>3, <2>4 DEF Pending
  <2>6. \A g \in DOMAIN mem'.files : g \in DOMAIN mem.files /\ mem'.files[g] \in {r, mem.files[g]}
    BY <2>5
  <2>7. pending' = pending
    BY <1>2 DEF Replan
  <2> QED BY <2>2, <2>3, <2>4, <2>6, <2>7
<1>3. CASE MarkPublished
  <2>1. mem \in Pending /\ mem # None
    BY <1>3 DEF MarkPublished, Inv, PlanInv, TypeOK, MemoryOK
  <2>2. mem'.files = mem.files /\ pending' \in {pending, mem'}
    BY <1>3, <2>1, MarkType DEF MarkPublished
  <2> QED BY <2>1, <2>2
<1>4. CASE RecordIntent \/ RecordReplan \/ DropIntent \/ ClearIntent
  <2>1. mem' \in {mem, None} /\ pending' \in {pending, mem, None}
    BY <1>4 DEF RecordIntent, RecordReplan, DropIntent, ClearIntent, Return
  <2> QED BY <2>1
<1>5. CASE \/ PlanRefused \/ (Replan /\ Return) \/ CheckUnchanged \/ PublishFile \/ GiveUpOnConflict
           \/ AllPublished \/ DropFiles \/ CommitSettings \/ CommitDb \/ CommitMode
           \/ MirrorProxyFlag \/ Sweep \/ Classify \/ RollForward \/ RolledForward
  <2>1. pending' = pending
    BY <1>5 DEF PlanRefused, Replan, CheckUnchanged, PublishFile, GiveUpOnConflict, AllPublished,
       DropFiles, CommitSettings, CommitDb, CommitMode, Commit, MirrorProxyFlag, Sweep, Classify,
       RollForward, RolledForward, disk
  <2>2. mem' \in {mem, None}
    BY <1>5 DEF PlanRefused, Replan, CheckUnchanged, PublishFile, GiveUpOnConflict, AllPublished,
       DropFiles, CommitSettings, CommitDb, CommitMode, Commit, MirrorProxyFlag, Sweep, Classify,
       RollForward, RolledForward, Return, GiveUp, memory
  <2> QED BY <2>1, <2>2
<1>6. CASE Settle \/ (\E t \in Targets : Begin(t)) \/ Crash \/ Restart
  <2>1. mem' \in {mem, pending, None} /\ pending' = pending
    BY <1>6 DEF Settle, Begin, Crash, Restart, Recover, memory
  <2> QED BY <2>1
<1>7. CASE UNCHANGED vars \/ \E f \in Files : ClientWrites(f)
  <2>1. mem' = mem /\ pending' = pending
    BY <1>7 DEF vars, memory, ClientWrites
  <2> QED BY <2>1
<1> QED
  BY <1>1, <1>2, <1>3, <1>4, <1>5, <1>6, <1>7 DEF Next, Run

LEMMA ComparedStep == Inv /\ SurviveInv /\ [Next]_vars => Compared'
<1> SUFFICES ASSUME Inv, SurviveInv, [Next]_vars PROVE Compared'
  OBVIOUS
<1> USE DEF SurviveInv, Compared
<1>0. todo \in SUBSET Files
  BY DEF Inv, TypeOK, MemoryOK
<1>1. CASE CheckUnchanged /\ ~ Return
  <2>1. PICK f \in Lowest(todo) : file[f] = mem.files[f].pre
    BY <1>1 DEF CheckUnchanged
  <2>2. /\ UNCHANGED <<todo, mem, file>> /\ pc' # "roll"
    BY <1>1 DEF CheckUnchanged, memory, Goto, AfterCheck
  <2>3. \A g \in Lowest(todo) : g = f
    BY <1>0, <2>1, OneLowest
  <2> QED BY <2>1, <2>2, <2>3 DEF Lowest
<1>2. CASE MarkPublished
  <2>1. mem \in Pending
    BY <1>2 DEF MarkPublished, Inv, PlanInv, TypeOK, MemoryOK
  <2>2. /\ mem'.files = mem.files /\ UNCHANGED <<todo, file, raced>>
        /\ pc = "mark" /\ pc' # "roll"
    BY <1>2, <2>1, MarkType DEF MarkPublished, disk, history, Goto
  <2> QED BY <2>2 DEF Lowest
<1>3. CASE Classify
  <2>1. /\ todo' \in {todo, Unswapped(mem)} /\ UNCHANGED <<file, mem>>
        /\ pc' = "roll" => todo' = Unswapped(mem)
        /\ pc' \notin {"mark", "rename"}
    BY <1>3 DEF Classify, disk, Goto
  <2> QED BY <2>1 DEF Unswapped
<1>4. CASE RollForward /\ ~ Return
  <2>1. PICK f \in Lowest(todo) :
          /\ todo' = todo \ {f}
          /\ file' \in {file, [file EXCEPT ![f] = mem.files[f].planned]}
    BY <1>4 DEF RollForward
  <2>2. pc = "roll" /\ pc' = "roll" /\ UNCHANGED <<raced, mem>>
    BY <1>4 DEF RollForward
  <2>3. file \in [Files -> Content]
    BY DEF Inv, TypeOK, DiskOK
  <2>4. \A g \in todo' : g \in todo /\ file'[g] = file[g]
    BY <1>0, <2>1, <2>3
  <2> QED BY <2>2, <2>4
<1>5. CASE \E f \in Files : ClientWrites(f)
  <2>1. PICK f \in Files : ClientWrites(f)
    BY <1>5
  <2>2. /\ UNCHANGED <<pc, todo, mem>>
        /\ \A g \in Files \ {f} : file'[g] = file[g]
        /\ raced' = IF mem = None /\ pending = None THEN raced ELSE raced \cup {f}
    BY <2>1 DEF ClientWrites, memory, Inv, TypeOK, DiskOK
  <2>3. pc \in {"mark", "rename", "roll"} => mem # None
    BY DEF Inv, PlanInv
  <2>4. \A g \in todo : (g \in raced \/ file[g] = mem.files[g].pre)
                        /\ pc \in {"mark", "rename", "roll"}
                        => g \in raced' \/ file'[g] = mem'.files[g].pre
    BY <1>0, <2>2, <2>3
  <2> QED BY <2>2, <2>4 DEF Lowest
<1>6. CASE UNCHANGED vars
  BY <1>6 DEF vars, disk, memory, history, Lowest
<1>7. CASE Return \/ Crash
  BY <1>7 DEF Return, Crash, Goto
<1>8. CASE ~ Return /\ (\/ PlanRefused \/ PlanAndStage \/ PlanNothing \/ RecordIntent \/ PublishFile
                        \/ GiveUpOnConflict \/ Replan \/ RecordReplan \/ AllPublished \/ DropFiles
                        \/ DropIntent \/ CommitSettings \/ CommitDb \/ CommitMode
                        \/ MirrorProxyFlag \/ Sweep \/ ClearIntent \/ RolledForward)
  <2>1. pc' \notin {"mark", "rename", "roll"}
    BY <1>8 DEF PlanRefused, PlanAndStage, PlanNothing, RecordIntent, PublishFile,
       GiveUpOnConflict, Replan, RecordReplan, AllPublished, DropFiles, DropIntent,
       CommitSettings, CommitDb, CommitMode, Commit, MirrorProxyFlag, Sweep, ClearIntent,
       RolledForward, GiveUp, Goto
  <2> QED BY <2>1
<1>9. CASE Settle \/ (\E t \in Targets : Begin(t)) \/ Restart
  BY <1>9 DEF Settle, Begin, Restart, Recover, Goto
<1> QED
  BY <1>1, <1>2, <1>3, <1>4, <1>5, <1>6, <1>7, <1>8, <1>9 DEF Next, Run

\* A swap keeps the user's part as it was compared.
LEMMA SwapKeepsUser ==
    ASSUME Inv, SurviveInv, Next,
           NEW f \in ((wrote' \ wrote) \cup (rolled' \ rolled)) \ raced
    PROVE  file'[f] = Absent \/ file[f] = Absent
           \/ (file[f] # Corrupt /\ file'[f].user = file[f].user)
<1>0. file \in [Files -> Content] /\ todo \in SUBSET Files
  BY DEF Inv, TypeOK, DiskOK, MemoryOK
<1>1. CASE PublishFile \/ RollForward
  <2>1. /\ f \in todo /\ file' = [file EXCEPT ![f] = mem.files[f].planned]
        /\ file[f] = mem.files[f].pre
    <3>1. CASE PublishFile
      <4>1. PICK g \in Lowest(todo) :
              \/ wrote' = wrote \cup {g} /\ file' = [file EXCEPT ![g] = mem.files[g].planned]
              \/ wrote' = wrote
        BY <3>1 DEF PublishFile
      <4>2. pc = "rename" /\ rolled' = rolled
        BY <3>1 DEF PublishFile
      <4>3. f = g
        BY <4>1, <4>2
      <4> QED BY <4>1, <4>2, <4>3 DEF SurviveInv, Compared, Lowest
    <3>2. CASE RollForward
      <4>1. PICK g \in Lowest(todo) :
              \/ rolled' = rolled \cup {g} /\ file' = [file EXCEPT ![g] = mem.files[g].planned]
              \/ rolled' = rolled
        BY <3>2 DEF RollForward
      <4>2. pc = "roll" /\ wrote' = wrote
        BY <3>2 DEF RollForward
      <4>3. f = g
        BY <4>1, <4>2
      <4> QED BY <4>1, <4>2, <4>3 DEF SurviveInv, Compared, Lowest
    <3> QED BY <1>1, <3>1, <3>2
  <2>2. mem # None /\ f \in DOMAIN mem.files
    BY <1>1, <2>1 DEF PublishFile, RollForward, Inv, PlanInv, LoopInv, RecoverInv, LoopSteps
  <2>3. KeepsUser(mem.files[f])
    BY <2>2 DEF SurviveInv, Sound
  <2>4. file'[f] = mem.files[f].planned
    BY <1>0, <2>1
  <2> QED BY <2>1, <2>3, <2>4 DEF KeepsUser
<1>2. CASE ~ (PublishFile \/ RollForward)
  <2>1. wrote' \in {wrote, {}} /\ rolled' \in {rolled, {}}
    BY <1>2 DEF Next, Run, Settle, Begin, Recover, ClientWrites, Crash, Restart,
       PlanRefused, PlanAndStage, PlanNothing, RecordIntent, CheckUnchanged, MarkPublished,
       GiveUpOnConflict, Replan, RecordReplan, AllPublished, DropFiles, DropIntent,
       CommitSettings, CommitDb, CommitMode, Commit, MirrorProxyFlag, Sweep, ClearIntent,
       Classify, RolledForward, history
  <2> QED BY <2>1
<1> QED BY <1>1, <1>2

\* A swap overwrites the client's part of a file only if the client wrote between
\* the last comparison and the swap (ClientPartSurvives), for any number of files,
\* edits, replans, failures and recoveries.
THEOREM EditsSurvive == Spec => ClientPartSurvives
<1>1. Init => SurviveInv
  BY DEF Init, SurviveInv, Compared
<1>2. Inv /\ SurviveInv /\ [Next]_vars => SurviveInv'
  BY SoundStep, ComparedStep DEF SurviveInv
<1>3. Inv /\ SurviveInv /\ [Next]_vars =>
         [\A f \in ((wrote' \ wrote) \cup (rolled' \ rolled)) \ raced :
            \/ file'[f] = Absent
            \/ file[f] = Absent
            \/ file[f] # Corrupt /\ file'[f].user = file[f].user]_vars
  BY SwapKeepsUser
<1> QED
  BY <1>1, <1>2, <1>3, Invariance, PTL DEF Spec, ClientPartSurvives
=============================================================================
