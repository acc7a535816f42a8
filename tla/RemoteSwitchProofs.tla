--------------------------- MODULE RemoteSwitchProofs ---------------------------
(***************************************************************************)
(* Proofs about switching between hosts while commands are under way, for  *)
(* any targets and any number of tasks, as long as nobody has deleted a    *)
(* target: a deletion changes what is shown without the lock, and gives a  *)
(* generation out that a connection may have taken meanwhile.              *)
(***************************************************************************)
EXTENDS RemoteRuntimeProofs

\* The points of a switch between the connecting snapshot and the next one.
ConnectPoints == {"dropSession", "load", "save", "ssh", "online"}

\* The points after a switch has gone online.
Refreshes == {"observe", "invoke", "clone", "answer", "publish"}

\* The main thread saves targets and does nothing else.
OnlySaves == main.pc \in {"idle", "upsert"}

\* An online runtime has its session.
Tunnelled == snapshot.status = "online" => session = snapshot.target

\* A generation stands for one host: it is given out with the connecting snapshot,
\* goes online once, and a task that carries the current one means that host.
GenOf(k) ==
    /\ job[k].gen <= snapshot.gen
    /\ job[k].kind = "switch" /\ pc[k] \in ConnectPoints =>
          /\ snapshot.status = "connecting"
          /\ snapshot.gen = job[k].gen
          /\ snapshot.target = job[k].target
    /\ pc[k] = "online" => session = job[k].target
    /\ job[k].kind = "switch" /\ pc[k] \in Refreshes =>
          snapshot.status = "online" /\ snapshot.target = job[k].target
    /\ job[k].kind \in {"provider", "read", "other", "exchange"} /\ job[k].gen = snapshot.gen =>
          snapshot.status = "online" /\ snapshot.target = job[k].target
    /\ job[k].kind \in Locking /\ pc[k] \in {"withdraw", "invoke", "clone", "answer", "publish"}
          => job[k].gen = snapshot.gen
    /\ pc[k] = "answer" /\ job[k].gen = snapshot.gen => job[k].session = job[k].target
GenInv == \A k \in Tasks : GenOf(k)

\* The inductive invariant, beside the one of RemoteRuntimeProofs.
SwitchInv == Inv /\ OnlySaves /\ Tunnelled /\ GenInv
-----------------------------------------------------------------------------
LEMMA InitSwitch == Init => SwitchInv
<1> SUFFICES ASSUME Init PROVE SwitchInv
  OBVIOUS
<1>1. Inv
  BY InitInv
<1> QED
  BY <1>1 DEF Init, SwitchInv, OnlySaves, Tunnelled, GenInv, GenOf, ConnectPoints, Refreshes, Resting, NoJob

\* How a task may change what is shown and where the tunnel leads: it holds the
\* lock, and either the generation is a new one or the runtime is connecting.
LEMMA Shows ==
    ASSUME SwitchInv, NEW k \in Tasks, Acquire(k) \/ Proceed(k)
    PROVE  \/ UNCHANGED <<snapshot, session>>
           \/ /\ Holding(k)
              /\ snapshot'.gen = snapshot.gen + 1
              /\ snapshot'.status # "online"
              /\ session' = session
           \/ /\ Holding(k)
              /\ snapshot.status = "connecting"
              /\ UNCHANGED snapshot
           \/ /\ Holding(k)
              /\ snapshot.status = "connecting"
              /\ snapshot'.gen = snapshot.gen
              /\ session' = session
              /\ snapshot'.status = "online" => session = snapshot'.target
<1> USE DEF SwitchInv, Inv, At
<1>0. KindOf(k) /\ GenOf(k) /\ TypeOK
  BY DEF KindInv, GenInv
<1>1. CASE Acquire(k) \/ ClearRoutes(k) \/ Find(k) \/ LoadStore(k) \/ SaveActive(k) \/ Observe(k)
  BY <1>1 DEF Acquire, ClearRoutes, Find, LoadStore, SaveActive, Observe, runtime
<1>2. CASE Check(k) \/ Withdraw(k) \/ Invoke(k) \/ CloneSession(k) \/ Answer(k) \/ Publish(k)
  BY <1>2 DEF Check, Withdraw, Invoke, CloneSession, Answer, Publish, runtime
<1>3. CASE ShowConnecting(k)
  BY <1>0, <1>3 DEF ShowConnecting, NextGeneration, Holding, KindOf
<1>4. CASE DropSession(k)
  BY <1>0, <1>4 DEF DropSession, Holding, KindOf, GenOf, ConnectPoints
<1>5. CASE Connect(k)
  BY <1>0, <1>5 DEF Connect, Failed, Holding, KindOf, GenOf, ConnectPoints
<1>6. CASE ShowOnline(k)
  BY <1>0, <1>6 DEF ShowOnline, Holding, KindOf, GenOf, ConnectPoints
<1>7. CASE UseLocal(k)
  BY <1>0, <1>7 DEF UseLocal, NextGeneration, Holding, KindOf
<1> QED
  BY <1>1, <1>2, <1>3, <1>4, <1>5, <1>6, <1>7 DEF Proceed

\* A step of one task keeps what the others carry.
LEMMA OthersGen ==
    ASSUME SwitchInv, NEW k \in Tasks, NEW q \in Tasks, q # k, Acquire(k) \/ Proceed(k)
    PROVE  GenOf(q)'
<1> USE DEF SwitchInv, Inv
<1>1. pc'[q] = pc[q] /\ job'[q] = job[q] /\ TypeOK /\ GenOf(q)
  BY Frame DEF GenInv
<1>2. job[q].gen \in Nat /\ snapshot.gen \in Nat
  BY DEF TypeOK, Job
<1>3. CASE UNCHANGED <<snapshot, session>>
  BY <1>1, <1>3 DEF GenOf
<1>4. CASE ~ UNCHANGED <<snapshot, session>>
  <2>1. Holding(k) /\ lock = k
    BY <1>4, Shows DEF HoldInv, HoldOf
  <2>2. ~ Holding(q)
    BY <2>1 DEF HoldInv, HoldOf
  <2>3. /\ ~ (job[q].kind = "switch" /\ pc[q] \in ConnectPoints \cup Refreshes)
        /\ pc[q] # "online"
        /\ ~ (job[q].kind \in Locking /\ pc[q] \in {"withdraw", "invoke", "clone", "answer", "publish"})
    BY <2>2 DEF Holding, Locking, ConnectPoints, Refreshes, KindInv, KindOf
  <2>4. job[q].gen <= snapshot'.gen
    BY <1>1, <1>2, <1>4, Shows DEF GenOf
  <2>5. /\ job[q].kind \in {"provider", "read", "other", "exchange"} /\ job[q].gen = snapshot'.gen =>
              snapshot'.status = "online" /\ snapshot'.target = job[q].target
        /\ pc[q] = "answer" /\ job[q].gen = snapshot'.gen => job[q].session = job[q].target
    BY <1>1, <1>2, <1>4, Shows DEF GenOf
  <2> QED BY <1>1, <2>3, <2>4, <2>5 DEF GenOf
<1> QED
  BY <1>3, <1>4

\* A task that returns carries nothing.
LEMMA ReturnGen ==
    ASSUME TypeOK, TypeOK', NEW k \in Tasks, Return(k)
    PROVE  GenOf(k)'
  BY DEF TypeOK, Return, Goto, GenOf, NoJob, ConnectPoints, Refreshes

\* A step of a task keeps what it carries itself.
LEMMA OwnGen ==
    ASSUME SwitchInv, NEW k \in Tasks, Acquire(k) \/ Proceed(k)
    PROVE  GenOf(k)'
<1> USE DEF SwitchInv, At
<1>0. /\ TypeOK /\ TypeOK' /\ KindOf(k) /\ GenOf(k) /\ Tunnelled
      /\ job[k].gen \in Nat /\ snapshot.gen \in Nat
  BY TaskType DEF Inv, KindInv, GenInv, TypeOK, Job
<1>00. Return(k) => GenOf(k)'
  BY <1>0, ReturnGen
<1> USE DEF GenOf, ConnectPoints, Refreshes
<1>1. CASE Acquire(k)
  BY <1>0, <1>1 DEF TypeOK, KindOf, Acquire, Goto, runtime
<1>2. CASE ClearRoutes(k)
  BY <1>0, <1>2 DEF TypeOK, ClearRoutes, Continue, Goto
<1>3. CASE Find(k)
  BY <1>0, <1>00, <1>3 DEF TypeOK, Find, Continue, Goto, runtime
<1>4. CASE ShowConnecting(k)
  BY <1>0, <1>4 DEF TypeOK, KindOf, ShowConnecting, NextGeneration, Goto
<1>5. CASE DropSession(k)
  BY <1>0, <1>5 DEF TypeOK, KindOf, DropSession, Continue, Goto
<1>6. CASE LoadStore(k)
  BY <1>0, <1>00, <1>6 DEF TypeOK, KindOf, Job, LoadStore, Goto, runtime
<1>7. CASE SaveActive(k)
  BY <1>0, <1>00, <1>7 DEF TypeOK, KindOf, Job, SaveActive, Continue, Goto
<1>8. CASE Connect(k)
  BY <1>0, <1>00, <1>8 DEF TypeOK, KindOf, Connect, Continue, Goto
<1>9. CASE ShowOnline(k)
  BY <1>0, <1>9 DEF TypeOK, KindOf, ShowOnline, Continue, Goto
<1>10. CASE Observe(k)
  BY <1>0, <1>10 DEF TypeOK, KindOf, Observe, Goto, runtime
<1>11. CASE UseLocal(k)
  BY <1>00, <1>11 DEF UseLocal
<1>12. CASE Check(k)
  BY <1>0, <1>00, <1>12 DEF TypeOK, KindOf, Check, Current, Continue, Goto, runtime
<1>13. CASE Withdraw(k)
  BY <1>0, <1>13 DEF TypeOK, KindOf, Withdraw, Continue, Goto
<1>14. CASE Invoke(k)
  BY <1>0, <1>00, <1>14 DEF TypeOK, KindOf, Invoke, Current, Continue, Goto, runtime
<1>15. CASE CloneSession(k)
  BY <1>0, <1>00, <1>15 DEF TypeOK, KindOf, Job, Generational, Locking, Tunnelled, CloneSession, Goto, runtime
<1>16. CASE Answer(k)
  BY <1>0, <1>00, <1>16 DEF TypeOK, KindOf, Job, Answer, Accepts, Current, Continue, Goto, runtime
<1>17. CASE Publish(k)
  BY <1>00, <1>17 DEF Publish
<1> QED
  BY <1>1, <1>2, <1>3, <1>4, <1>5, <1>6, <1>7, <1>8, <1>9, <1>10, <1>11, <1>12, <1>13, <1>14, <1>15, <1>16, <1>17 DEF Proceed

\* While nobody has deleted a target, every step keeps the invariant.
LEMMA NextSwitch == SwitchInv /\ [Next]_vars /\ deleted' = 0 => SwitchInv'
<1> SUFFICES ASSUME SwitchInv, [Next]_vars, deleted' = 0 PROVE SwitchInv'
  OBVIOUS
<1> USE DEF SwitchInv
<1>0. Inv' /\ TypeOK
  BY NextInv DEF Inv
<1>1. CASE UNCHANGED vars
  BY <1>0, <1>1 DEF OnlySaves, Tunnelled, GenInv, GenOf, vars, runtime
<1>2. ASSUME NEW k \in Tasks, Acquire(k) \/ Proceed(k)
      PROVE  SwitchInv'
  <2>1. OnlySaves'
    BY <1>2 DEF OnlySaves, Acquire, Proceed, ClearRoutes, Find, ShowConnecting, DropSession,
       LoadStore, SaveActive, Connect, ShowOnline, Observe, UseLocal, Check, Withdraw,
       Invoke, CloneSession, Answer, Publish
  <2>2. Tunnelled'
    BY <1>2, Shows DEF Tunnelled
  <2>3. GenInv'
    BY <1>2, OwnGen, OthersGen DEF GenInv
  <2> QED BY <1>0, <2>1, <2>2, <2>3
<1>3. ASSUME NEW k \in Tasks, Asks(k)
      PROVE  SwitchInv'
  <2>1. PICK j \in Job, point \in Point : Ask(k, j, point) /\ Fits(j, point)
    BY <1>0, <1>3, AsksFit
  <2>2. UNCHANGED <<snapshot, session, main>>
    BY <2>1 DEF Ask, runtime
  <2>3. ASSUME NEW q \in Tasks PROVE GenOf(q)'
    <3>1. CASE q = k
      <4>1. pc'[k] = point /\ job'[k] = j
        BY <1>0, <2>1 DEF TypeOK, Ask, Goto
      <4> QED BY <2>1, <2>2, <3>1, <4>1 DEF Fits, Locking, GenOf, ConnectPoints, Refreshes
    <3>2. CASE q # k
      BY <1>0, <2>1, <2>2, <3>2 DEF TypeOK, Ask, Goto, GenInv, GenOf
    <3> QED BY <3>1, <3>2
  <2> QED BY <1>0, <2>2, <2>3 DEF GenInv, Tunnelled, OnlySaves
<1>7. ASSUME UNCHANGED <<snapshot, session, pc, job>>, OnlySaves'
      PROVE  SwitchInv'
  BY <1>0, <1>7 DEF Tunnelled, GenInv, GenOf
<1>8. CASE \E t \in Targets : Upsert(t) \/ Delete(t)
  <2>1. PICK t \in Targets : MainStarts("upsert", t)
    BY <1>0, <1>8 DEF TypeOK, Upsert, Delete
  <2> QED BY <1>7, <2>1 DEF MainStarts, OnlySaves, runtime
<1>9. CASE MainThread
  <2>1. SaveUpsert \/ MainFails
    BY <1>9 DEF MainThread, OnlySaves, SaveDelete, ReadActive, DropActive, ShowLocal
  <2> QED BY <1>7, <2>1 DEF SaveUpsert, MainFails, Resting, OnlySaves, runtime
<1> QED
  BY <1>1, <1>2, <1>3, <1>8, <1>9 DEF Next
\* What holds as long as nobody has deleted a target, and once somebody has.
Undeleted == deleted = 0 => SwitchInv

\* A deletion is never taken back.
LEMMA NextDeleted == TypeOK /\ [Next]_vars /\ deleted' = 0 => deleted = 0
<1> SUFFICES ASSUME TypeOK, [Next]_vars PROVE deleted' \in {deleted, deleted + 1}
  BY DEF TypeOK
<1> USE DEF history
<1>1. ASSUME NEW k \in Tasks, Asks(k) PROVE deleted' = deleted
  BY <1>1 DEF Asks, AskSwitch, AskLocal, Command, Exchange
<1>2. ASSUME NEW k \in Tasks, Acquire(k) \/ Proceed(k) PROVE deleted' = deleted
  BY <1>2 DEF Acquire, Proceed, ClearRoutes, Find, ShowConnecting, DropSession,
     LoadStore, SaveActive, Connect, ShowOnline, Observe, UseLocal, Check, Withdraw,
     Invoke, CloneSession, Answer, Publish
<1>3. CASE MainThread
  BY <1>3 DEF MainThread, SaveUpsert, SaveDelete, MainFails, ReadActive, DropActive, ShowLocal
<1>4. CASE \E t \in Targets : Upsert(t) \/ Delete(t)
  BY <1>4 DEF Upsert, Delete
<1>5. CASE UNCHANGED vars
  BY <1>5 DEF vars
<1> QED
  BY <1>1, <1>2, <1>3, <1>4, <1>5 DEF Next

LEMMA UndeletedInvariance == Spec => []Undeleted
<1>1. Init => Undeleted
  BY InitSwitch DEF Undeleted
<1>2. TypeOK /\ Undeleted /\ [Next]_vars => Undeleted'
  BY NextSwitch, NextDeleted DEF Undeleted
<1> QED
  BY <1>1, <1>2, TypeCorrect, PTL DEF Spec
-----------------------------------------------------------------------------
(* The theorems.                                                           *)

\* As long as nobody has deleted a target, an answer is taken only if it came from
\* the host the caller saw when it asked, or named, and that host is still shown,
\* for any number of switches, exchanges and commands under way (invoke_remote).
THEOREM AnswersFromTheirHost == Spec => []NoCrossTalk
<1>1. Undeleted => NoCrossTalk
  <2> SUFFICES ASSUME SwitchInv, NEW k \in Tasks, At(k, "answer"), Accepts(k)
               PROVE  job[k].session = job[k].target /\ snapshot.target = job[k].target
    BY DEF Undeleted, NoCrossTalk
  <2> QED
    BY DEF SwitchInv, Inv, TypeOK, Job, Generational, Locking, KindInv, KindOf, GenInv, GenOf,
       Refreshes, At, Accepts, Current
<1> QED
  BY <1>1, UndeletedInvariance, PTL

\* As long as nobody has deleted a target, a provider command of remote_invoke is
\* sent to the host its caller saw, and to no other, for any number of switches and
\* exchanges under way (remote_invoke under provider_operations).
THEOREM CommandsReachTheirHost == Spec => []CommandReachesItsHost
<1>1. Undeleted => CommandReachesItsHost
  BY DEF Undeleted, SwitchInv, GenInv, GenOf, At, CommandReachesItsHost
<1> QED
  BY <1>1, UndeletedInvariance, PTL
=============================================================================
