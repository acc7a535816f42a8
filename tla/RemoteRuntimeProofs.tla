-------------------------- MODULE RemoteRuntimeProofs --------------------------
(***************************************************************************)
(* Proofs about the remote runtime, for any targets and any number of      *)
(* tasks, with deletions and with failures of the target store.            *)
(***************************************************************************)
EXTENDS RemoteRuntime, TLAPS

\* A task at work that had to wait for the lock.
Holding(k) == pc[k] \notin {"idle", "wait"} /\ job[k].kind \notin {"exchange", "other"}

\* What kind of job can be at a point.
KindOf(k) ==
    /\ job[k].kind = "switch" => job[k].target # None
    /\ job[k].kind \in {"read", "exchange", "other"} => ~ job[k].refresh
    /\ pc[k] = "wait" => job[k].kind \in {"switch", "useLocal", "provider", "read"}
    /\ pc[k] \in {"clearRoutes", "find", "connecting", "dropSession", "ssh",
                  "online", "observe"} => job[k].kind = "switch"
    /\ pc[k] \in {"load", "save"} => job[k].kind \in {"switch", "useLocal"}
    /\ pc[k] = "useLocal" => job[k].kind = "useLocal"
    /\ pc[k] = "check" => job[k].kind \in {"provider", "read", "other"}
    /\ pc[k] = "withdraw" => job[k].kind = "provider"
    /\ pc[k] \in {"invoke", "clone", "answer"} => job[k].kind \notin {"none", "useLocal"}
    /\ pc[k] = "publish" => job[k].kind \in {"switch", "provider"}
KindInv == \A k \in Tasks : KindOf(k)

\* The tunnel of an online runtime leads to the target that is shown.
OnlineHost == snapshot.status = "online" /\ session # None => session = snapshot.target

\* The holder of the lock holds it alone; between the connecting snapshot and
\* the online one nothing shows online; from the withdrawal of the route to its
\* publication there is none; and what the holder cloned is still the tunnel and
\* the target, unless one of them is gone.
HoldOf(k) ==
    Holding(k) =>
        /\ lock = k
        /\ job[k].kind = "switch" /\ pc[k] \in {"dropSession", "load", "save", "ssh", "online"}
              => snapshot.status # "online"
        /\ pc[k] = "online" => session \in {None, job[k].target}
        /\ job[k].kind = "switch" /\ pc[k] # "clearRoutes" => route = None
        /\ job[k].kind = "provider" /\ pc[k] \in {"invoke", "clone", "answer", "publish"}
              => route = None
        /\ pc[k] \in {"observe", "withdraw", "invoke", "clone", "answer", "publish"} =>
              (session # None /\ snapshot.target # None => session = snapshot.target)
        /\ pc[k] \in {"answer", "publish"} =>
              /\ job[k].session # None
              /\ session \in {None, job[k].session}
              /\ snapshot.target \in {None, job[k].session}
HoldInv == \A k \in Tasks : HoldOf(k)

\* A target that is being saved is one.
MainInv == main.pc = "upsert" => main.target # None

\* The inductive invariant.
Inv == TypeOK /\ KindInv /\ MainInv /\ OnlineHost /\ HoldInv /\ RouteOfHost
-----------------------------------------------------------------------------
\* The invariant holds in the initial states.
LEMMA InitInv == Init => Inv
<1> SUFFICES ASSUME Init PROVE Inv
  OBVIOUS
<1>1. TypeOK
  BY DEF Init, TypeOK, Document, Host, Status, Point, Job, NoJob, NoDocument, MainPoint, Resting
<1>2. KindInv /\ HoldInv
  BY DEF Init, KindInv, KindOf, HoldInv, HoldOf, Holding, NoJob
<1> QED
  BY <1>1, <1>2 DEF Inv, Init, MainInv, Resting, OnlineHost, RouteOfHost
-----------------------------------------------------------------------------
(* Types.                                                                  *)

\* A task that returns keeps the types.
LEMMA ReturnType ==
    ASSUME TypeOK, NEW k \in Tasks, Return(k)
    PROVE  /\ pc' \in [Tasks -> Point]
           /\ job' \in [Tasks -> Job]
           /\ lock' \in Tasks \cup {None}
  BY DEF TypeOK, Return, Goto, Point, Job, NoJob, NoDocument, Document, Host

\* A step of the command tasks keeps the types.
LEMMA TaskType ==
    ASSUME Inv, NEW k \in Tasks, Acquire(k) \/ Proceed(k)
    PROVE  TypeOK'
<1> USE DEF Inv, history
<1>1. CASE Acquire(k)
  BY <1>1 DEF TypeOK, Acquire, At, Goto, Point, Switching, Invoking, runtime
<1>2. CASE ClearRoutes(k)
  BY <1>2 DEF TypeOK, ClearRoutes, Continue, Goto, Cleared, Point, Switching
<1>3. CASE Find(k)
  BY <1>3, ReturnType DEF TypeOK, Find, Continue, Goto, Point, Switching, runtime
<1>4. CASE ShowConnecting(k)
  <2>1. NextGeneration \in Nat
    BY DEF TypeOK, NextGeneration
  <2>2. job' \in [Tasks -> Job]
    BY <1>4, <2>1 DEF TypeOK, ShowConnecting, Job
  <2>3. snapshot' \in [status : Status, gen : Nat, target : Host]
    BY <1>4, <2>1 DEF TypeOK, ShowConnecting, Job, Status
  <2> QED BY <1>4, <2>2, <2>3 DEF TypeOK, ShowConnecting, Goto, Point, Switching
<1>5. CASE DropSession(k)
  BY <1>5 DEF TypeOK, DropSession, Continue, Goto, Point, Switching, Host
<1>6. CASE LoadStore(k)
  <2>1. job' \in [Tasks -> Job]
    BY <1>6, ReturnType DEF TypeOK, LoadStore, Job
  <2> QED BY <1>6, <2>1, ReturnType DEF TypeOK, LoadStore, Goto, Point, Switching, runtime
<1>7. CASE SaveActive(k)
  <2>1. store' \in Document
    BY <1>7 DEF TypeOK, SaveActive, Activated, Job, Document
  <2>2. NoDocument \in Document
    BY DEF NoDocument, Document, Host
  <2>3. job' \in [Tasks -> Job]
    BY <1>7, <2>2, ReturnType DEF TypeOK, SaveActive, Job
  <2> QED BY <1>7, <2>1, <2>3, ReturnType DEF TypeOK, SaveActive, Goto, Point, Switching
<1>8. CASE Connect(k)
  <2>1. session' \in Host /\ snapshot' \in [status : Status, gen : Nat, target : Host]
    BY <1>8 DEF TypeOK, Connect, Failed, Job, Status
  <2> QED BY <1>8, <2>1, ReturnType DEF TypeOK, Connect, Continue, Goto, Point, Switching
<1>9. CASE ShowOnline(k)
  <2>1. snapshot' \in [status : Status, gen : Nat, target : Host]
    BY <1>9 DEF TypeOK, ShowOnline, Job, Status
  <2> QED BY <1>9, <2>1 DEF TypeOK, ShowOnline, Continue, Goto, Point, Switching
<1>10. CASE Observe(k)
  <2>1. [job[k] EXCEPT !.gen = snapshot.gen, !.refresh = TRUE] \in Job
    BY DEF TypeOK, Job
  <2>2. job' \in [Tasks -> Job]
    BY <1>10, <2>1 DEF TypeOK, Observe
  <2> QED BY <1>10, <2>2 DEF TypeOK, Observe, Goto, Point, Invoking, runtime
<1>11. CASE UseLocal(k)
  <2>1. snapshot' \in [status : Status, gen : Nat, target : Host]
    BY <1>11 DEF TypeOK, UseLocal, NextGeneration, Status, Host
  <2> QED BY <1>11, <2>1, ReturnType DEF TypeOK, UseLocal
<1>12. CASE Check(k)
  BY <1>12, ReturnType DEF TypeOK, Check, Continue, Goto, Point, Invoking, runtime
<1>13. CASE Withdraw(k)
  BY <1>13 DEF TypeOK, Withdraw, Withdrawn, Continue, Goto, Point, Invoking
<1>14. CASE Invoke(k)
  BY <1>14, ReturnType DEF TypeOK, Invoke, Continue, Goto, Point, Invoking, runtime
<1>15. CASE CloneSession(k)
  <2>1. job' \in [Tasks -> Job]
    BY <1>15, ReturnType DEF TypeOK, CloneSession, Job
  <2> QED BY <1>15, <2>1, ReturnType DEF TypeOK, CloneSession, Goto, Point, Invoking, runtime
<1>16. CASE Answer(k)
  <2>1. [job[k] EXCEPT !.refresh = TRUE] \in Job
    BY DEF TypeOK, Job
  <2>2. job' \in [Tasks -> Job]
    <3>1. CASE Return(k)
      BY <3>1, ReturnType
    <3>2. CASE UNCHANGED job
      BY <3>2 DEF TypeOK
    <3>3. CASE job' = [job EXCEPT ![k].refresh = TRUE]
      BY <2>1, <3>3 DEF TypeOK
    <3> QED BY <1>16, <3>1, <3>2, <3>3 DEF Answer, Continue
  <2> QED
    BY <1>16, <2>2, ReturnType DEF TypeOK, Answer, Continue, Goto, Point, Invoking, runtime
<1>17. CASE Publish(k)
  <2>1. Holding(k) /\ job[k].session \in Targets
    BY <1>17 DEF TypeOK, KindInv, KindOf, HoldInv, HoldOf, Holding, Publish, At, Job, Host
  <2>2. route' \in [host : Targets, label : Targets] \cup {None}
    BY <1>17, <2>1 DEF TypeOK, Publish, Publishable, Host
  <2> QED BY <1>17, <2>2, ReturnType DEF TypeOK, Publish
<1> QED
  BY <1>1, <1>2, <1>3, <1>4, <1>5, <1>6, <1>7, <1>8, <1>9, <1>10, <1>11, <1>12, <1>13,
     <1>14, <1>15, <1>16, <1>17 DEF Proceed

\* A job of its kind starts at its point, and a command is for the host that is
\* online when it is asked for.
Fits(j, point) ==
    /\ ~ j.refresh /\ j.gen <= snapshot.gen
    /\ \/ j.kind = "switch" /\ point = "wait" /\ j.target # None
       \/ j.kind = "useLocal" /\ point = "wait" /\ j.target = None
       \/ /\ \/ j.kind \in Locking /\ point = "wait"
             \/ j.kind = "other" /\ point = "check"
             \/ j.kind = "exchange" /\ point = "invoke"
          /\ snapshot.status = "online" /\ j.target = snapshot.target

\* Whatever is asked for becomes such a job.
LEMMA AsksFit ==
    ASSUME TypeOK, NEW k \in Tasks, Asks(k)
    PROVE  \E j \in Job, point \in Point : Ask(k, j, point) /\ Fits(j, point)
<1>0. /\ NoJob \in Job /\ snapshot.gen \in Nat /\ snapshot.target \in Host
      /\ {"wait", "check", "invoke"} \subseteq Point
  BY DEF TypeOK, NoJob, Job, Host, NoDocument, Document, Point, Invoking
<1>1. ASSUME NEW t \in Targets, AskSwitch(k, t)
      PROVE  \E j \in Job, point \in Point : Ask(k, j, point) /\ Fits(j, point)
  <2> DEFINE j == [NoJob EXCEPT !.kind = "switch", !.target = t]
  <2>0. j.kind = "switch" /\ j.target = t /\ j.gen = 0 /\ ~ j.refresh
    BY DEF NoJob
  <2>1. j \in Job
    BY <1>0 DEF Job, Host
  <2>2. Ask(k, j, "wait")
    BY <1>1 DEF AskSwitch
  <2> HIDE DEF j
  <2>3. Fits(j, "wait")
    BY <1>0, <2>0, NoneAssumption DEF Fits
  <2> QED BY <1>0, <2>1, <2>2, <2>3
<1>2. ASSUME NEW t \in Targets, Exchange(k, t)
      PROVE  \E j \in Job, point \in Point : Ask(k, j, point) /\ Fits(j, point)
  <2> DEFINE j == [NoJob EXCEPT !.kind = "exchange", !.gen = snapshot.gen, !.target = t]
  <2>0. j.kind = "exchange" /\ j.target = t /\ j.gen = snapshot.gen /\ ~ j.refresh
    BY DEF NoJob
  <2>1. j \in Job
    BY <1>0 DEF Job, Host
  <2>2. Ask(k, j, "invoke")
    BY <1>2 DEF Exchange
  <2> HIDE DEF j
  <2>3. Fits(j, "invoke")
    BY <1>0, <1>2, <2>0 DEF Exchange, Fits
  <2> QED BY <1>0, <2>1, <2>2, <2>3
<1>3. ASSUME NEW kind \in Generational, Command(k, kind)
      PROVE  \E j \in Job, point \in Point : Ask(k, j, point) /\ Fits(j, point)
  <2> DEFINE j == [NoJob EXCEPT !.kind = kind, !.gen = snapshot.gen, !.target = snapshot.target]
             point == IF kind \in Locking THEN "wait" ELSE "check"
  <2>1. j \in Job /\ point \in Point
    BY <1>0 DEF NoJob, Job
  <2>2. Fits(j, point)
    BY <1>0, <1>3 DEF Command, Fits, NoJob, Generational
  <2>3. Ask(k, j, point)
    BY <1>3 DEF Command
  <2> HIDE DEF j, point
  <2> QED BY <2>1, <2>2, <2>3
<1>4. ASSUME AskLocal(k)
      PROVE  \E j \in Job, point \in Point : Ask(k, j, point) /\ Fits(j, point)
  <2> DEFINE j == [NoJob EXCEPT !.kind = "useLocal"]
  <2>0. j.kind = "useLocal" /\ j.target = None /\ j.gen = 0 /\ ~ j.refresh
    BY DEF NoJob
  <2>1. j \in Job
    BY <1>0 DEF Job
  <2>2. Ask(k, j, "wait")
    BY <1>4 DEF AskLocal
  <2> HIDE DEF j
  <2>3. Fits(j, "wait")
    BY <1>0, <2>0 DEF Fits
  <2> QED BY <1>0, <2>1, <2>2, <2>3
<1> QED
  BY <1>1, <1>2, <1>3, <1>4 DEF Asks

\* Requests and the main thread keep the types.
LEMMA OtherType ==
    ASSUME Inv,
           \/ \E k \in Tasks : Asks(k)
           \/ \E t \in Targets : Upsert(t) \/ Delete(t)
           \/ MainThread
    PROVE  TypeOK'
<1> USE DEF Inv, history
<1>1. CASE \E k \in Tasks : Asks(k)
  <2>1. PICK k \in Tasks : Asks(k)
    BY <1>1
  <2>2. PICK j \in Job, point \in Point : Ask(k, j, point)
    BY <2>1, AsksFit
  <2>3. asked' \in Nat /\ deleted' \in Nat
    <3>1. UNCHANGED deleted /\ (UNCHANGED asked \/ asked' = asked + 1)
      BY <2>1 DEF Asks, AskSwitch, AskLocal, Command, Exchange
    <3> QED BY <3>1 DEF TypeOK
  <2>4. pc' \in [Tasks -> Point] /\ job' \in [Tasks -> Job] /\ UNCHANGED <<runtime, lock, main>>
    BY <2>2 DEF TypeOK, Ask, Goto
  <2> QED BY <2>3, <2>4 DEF TypeOK, runtime
<1>4. CASE \E t \in Targets : Upsert(t) \/ Delete(t)
  <2>1. PICK t \in Targets : MainStarts("upsert", t) \/ MainStarts("delete", t)
    BY <1>4 DEF Upsert, Delete
  <2>2. asked' \in Nat /\ deleted' \in Nat
    BY <1>4 DEF TypeOK, Upsert, Delete
  <2> QED BY <2>1, <2>2 DEF TypeOK, MainStarts, MainPoint, Host, runtime
<1>5. CASE MainThread
  <2>0. Resting \in [pc : MainPoint, target : Host, gen : Nat, doc : Document]
    BY DEF Resting, MainPoint, Host, Document, NoDocument
  <2>00. (main.pc = "upsert" => Upserted \in Document) /\ Deleted \in Document
    BY DEF TypeOK, MainInv, Upserted, Deleted, Document, Host
  <2>1. CASE SaveUpsert
    BY <2>0, <2>00, <2>1 DEF TypeOK, SaveUpsert
  <2>2. CASE SaveDelete
    <3>1. NoDocument \in Document /\ "read" \in MainPoint
      BY DEF NoDocument, Document, Host, MainPoint
    <3> QED BY <2>00, <2>2, <3>1 DEF TypeOK, SaveDelete
  <2>3. CASE MainFails
    BY <2>0, <2>00, <2>3 DEF TypeOK, MainFails
  <2>4. CASE ReadActive
    <3>0. snapshot.gen + 1 \in Nat /\ "drop" \in MainPoint
      BY DEF TypeOK, MainPoint
    <3>1. [Resting EXCEPT !.pc = "drop", !.gen = snapshot.gen + 1]
            \in [pc : MainPoint, target : Host, gen : Nat, doc : Document]
      BY <2>0, <3>0
    <3> QED BY <2>0, <2>4, <3>1 DEF TypeOK, ReadActive, runtime
  <2>5. CASE DropActive
    BY <2>5 DEF TypeOK, DropActive, MainPoint, Host
  <2>6. CASE ShowLocal
    BY <2>0, <2>6 DEF TypeOK, ShowLocal, Status, Host
  <2> QED BY <1>5, <2>1, <2>2, <2>3, <2>4, <2>5, <2>6 DEF MainThread
<1> QED
  BY <1>1, <1>4, <1>5
-----------------------------------------------------------------------------
(* The other conjuncts.                                                    *)

\* A step of one task moves no other.
LEMMA Frame ==
    ASSUME TypeOK, NEW k \in Tasks, NEW q \in Tasks, q # k, Acquire(k) \/ Proceed(k)
    PROVE  pc'[q] = pc[q] /\ job'[q] = job[q]
<1> USE DEF TypeOK, Goto, Return, Continue
<1>1. CASE Acquire(k)
  BY <1>1 DEF Acquire
<1>2. CASE ClearRoutes(k) \/ Find(k) \/ ShowConnecting(k) \/ DropSession(k)
  BY <1>2 DEF ClearRoutes, Find, ShowConnecting, DropSession
<1>3. CASE LoadStore(k) \/ SaveActive(k) \/ Connect(k) \/ ShowOnline(k)
  BY <1>3 DEF LoadStore, SaveActive, Connect, ShowOnline
<1>4. CASE Observe(k) \/ UseLocal(k) \/ Check(k) \/ Withdraw(k)
  BY <1>4 DEF Observe, UseLocal, Check, Withdraw
<1>5. CASE Invoke(k) \/ CloneSession(k) \/ Answer(k) \/ Publish(k)
  BY <1>5 DEF Invoke, CloneSession, Answer, Publish
<1> QED
  BY <1>1, <1>2, <1>3, <1>4, <1>5 DEF Proceed

\* A command that does not hold the lock changes neither it nor the runtime.
LEMMA OtherFrame ==
    ASSUME Inv, NEW k \in Tasks, Proceed(k), ~ Holding(k)
    PROVE  UNCHANGED runtime
<1>1. job[k].kind \in {"exchange", "other"} /\ pc[k] \in {"check", "invoke", "clone", "answer"}
  BY DEF Inv, KindInv, KindOf, Holding, Proceed, At, ClearRoutes, Find, ShowConnecting, DropSession,
         LoadStore, SaveActive, Connect, ShowOnline, Observe, UseLocal, Check, Withdraw,
         Invoke, CloneSession, Answer, Publish
<1> QED
  BY <1>1 DEF Proceed, At, ClearRoutes, Find, ShowConnecting, DropSession, LoadStore,
              SaveActive, Connect, ShowOnline, Observe, UseLocal, Check, Withdraw, Invoke,
              CloneSession, Answer, Publish

\* What the holder of the lock relies on survives the steps of the others.
LEMMA OthersHold ==
    ASSUME Inv, NEW k \in Tasks, NEW q \in Tasks, q # k, Acquire(k) \/ Proceed(k)
    PROVE  HoldOf(q)'
<1> USE DEF Inv, HoldInv
<1>1. pc'[q] = pc[q] /\ job'[q] = job[q]
  BY Frame
<1>2. CASE ~ Holding(q)
  BY <1>1, <1>2 DEF HoldOf, Holding
<1>3. CASE Holding(q)
  <2>1. lock = q /\ HoldOf(q)
    BY <1>3 DEF HoldOf
  <2>2. ~ Acquire(k)
    BY <2>1, NoneAssumption DEF Acquire, MayEnter
  <2>3. ~ Holding(k)
    BY <2>1 DEF HoldOf
  <2>4. UNCHANGED runtime
    BY <2>2, <2>3, OtherFrame
  <2>5. lock' = lock
    BY <2>1, <2>2, <2>3 DEF Proceed, Return, Continue, ClearRoutes, Find, ShowConnecting,
       DropSession, LoadStore, SaveActive, Connect, ShowOnline, Observe, UseLocal, Check,
       Withdraw, Invoke, CloneSession, Answer, Publish
  <2> QED BY <1>1, <2>1, <2>4, <2>5 DEF HoldOf, Holding, runtime
<1> QED
  BY <1>2, <1>3

\* A task that returns has no job and holds nothing.
LEMMA ReturnHold ==
    ASSUME TypeOK, NEW k \in Tasks, Return(k)
    PROVE  KindOf(k)' /\ HoldOf(k)'
  BY DEF TypeOK, Return, Goto, KindOf, HoldOf, Holding, NoJob

\* A step of a task keeps what it relies on itself, the tunnel and the route.
LEMMA TaskHold ==
    ASSUME Inv, NEW k \in Tasks, Acquire(k) \/ Proceed(k)
    PROVE  KindOf(k)' /\ HoldOf(k)' /\ OnlineHost' /\ RouteOfHost' /\ MainInv'
<1> USE DEF Inv, At
<1>0. TypeOK /\ KindOf(k) /\ HoldOf(k) /\ OnlineHost /\ RouteOfHost /\ MainInv
  BY DEF KindInv, HoldInv
<1> USE DEF KindOf, HoldOf, Holding
<1>1. CASE Acquire(k)
  BY <1>0, <1>1, ReturnHold, NoneAssumption DEF TypeOK, OnlineHost, RouteOfHost, MainInv, Acquire, MayEnter, Goto, runtime
<1>2. CASE ClearRoutes(k)
  BY <1>0, <1>2, ReturnHold, NoneAssumption DEF TypeOK, OnlineHost, RouteOfHost, MainInv, ClearRoutes, Cleared, Continue, Goto
<1>3. CASE Find(k)
  BY <1>0, <1>3, ReturnHold, NoneAssumption DEF TypeOK, OnlineHost, RouteOfHost, MainInv, Find, Continue, Goto, runtime
<1>4. CASE ShowConnecting(k)
  BY <1>0, <1>4, ReturnHold, NoneAssumption DEF TypeOK, OnlineHost, RouteOfHost, MainInv, ShowConnecting, Goto
<1>5. CASE DropSession(k)
  BY <1>0, <1>5, ReturnHold, NoneAssumption DEF TypeOK, OnlineHost, RouteOfHost, MainInv, DropSession, Continue, Goto
<1>6. CASE LoadStore(k)
  BY <1>0, <1>6, ReturnHold, NoneAssumption DEF TypeOK, OnlineHost, RouteOfHost, MainInv,
       Job, LoadStore, Goto, runtime
<1>7. CASE SaveActive(k)
  BY <1>0, <1>7, ReturnHold, NoneAssumption DEF TypeOK, Job, OnlineHost, RouteOfHost, MainInv, SaveActive, Goto
<1>8. CASE Connect(k)
  BY <1>0, <1>8, ReturnHold, NoneAssumption DEF TypeOK, OnlineHost, RouteOfHost, MainInv, Connect, Failed, Continue, Goto
<1>9. CASE ShowOnline(k)
  BY <1>0, <1>9, ReturnHold, NoneAssumption DEF TypeOK, OnlineHost, RouteOfHost, MainInv, ShowOnline, Continue, Goto
<1>10. CASE Observe(k)
  BY <1>0, <1>10, ReturnHold, NoneAssumption DEF TypeOK, OnlineHost, RouteOfHost, MainInv, Observe, Goto, runtime
<1>11. CASE UseLocal(k)
  BY <1>0, <1>11, ReturnHold, NoneAssumption DEF TypeOK, OnlineHost, RouteOfHost, MainInv, UseLocal
<1>12. CASE Check(k)
  BY <1>0, <1>12, ReturnHold, NoneAssumption DEF TypeOK, OnlineHost, RouteOfHost, MainInv, Check, Current, Continue, Goto, runtime
<1>13. CASE Withdraw(k)
  BY <1>0, <1>13, ReturnHold, NoneAssumption DEF TypeOK, OnlineHost, RouteOfHost, MainInv, Withdraw, Withdrawn, Continue, Goto
<1>14. CASE Invoke(k)
  BY <1>0, <1>14, ReturnHold, NoneAssumption DEF TypeOK, OnlineHost, RouteOfHost, MainInv, Invoke, Continue, Goto, runtime
<1>15. CASE CloneSession(k)
  BY <1>0, <1>15, ReturnHold, NoneAssumption DEF TypeOK, OnlineHost, RouteOfHost, MainInv,
       Job, CloneSession, Goto, runtime
<1>16. CASE Answer(k)
  BY <1>0, <1>16, ReturnHold, NoneAssumption DEF TypeOK, OnlineHost, RouteOfHost, MainInv,
       Job, Generational, Locking, Answer, Continue, Goto, runtime
<1>17. CASE Publish(k)
  BY <1>0, <1>17, ReturnHold, NoneAssumption DEF TypeOK, OnlineHost, RouteOfHost, MainInv, Publish, Publishable
<1> QED
  BY <1>1, <1>2, <1>3, <1>4, <1>5, <1>6, <1>7, <1>8, <1>9, <1>10, <1>11, <1>12, <1>13, <1>14, <1>15, <1>16, <1>17 DEF Proceed

\* Requests and the main thread keep what the tasks rely on: the main thread can
\* only take the tunnel down and show this machine.
LEMMA OtherHold ==
    ASSUME Inv,
           \/ \E k \in Tasks : Asks(k)
           \/ \E t \in Targets : Upsert(t) \/ Delete(t)
           \/ MainThread
    PROVE  KindInv' /\ HoldInv' /\ OnlineHost' /\ RouteOfHost' /\ MainInv'
<1> USE DEF Inv
<1>1. CASE \E k \in Tasks : Asks(k)
  <2>1. PICK k \in Tasks : Asks(k)
    BY <1>1
  <2>2. PICK j \in Job, point \in Point : Ask(k, j, point) /\ Fits(j, point)
    BY <2>1, AsksFit
  <2>3. ASSUME NEW q \in Tasks
        PROVE  KindOf(q)' /\ HoldOf(q)'
    <3>1. CASE q = k
      <4>1. pc'[k] = point /\ job'[k] = j
        BY <2>2 DEF TypeOK, Ask, Goto
      <4> QED
        BY <2>2, <3>1, <4>1 DEF Fits, Locking, KindOf, HoldOf, Holding
    <3>2. CASE q # k
      BY <2>2, <3>2 DEF TypeOK, Ask, Goto, KindInv, KindOf, HoldInv, HoldOf, Holding, runtime
    <3> QED BY <3>1, <3>2
  <2> QED BY <2>2, <2>3 DEF KindInv, HoldInv, OnlineHost, RouteOfHost, MainInv, Ask, runtime
<1>5. CASE \E t \in Targets : Upsert(t) \/ Delete(t)
  <2>1. PICK t \in Targets : MainStarts("upsert", t) \/ MainStarts("delete", t)
    BY <1>5 DEF Upsert, Delete
  <2>2. UNCHANGED <<runtime, lock, pc, job>> /\ MainInv'
    BY <2>1, NoneAssumption DEF MainStarts, MainInv
  <2> QED
    BY <2>2 DEF KindInv, KindOf, HoldInv, HoldOf, Holding, OnlineHost, RouteOfHost, runtime
<1>6. CASE MainThread
  <2>1. UNCHANGED <<route, lock, pc, job>>
    BY <1>6 DEF MainThread, SaveUpsert, SaveDelete, MainFails, ReadActive, DropActive,
                ShowLocal, runtime
  <2>2. KindInv'
    BY <2>1 DEF KindInv, KindOf
  <2>3. main'.pc # "upsert"
    <3>1. CASE SaveUpsert \/ MainFails \/ ShowLocal
      BY <3>1 DEF SaveUpsert, MainFails, ShowLocal, Resting
    <3>2. CASE SaveDelete \/ DropActive
      BY <3>2 DEF TypeOK, SaveDelete, DropActive
    <3>3. CASE ReadActive
      <4>1. [Resting EXCEPT !.pc = "drop", !.gen = snapshot.gen + 1].pc = "drop"
        BY DEF TypeOK
      <4> QED BY <3>3, <4>1 DEF ReadActive, Resting
    <3> QED BY <1>6, <3>1, <3>2, <3>3 DEF MainThread
  <2>4. \/ UNCHANGED <<snapshot, session>>
        \/ UNCHANGED snapshot /\ session' = None
        \/ UNCHANGED session /\ snapshot'.status = "local" /\ snapshot'.target = None
    BY <1>6 DEF MainThread, SaveUpsert, SaveDelete, MainFails, ReadActive, DropActive,
                ShowLocal, runtime
  <2>5. OnlineHost' /\ RouteOfHost'
    BY <2>1, <2>4 DEF OnlineHost, RouteOfHost
  <2>6. HoldInv'
    BY <2>1, <2>4 DEF HoldInv, HoldOf, Holding
  <2> QED BY <2>2, <2>3, <2>5, <2>6 DEF MainInv
<1> QED
  BY <1>1, <1>5, <1>6

\* Every step keeps the invariant.
LEMMA NextInv == Inv /\ [Next]_vars => Inv'
<1> SUFFICES ASSUME Inv, [Next]_vars PROVE Inv'
  OBVIOUS
<1>1. CASE UNCHANGED vars
  BY <1>1 DEF history, Inv, TypeOK, KindInv, KindOf, MainInv, OnlineHost, HoldInv, HoldOf, Holding,
              RouteOfHost, vars, runtime
<1>2. CASE \E k \in Tasks : Acquire(k) \/ Proceed(k)
  <2>1. PICK k \in Tasks : Acquire(k) \/ Proceed(k)
    BY <1>2
  <2>2. TypeOK' /\ KindOf(k)' /\ HoldOf(k)' /\ OnlineHost' /\ RouteOfHost' /\ MainInv'
    BY <2>1, TaskType, TaskHold
  <2>3. ASSUME NEW q \in Tasks, q # k
        PROVE  KindOf(q)' /\ HoldOf(q)'
    <3>1. HoldOf(q)'
      BY <2>1, <2>3, OthersHold
    <3>2. pc'[q] = pc[q] /\ job'[q] = job[q]
      BY <2>1, <2>3, Frame DEF Inv
    <3> QED BY <3>1, <3>2 DEF Inv, KindInv, KindOf
  <2> QED BY <2>2, <2>3 DEF Inv, KindInv, HoldInv
<1>3. CASE ~ \E k \in Tasks : Acquire(k) \/ Proceed(k)
  <2>1. CASE Next
    <3>1. \/ \E k \in Tasks : Asks(k)
          \/ \E t \in Targets : Upsert(t) \/ Delete(t)
          \/ MainThread
      BY <1>3, <2>1 DEF Next
    <3> QED BY <3>1, OtherType, OtherHold DEF Inv
  <2> QED BY <1>1, <2>1
<1> QED
  BY <1>2, <1>3
-----------------------------------------------------------------------------
(* The documents of the target store, and the holder of the lock.          *)

\* A document whose active target is one of its list.
Sound(d) == d.active \in d.targets \cup {None}

\* What a task is about to save is sound, whatever has been saved meanwhile.
SavesSound(k) ==
    /\ job[k].kind = "useLocal" => job[k].target = None
    /\ pc[k] = "save" => Sound(job[k].doc) /\ job[k].target \in job[k].doc.targets \cup {None}

\* The inductive invariant for the store and the lock.
DocumentInv ==
    /\ StoreConsistent
    /\ main.pc \in {"upsert", "delete"} => Sound(main.doc)
    /\ \A k \in Tasks : SavesSound(k)
    /\ HolderWorks

LEMMA InitDocument == Init => DocumentInv
<1> SUFFICES ASSUME Init PROVE DocumentInv
  OBVIOUS
<1> QED
  BY NoneAssumption DEF Init, DocumentInv, StoreConsistent, SavesSound, HolderWorks, Resting, NoJob

\* A task that returns gives the lock back.
LEMMA ReturnDocument ==
    ASSUME TypeOK, DocumentInv, NEW k \in Tasks, Return(k)
    PROVE  SavesSound(k)' /\ lock' # k
  BY NoneAssumption DEF TypeOK, Return, Goto, SavesSound, NoJob

\* A step of a task keeps the store sound, saves nothing unsound and keeps at work
\* while it holds the lock.
LEMMA OwnStep ==
    ASSUME Inv, DocumentInv, NEW k \in Tasks, Acquire(k) \/ Proceed(k)
    PROVE  /\ StoreConsistent' /\ main' = main
           /\ SavesSound(k)'
           /\ lock' = k => pc'[k] \notin {"idle", "wait"}
           /\ lock' \in {lock, k, None}
<1> USE DEF Inv, At
<1>0. TypeOK /\ KindOf(k) /\ StoreConsistent /\ SavesSound(k)
  BY DEF KindInv, DocumentInv
<1>00. Return(k) => SavesSound(k)' /\ lock' # k /\ lock' \in {lock, None}
  BY <1>0, ReturnDocument DEF Return
<1>1. CASE Acquire(k)
  BY <1>0, <1>1 DEF TypeOK, KindOf, Acquire, Goto, SavesSound, StoreConsistent, runtime
<1>2. CASE ClearRoutes(k) \/ DropSession(k) \/ ShowOnline(k)
  <2>1. pc'[k] \in {"find", "load", "observe"} /\ UNCHANGED <<store, main, job, lock>>
    BY <1>0, <1>2 DEF TypeOK, ClearRoutes, DropSession, ShowOnline, Continue, Goto
  <2> QED BY <1>0, <2>1 DEF SavesSound, StoreConsistent
<1>10. CASE ShowConnecting(k)
  <2>1. /\ pc'[k] = "dropSession" /\ UNCHANGED <<store, main, lock>>
        /\ job'[k].kind = job[k].kind /\ job'[k].target = job[k].target
    BY <1>0, <1>10 DEF TypeOK, Job, ShowConnecting, Goto
  <2> QED BY <1>0, <2>1 DEF SavesSound, StoreConsistent
<1>3. CASE Find(k)
  BY <1>0, <1>00, <1>3 DEF TypeOK, Find, Continue, Goto, SavesSound, StoreConsistent, runtime
<1>4. CASE LoadStore(k)
  <2>1. CASE Return(k)
    BY <1>0, <1>00, <1>4, <2>1 DEF LoadStore, StoreConsistent, runtime
  <2>2. CASE ~ Return(k)
    <3>1. /\ job' = [job EXCEPT ![k].doc = store] /\ pc' = [pc EXCEPT ![k] = "save"]
          /\ UNCHANGED <<runtime, lock, main>>
          /\ job[k].kind = "switch" => job[k].target \in store.targets
      BY <1>4, <2>2 DEF LoadStore, Goto
    <3>2. /\ job'[k].doc = store /\ job'[k].target = job[k].target /\ job'[k].kind = job[k].kind
          /\ pc'[k] = "save"
      BY <1>0, <3>1 DEF TypeOK, Job
    <3>3. job[k].target \in store.targets \cup {None}
      BY <1>0, <1>4, <3>1 DEF LoadStore, KindOf, SavesSound
    <3> QED BY <1>0, <3>1, <3>2, <3>3 DEF SavesSound, Sound, StoreConsistent, runtime
  <2> QED BY <2>1, <2>2
<1>5. CASE SaveActive(k)
  <2>1. Activated(k).active \in Activated(k).targets \cup {None}
    BY <1>0, <1>5 DEF SaveActive, Activated, TypeOK, Job, Document, SavesSound
  <2>2. StoreConsistent' /\ main' = main
    BY <1>0, <1>5, <2>1 DEF SaveActive, StoreConsistent
  <2>3. CASE Return(k)
    BY <1>00, <2>2, <2>3
  <2>4. CASE ~ Return(k)
    <3>1. /\ pc'[k] \in {"ssh", "useLocal"} /\ UNCHANGED lock
          /\ job'[k].kind = job[k].kind /\ job'[k].target = job[k].target
      BY <1>0, <1>5, <2>4 DEF SaveActive, Goto, TypeOK, Job
    <3> QED BY <1>0, <2>2, <3>1 DEF SavesSound
  <2> QED BY <2>3, <2>4
<1>6. CASE Connect(k) \/ UseLocal(k) \/ Publish(k)
  BY <1>0, <1>00, <1>6 DEF TypeOK, Connect, UseLocal, Publish, Continue, Goto, SavesSound,
     StoreConsistent
<1>7. CASE Observe(k)
  BY <1>0, <1>7 DEF TypeOK, Job, KindOf, Observe, Goto, SavesSound, StoreConsistent, runtime
<1>8. CASE Check(k) \/ Withdraw(k) \/ Invoke(k)
  BY <1>0, <1>00, <1>8 DEF TypeOK, Check, Withdraw, Invoke, Continue, Goto, SavesSound,
     StoreConsistent, runtime
<1>9. CASE CloneSession(k) \/ Answer(k)
  BY <1>0, <1>00, <1>9 DEF TypeOK, Job, CloneSession, Answer, Continue, Goto, SavesSound,
     StoreConsistent, runtime
<1> QED
  BY <1>1, <1>2, <1>3, <1>4, <1>5, <1>6, <1>7, <1>8, <1>9, <1>10 DEF Proceed

\* Every step keeps the store sound and the lock in use.
LEMMA NextDocument == Inv /\ DocumentInv /\ [Next]_vars => DocumentInv'
<1> SUFFICES ASSUME Inv, DocumentInv, [Next]_vars PROVE DocumentInv'
  OBVIOUS
<1>0. TypeOK
  BY DEF Inv
<1>1. CASE UNCHANGED vars
  BY <1>1 DEF DocumentInv, StoreConsistent, SavesSound, HolderWorks, vars, runtime
<1>2. ASSUME NEW k \in Tasks, Acquire(k) \/ Proceed(k)
      PROVE  DocumentInv'
  <2>1. ASSUME NEW q \in Tasks, q # k
        PROVE  SavesSound(q)' /\ (lock' = q => pc'[q] \notin {"idle", "wait"})
    <3>1. pc'[q] = pc[q] /\ job'[q] = job[q]
      BY <1>0, <1>2, <2>1, Frame
    <3>2. lock' = q => lock = q
      BY <1>2, <2>1, OwnStep, NoneAssumption
    <3> QED BY <3>1, <3>2 DEF DocumentInv, SavesSound, HolderWorks
  <2> QED BY <1>2, <2>1, OwnStep DEF DocumentInv, HolderWorks
<1>4. CASE \E k \in Tasks : Asks(k)
  <2>1. PICK k \in Tasks : Asks(k)
    BY <1>4
  <2>2. PICK j \in Job, point \in Point : Ask(k, j, point) /\ Fits(j, point)
    BY <1>0, <2>1, AsksFit
  <2>3. UNCHANGED <<store, main, lock>> /\ pc[k] = "idle"
    BY <2>2 DEF Ask, At, runtime
  <2>4. ASSUME NEW q \in Tasks
        PROVE  SavesSound(q)' /\ (lock' = q => pc'[q] \notin {"idle", "wait"})
    <3>1. CASE q = k
      <4>1. pc'[k] = point /\ job'[k] = j /\ lock # k
        BY <1>0, <2>2, <2>3 DEF TypeOK, Ask, Goto, DocumentInv, HolderWorks
      <4>2. point # "save" /\ (j.kind = "useLocal" => j.target = None)
        BY <2>2 DEF Fits, Locking
      <4> QED BY <2>3, <3>1, <4>1, <4>2 DEF SavesSound
    <3>2. CASE q # k
      BY <1>0, <2>2, <2>3, <3>2 DEF TypeOK, Ask, Goto, SavesSound, DocumentInv, HolderWorks
    <3> QED BY <3>1, <3>2
  <2> QED BY <2>3, <2>4 DEF DocumentInv, StoreConsistent, HolderWorks
<1>5. ASSUME UNCHANGED <<lock, pc, job>>, StoreConsistent',
             main'.pc \in {"upsert", "delete"} => Sound(main'.doc)
      PROVE  DocumentInv'
  BY <1>5 DEF DocumentInv, SavesSound, HolderWorks
<1>6. CASE \E t \in Targets : Upsert(t) \/ Delete(t)
  <2>1. UNCHANGED <<store, lock, pc, job>> /\ main'.doc = store
    BY <1>6 DEF Upsert, Delete, MainStarts, runtime
  <2> QED BY <1>5, <2>1 DEF DocumentInv, StoreConsistent, Sound
<1>7. CASE MainThread
  <2>1. UNCHANGED <<lock, pc, job>>
    BY <1>7 DEF MainThread, SaveUpsert, SaveDelete, MainFails, ReadActive, DropActive, ShowLocal, runtime
  <2>2. main.pc = "upsert" => Upserted.active \in Upserted.targets \cup {None}
    BY <1>0 DEF TypeOK, Document, Upserted, DocumentInv, Sound
  <2>3. main.pc = "delete" => Deleted.active \in Deleted.targets \cup {None}
    BY <1>0 DEF TypeOK, Document, Deleted, DocumentInv, Sound
  <2>4. StoreConsistent'
    BY <1>7, <2>2, <2>3 DEF MainThread, SaveUpsert, SaveDelete, MainFails, ReadActive, DropActive,
       ShowLocal, runtime, DocumentInv, StoreConsistent
  <2>5. main'.pc \notin {"upsert", "delete"}
    <3>1. CASE SaveUpsert \/ MainFails \/ ShowLocal
      BY <3>1 DEF SaveUpsert, MainFails, ShowLocal, Resting
    <3>2. CASE SaveDelete \/ DropActive
      BY <1>0, <3>2 DEF TypeOK, SaveDelete, DropActive
    <3>3. CASE ReadActive
      <4>1. [Resting EXCEPT !.pc = "drop", !.gen = snapshot.gen + 1].pc = "drop"
        BY <1>0 DEF TypeOK
      <4> QED BY <3>3, <4>1 DEF ReadActive, Resting
    <3> QED BY <1>7, <3>1, <3>2, <3>3 DEF MainThread
  <2> QED BY <1>5, <2>1, <2>4, <2>5
<1> QED
  BY <1>1, <1>2, <1>4, <1>6, <1>7 DEF Next
-----------------------------------------------------------------------------
(* The way of a command.                                                   *)

\* A step of a task leads on along its way.
LEMMA StepDescends ==
    ASSUME Inv, NEW k \in Tasks, Acquire(k) \/ Proceed(k)
    PROVE  StepsLeft(k)' < StepsLeft(k)
<1> USE DEF Inv, At
<1>0. TypeOK /\ KindOf(k)
  BY DEF KindInv
<1>1. Return(k) /\ pc[k] # "idle" => StepsLeft(k)' < StepsLeft(k)
  <2> SUFFICES ASSUME Return(k), pc[k] # "idle" PROVE StepsLeft(k)' < StepsLeft(k)
    OBVIOUS
  <2>1. pc'[k] = "idle" /\ StepsLeft(k)' = 0
    BY <1>0 DEF TypeOK, Return, Goto, StepsLeft, Distance
  <2>2. StepsLeft(k) > 0
    BY <1>0 DEF TypeOK, Point, Switching, Invoking, StepsLeft, Distance
  <2> QED BY <2>1, <2>2 DEF TypeOK, Point, Switching, Invoking, StepsLeft, Distance
<1>2. CASE Acquire(k)
  BY <1>0, <1>2 DEF TypeOK, Acquire, Goto, StepsLeft, Distance
<1>3. CASE ClearRoutes(k) \/ ShowConnecting(k) \/ DropSession(k) \/ ShowOnline(k)
  BY <1>0, <1>3 DEF TypeOK, ClearRoutes, ShowConnecting, DropSession, ShowOnline, Continue,
     Goto, StepsLeft, Distance
<1>4. CASE Find(k) \/ LoadStore(k)
  BY <1>0, <1>1, <1>4 DEF TypeOK, Find, LoadStore, Continue, Goto, StepsLeft, Distance
<1>5. CASE SaveActive(k) \/ Connect(k)
  BY <1>0, <1>1, <1>5 DEF TypeOK, Job, SaveActive, Connect, Continue, Goto, StepsLeft, Distance
<1>6. CASE Observe(k)
  BY <1>0, <1>6 DEF TypeOK, Job, Observe, Goto, StepsLeft, Distance
<1>7. CASE UseLocal(k) \/ Publish(k)
  BY <1>1, <1>7 DEF UseLocal, Publish
<1>8. CASE Check(k) \/ Withdraw(k)
  BY <1>0, <1>1, <1>8 DEF TypeOK, Check, Withdraw, Continue, Goto, StepsLeft, Distance
<1>9. CASE Invoke(k)
  BY <1>0, <1>1, <1>9 DEF TypeOK, Invoke, Continue, Goto, StepsLeft, Distance
<1>10. CASE CloneSession(k)
  BY <1>0, <1>1, <1>10 DEF TypeOK, Job, CloneSession, Goto, StepsLeft, Distance
<1>11. CASE Answer(k)
  <2>1. CASE Return(k)
    BY <1>1, <1>11, <2>1 DEF Answer
  <2>2. CASE ~ Return(k)
    BY <1>0, <1>11, <2>2 DEF TypeOK, Job, Answer, Continue, Goto, StepsLeft, Distance
  <2> QED BY <2>1, <2>2
<1> QED
  BY <1>2, <1>3, <1>4, <1>5, <1>6, <1>7, <1>8, <1>9, <1>10, <1>11 DEF Proceed

\* Nobody but the task itself moves it once it is at work.
LEMMA NextDescends ==
    ASSUME Inv, [Next]_vars, NEW k \in Tasks, ~ At(k, "idle")
    PROVE  UNCHANGED <<pc[k], job[k]>> \/ StepsLeft(k)' < StepsLeft(k)
<1>0. TypeOK
  BY DEF Inv
<1>1. CASE UNCHANGED vars
  BY <1>1 DEF vars
<1>2. ASSUME NEW q \in Tasks, Acquire(q) \/ Proceed(q)
      PROVE  UNCHANGED <<pc[k], job[k]>> \/ StepsLeft(k)' < StepsLeft(k)
  BY <1>0, <1>2, Frame, StepDescends
<1>3. ASSUME NEW q \in Tasks, NEW j, NEW point, Ask(q, j, point)
      PROVE  UNCHANGED <<pc[k], job[k]>>
  BY <1>0, <1>3 DEF TypeOK, Ask, At, Goto
<1>4. CASE \E t \in Targets : Upsert(t) \/ Delete(t)
  BY <1>4 DEF Upsert, Delete, MainStarts
<1>5. CASE MainThread
  BY <1>5 DEF MainThread, SaveUpsert, SaveDelete, MainFails, ReadActive, DropActive, ShowLocal
<1> QED
  BY <1>1, <1>2, <1>3, <1>4, <1>5 DEF Next, Asks, AskSwitch, AskLocal, Command, Exchange
-----------------------------------------------------------------------------
(* What is left connecting.                                                *)

\* A step of a task leaves the runtime connecting only if it gives up at the store.
LEMMA TaskAbandons ==
    ASSUME Inv, NEW k \in Tasks, Acquire(k) \/ Proceed(k), ~ Abandoned, Abandoned'
    PROVE  (LoadStore(k) \/ SaveActive(k)) /\ pc'[k] = "idle"
<1> USE DEF Inv, At
<1>0. TypeOK /\ KindOf(k)
  BY DEF KindInv
<1>1. ~ ShowConnecting(k)
  <2> SUFFICES ASSUME ShowConnecting(k) PROVE FALSE
    OBVIOUS
  <2>1. job[k].kind = "switch" /\ NextGeneration \in Nat
    BY <1>0 DEF TypeOK, KindOf, ShowConnecting, NextGeneration
  <2>2. /\ pc'[k] = "dropSession"
        /\ job'[k].kind = "switch" /\ job'[k].gen = snapshot'.gen
    BY <1>0, <2>1 DEF TypeOK, Job, ShowConnecting, Goto
  <2> QED BY <2>2 DEF Abandoned, Connects
<1>2. ~ ShowOnline(k) /\ ~ UseLocal(k) /\ (Connect(k) => UNCHANGED snapshot)
  BY DEF Abandoned, ShowOnline, UseLocal, Connect, Failed
<1>3. UNCHANGED snapshot
  BY <1>1, <1>2 DEF Acquire, Proceed, ClearRoutes, Find, DropSession, LoadStore, SaveActive, Observe,
     Check, Withdraw, Invoke, CloneSession, Answer, Publish, runtime
<1>4. PICK q \in Tasks : Connects(q)
  BY <1>3 DEF Abandoned
<1>5. q = k
  BY <1>0, <1>3, <1>4, Frame DEF Abandoned, Connects
<1>6. job[k].kind = "switch" /\ pc[k] \in {"dropSession", "load", "save", "ssh", "online"}
  BY <1>4, <1>5 DEF Connects
<1>7. pc'[k] \notin {"dropSession", "load", "save", "ssh", "online"} \/ job'[k] # job[k]
  BY <1>3, <1>4, <1>5 DEF Abandoned, Connects
<1>8. ~ DropSession(k)
  BY <1>0, <1>7 DEF TypeOK, DropSession, Continue, Goto
<1>9. ~ Connect(k)
  <2>1. snapshot' # Failed(k)
    BY DEF Abandoned, Failed
  <2> QED BY <1>0, <1>7, <2>1 DEF TypeOK, Connect, Continue, Goto
<1>10. CASE LoadStore(k)
  <2>1. Return(k) \/ (job' = [job EXCEPT ![k].doc = store] /\ pc' = [pc EXCEPT ![k] = "save"])
    BY <1>10 DEF LoadStore, Goto
  <2>2. ~ (job' = [job EXCEPT ![k].doc = store] /\ pc' = [pc EXCEPT ![k] = "save"])
    BY <1>0, <1>3, <1>4, <1>5 DEF TypeOK, Job, Abandoned, Connects
  <2> QED BY <1>0, <1>10, <2>1, <2>2 DEF TypeOK, Return, Goto
<1>11. CASE SaveActive(k)
  <2>1. Return(k) \/ (job' = [job EXCEPT ![k].doc = NoDocument] /\ pc' = [pc EXCEPT ![k] = "ssh"])
    BY <1>6, <1>11 DEF SaveActive, Goto
  <2>2. ~ (job' = [job EXCEPT ![k].doc = NoDocument] /\ pc' = [pc EXCEPT ![k] = "ssh"])
    BY <1>0, <1>3, <1>4, <1>5 DEF TypeOK, Job, Abandoned, Connects
  <2> QED BY <1>0, <1>11, <2>1, <2>2 DEF TypeOK, Return, Goto
<1> QED
  BY <1>1, <1>2, <1>6, <1>8, <1>9, <1>10, <1>11 DEF Acquire, Proceed, ClearRoutes, Find, Observe,
     Check, Withdraw, Invoke, CloneSession, Answer, Publish

\* No step of the others leaves the runtime connecting.
LEMMA OthersKeepConnects ==
    ASSUME Inv, ~ Abandoned, Abandoned',
           \/ \E k \in Tasks : Asks(k)
           \/ \E t \in Targets : Upsert(t) \/ Delete(t)
           \/ MainThread
    PROVE  FALSE
<1>0. TypeOK
  BY DEF Inv
<1>1. CASE \E k \in Tasks : Asks(k)
  <2>1. PICK k \in Tasks : Asks(k)
    BY <1>1
  <2>2. PICK j \in Job, point \in Point : Ask(k, j, point)
    BY <1>0, <2>1, AsksFit
  <2>3. UNCHANGED snapshot
    BY <2>2 DEF Ask, runtime
  <2>4. PICK q \in Tasks : Connects(q)
    BY <2>3 DEF Abandoned
  <2>5. pc'[q] = pc[q] /\ job'[q] = job[q]
    BY <1>0, <2>2, <2>4 DEF TypeOK, Ask, At, Goto, Connects
  <2> QED BY <2>3, <2>4, <2>5 DEF Abandoned, Connects
<1>2. CASE \E t \in Targets : Upsert(t) \/ Delete(t)
  BY <1>2 DEF Upsert, Delete, MainStarts, runtime, Abandoned, Connects
<1>3. CASE MainThread
  BY <1>3 DEF MainThread, SaveUpsert, SaveDelete, MainFails, ReadActive, DropActive, ShowLocal,
     runtime, Abandoned, Connects
<1> QED
  BY <1>1, <1>2, <1>3
-----------------------------------------------------------------------------
(* The theorems.                                                           *)

\* The invariant holds in every behaviour.
THEOREM Invariance == Spec => []Inv
<1> QED
  BY InitInv, NextInv, PTL DEF Spec

\* The runtime's state keeps its types, for any targets and tasks.
THEOREM TypeCorrect == Spec => []TypeOK
<1>1. Inv => TypeOK
  BY DEF Inv
<1> QED
  BY <1>1, Invariance, PTL

\* The proxy's remote route is always that of the host the tunnel leads to, filed
\* under that host's name, even when the active target is deleted meanwhile
\* (refresh_remote_provider_route, runtime.rs delete_target).
THEOREM RouteFollowsTunnel == Spec => []RouteOfHost
<1>1. Inv => RouteOfHost
  BY DEF Inv
<1> QED
  BY <1>1, Invariance, PTL

\* There is no remote route while a provider-changing command of remote_invoke is
\* carried out on the host.
THEOREM WritesUnrouted == Spec => []NoRouteDuringWrite
<1>1. Inv => NoRouteDuringWrite
  BY DEF Inv, HoldInv, HoldOf, Holding, NoRouteDuringWrite
<1> QED
  BY <1>1, Invariance, PTL

\* The active target is one of the saved ones, whichever of two crossing saves is
\* the last, and even when one publishes the document of the other (target_store.rs).
THEOREM ActiveTargetSaved == Spec => []StoreConsistent
<1>1. DocumentInv => StoreConsistent
  BY DEF DocumentInv
<1> QED
  BY <1>1, InitDocument, NextDocument, Invariance, PTL DEF Spec

\* The operation lock is held by a task that can go on: nobody returns with it or
\* waits for it a second time (remote_set_active_target, remote_invoke).
THEOREM LockInUse == Spec => []HolderWorks
<1>1. DocumentInv => HolderWorks
  BY DEF DocumentInv
<1> QED
  BY <1>1, InitDocument, NextDocument, Invariance, PTL DEF Spec

\* Nothing but an error of set_active_target leaves the runtime connecting, whatever
\* is switched or deleted meanwhile and whatever else fails
\* (connect_target_with_forward).
THEOREM OnlyStoreAbandons == Spec => AbandonedOnlyByStore
<1>1. Inv /\ [Next]_vars =>
        [~ Abandoned /\ Abandoned' =>
            \E k \in Tasks : (LoadStore(k) \/ SaveActive(k)) /\ pc'[k] = "idle"]_vars
  BY TaskAbandons, OthersKeepConnects DEF Next
<1> QED
  BY <1>1, Invariance, PTL DEF Spec, AbandonedOnlyByStore

\* Every step of a command brings it nearer to its return, at most seventeen from
\* its start, whatever is switched, deleted or failing around it.
THEOREM CommandsReturn == Spec => CommandsDescend
<1>1. Inv /\ [Next]_vars =>
        [\A k \in Tasks : ~ At(k, "idle") =>
            UNCHANGED <<pc[k], job[k]>> \/ StepsLeft(k)' < StepsLeft(k)]_vars
  BY NextDescends
<1> QED
  BY <1>1, Invariance, PTL DEF Spec, CommandsDescend
=============================================================================
