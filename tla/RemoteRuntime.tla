----------------------------- MODULE RemoteRuntime -----------------------------
(***************************************************************************)
(* Switching between hosts and sending commands to them (remote/runtime.rs,*)
(* commands/remote.rs, remote/target_store.rs).  The target store, the     *)
(* snapshot (status, generation, target), the session and the proxy's      *)
(* remote route are guarded one by one, so every access is a step.  The    *)
(* switches and the provider commands of remote_invoke hold the provider   *)
(* operation lock; the exchanges of providers between machines, the other  *)
(* commands and the main thread, where targets are saved and deleted, do   *)
(* not.                                                                    *)
(***************************************************************************)
EXTENDS Naturals

CONSTANTS
    Targets,     \* the remote targets the user may have saved
    Tasks,       \* the command tasks of the desktop application
    None,        \* no target, no session, no route, nobody
    MaxAsked,    \* bound on the switches and saves of one behaviour
    MaxDeleted,  \* bound on the deletions of one behaviour
    MayFail      \* whether the target store may fail to be read or written

ASSUME NoneAssumption == None \notin Targets /\ None \notin Tasks
ASSUME BoundAssumption == MaxAsked \in Nat /\ MaxDeleted \in Nat
ASSUME BooleanAssumption == MayFail \in BOOLEAN

Host == Targets \cup {None}
Status == {"local", "connecting", "online", "offline"}
Document == [targets : SUBSET Targets, active : Host]
NoDocument == [targets |-> {}, active |-> None]

\* The control points of a task, named after what it does next.
Switching == {"clearRoutes", "find", "connecting", "dropSession", "load", "save",
              "ssh", "online", "observe", "useLocal"}
Invoking == {"check", "withdraw", "invoke", "clone", "answer", "publish"}
Point == {"idle", "wait"} \cup Switching \cup Invoking

\* The commands of remote_invoke that name a generation: those that change
\* providers, those that read them, and the others, which do not take the lock.
Locking == {"provider", "read"}
Generational == Locking \cup {"other"}

\* A job: the host a switch leads to or a command was meant for, the generation
\* it works with, the session it cloned, the document it loaded, and whether it
\* has come to the refresh of the route.
Job == [kind : {"none", "switch", "useLocal", "exchange"} \cup Generational,
        target : Host, gen : Nat, session : Host, doc : Document, refresh : BOOLEAN]
NoJob == [kind |-> "none", target |-> None, gen |-> 0, session |-> None,
          doc |-> NoDocument, refresh |-> FALSE]

VARIABLES
    store,     \* remote-targets.json
    snapshot,  \* RemoteRuntimeState.snapshot
    session,   \* the host of RemoteRuntimeState.session, or None
    route,     \* the host whose provider the proxy's remote route holds, and the
               \* namespace it was filed under, or None
    lock,      \* the holder of provider_operations
    pc, job,   \* where every task is, and with what
    main,      \* what the main thread does
    asked,     \* switches and saves so far
    deleted    \* deletions so far

history == <<asked, deleted>>
runtime == <<store, snapshot, session, route>>
vars == <<runtime, lock, pc, job, main, history>>

MainPoint == {"idle", "upsert", "delete", "read", "drop", "local"}

\* Types; a route always names two targets.
TypeOK ==
    /\ store \in Document
    /\ snapshot \in [status : Status, gen : Nat, target : Host]
    /\ session \in Host
    /\ route \in [host : Targets, label : Targets] \cup {None}
    /\ lock \in Tasks \cup {None}
    /\ pc \in [Tasks -> Point]
    /\ job \in [Tasks -> Job]
    /\ main \in [pc : MainPoint, target : Host, gen : Nat, doc : Document]
    /\ asked \in Nat /\ deleted \in Nat

Resting == [pc |-> "idle", target |-> None, gen |-> 0, doc |-> NoDocument]

\* RemoteRuntimeState::new: the target that was active is shown, disconnected.
Init ==
    /\ store \in {d \in Document : d.active \in d.targets \cup {None}}
    /\ snapshot = [status |-> IF store.active = None THEN "local" ELSE "offline",
                   gen |-> 0, target |-> store.active]
    /\ session = None /\ route = None /\ lock = None
    /\ pc = [k \in Tasks |-> "idle"]
    /\ job = [k \in Tasks |-> NoJob]
    /\ main = Resting
    /\ asked = 0 /\ deleted = 0

At(k, point) == pc[k] = point
Goto(k, point) == pc' = [pc EXCEPT ![k] = point]

\* The task ends, with a result or with an error, and drops the lock it holds.
Return(k) ==
    /\ Goto(k, "idle")
    /\ job' = [job EXCEPT ![k] = NoJob]
    /\ lock' = IF lock = k THEN None ELSE lock

\* The task goes on to its next point.
Continue(k, point) == Goto(k, point) /\ UNCHANGED <<job, lock>>
-----------------------------------------------------------------------------
(* What the user asks for.                                                 *)

Ask(k, j, point) ==
    /\ At(k, "idle")
    /\ job' = [job EXCEPT ![k] = j]
    /\ Goto(k, point)
    /\ UNCHANGED <<runtime, lock, main>>

\* remote_set_active_target, with a target or without.
AskSwitch(k, t) ==
    /\ asked < MaxAsked /\ asked' = asked + 1 /\ UNCHANGED deleted
    /\ Ask(k, [NoJob EXCEPT !.kind = "switch", !.target = t], "wait")

AskLocal(k) ==
    /\ asked < MaxAsked /\ asked' = asked + 1 /\ UNCHANGED deleted
    /\ Ask(k, [NoJob EXCEPT !.kind = "useLocal"], "wait")

\* remote_invoke: the caller names the generation it saw, and means the host it
\* saw with it; only the provider commands wait for the lock.
Command(k, kind) ==
    /\ snapshot.status = "online"
    /\ Ask(k, [NoJob EXCEPT !.kind = kind, !.gen = snapshot.gen, !.target = snapshot.target],
           IF kind \in Locking THEN "wait" ELSE "check")
    /\ UNCHANGED history

\* remote_invoke_provider_target: the user names the machine whose providers are
\* listed or added to.  If it is the one online, its session is used, with the
\* generation of this moment and without the lock; any other machine gets a session
\* of its own, which the runtime never sees (invoke_provider_target).
Exchange(k, t) ==
    /\ snapshot.status = "online" /\ snapshot.target = t
    /\ Ask(k, [NoJob EXCEPT !.kind = "exchange", !.gen = snapshot.gen, !.target = t], "invoke")
    /\ UNCHANGED history

\* What a task is asked for.
Asks(k) ==
    \/ \E t \in Targets : AskSwitch(k, t) \/ Exchange(k, t)
    \/ \E kind \in Generational : Command(k, kind)
    \/ AskLocal(k)

\* Mutant of MayEnter: the provider commands do not wait for each other.
MayEnterAlways(k) == lock = None \/ job[k].kind \in Locking

\* provider_operations is free.
MayEnter(k) == lock = None

Acquire(k) ==
    /\ At(k, "wait")
    /\ MayEnter(k)
    /\ lock' = k
    /\ Goto(k, CASE job[k].kind = "switch" -> "clearRoutes"
                 [] job[k].kind = "useLocal" -> "load"
                 [] OTHER -> "check")
    /\ UNCHANGED <<runtime, job, main, history>>
-----------------------------------------------------------------------------
(* connect_target_with_forward and use_local, under the lock.              *)

\* Mutant of Cleared: the routes of the previous host stay.
ClearedNot == route

\* Before another host is connected, no route leads to the previous one.
Cleared == None

ClearRoutes(k) ==
    /\ At(k, "clearRoutes")
    /\ route' = Cleared
    /\ Continue(k, "find")
    /\ UNCHANGED <<store, snapshot, session, main, history>>

\* The target must be in the store.
Find(k) ==
    /\ At(k, "find")
    /\ \/ /\ job[k].target \in store.targets
          /\ Continue(k, "connecting")
       \/ /\ job[k].target \notin store.targets \/ MayFail
          /\ Return(k)
    /\ UNCHANGED <<runtime, main, history>>

NextGeneration == snapshot.gen + 1

ShowConnecting(k) ==
    /\ At(k, "connecting")
    /\ snapshot' = [status |-> "connecting", gen |-> NextGeneration, target |-> job[k].target]
    /\ job' = [job EXCEPT ![k].gen = NextGeneration]
    /\ Goto(k, "dropSession")
    /\ UNCHANGED <<store, session, route, lock, main, history>>

\* The old session goes, so that a failure leaves none.
DropSession(k) ==
    /\ At(k, "dropSession")
    /\ session' = None
    /\ Continue(k, "load")
    /\ UNCHANGED <<store, snapshot, route, main, history>>

\* set_active_target: load, check, change, save; each may fail, and the error
\* leaves the command at once.
LoadStore(k) ==
    /\ At(k, "load")
    /\ \/ /\ job[k].kind = "switch" => job[k].target \in store.targets
          /\ job' = [job EXCEPT ![k].doc = store]
          /\ Goto(k, "save")
          /\ UNCHANGED lock
       \/ /\ MayFail \/ (job[k].kind = "switch" /\ job[k].target \notin store.targets)
          /\ Return(k)
    /\ UNCHANGED <<runtime, main, history>>

\* The document set_active_target saves.
Activated(k) == [job[k].doc EXCEPT !.active = job[k].target]

\* Every save writes the same temporary file (temp_path_for): of two that cross,
\* one may publish the other's document, and the other then fails.
SaveActive(k) ==
    /\ At(k, "save")
    /\ \/ /\ store' = Activated(k)
          /\ job' = [job EXCEPT ![k].doc = NoDocument]
          /\ Goto(k, IF job[k].kind = "switch" THEN "ssh" ELSE "useLocal")
          /\ UNCHANGED lock
       \/ /\ MayFail
          /\ Return(k)
          /\ store' \in {store, Activated(k)}
    /\ UNCHANGED <<snapshot, session, route, main, history>>

\* Mutant of Failed: a failed connection leaves what is shown.
FailedSilently(k) == snapshot

\* What is shown when the connection failed.
Failed(k) == [status |-> "offline", gen |-> job[k].gen, target |-> job[k].target]

\* OpenSshSession::connect_with_forward: a session, or an error that is shown.
Connect(k) ==
    /\ At(k, "ssh")
    /\ \/ /\ session' = job[k].target
          /\ Continue(k, "online")
          /\ UNCHANGED snapshot
       \/ /\ snapshot' = Failed(k)
          /\ Return(k)
          /\ UNCHANGED session
    /\ UNCHANGED <<store, route, main, history>>

ShowOnline(k) ==
    /\ At(k, "online")
    /\ snapshot' = [status |-> "online", gen |-> job[k].gen, target |-> job[k].target]
    /\ Continue(k, "observe")
    /\ UNCHANGED <<store, session, route, main, history>>

\* Mutant of Observe: the refresh takes the lock its caller holds.
ObserveRelocking(k) ==
    /\ At(k, "observe")
    /\ job' = [job EXCEPT ![k] = [@ EXCEPT !.gen = snapshot.gen, !.refresh = TRUE]]
    /\ Goto(k, "wait")
    /\ UNCHANGED <<runtime, lock, main, history>>

\* remote_set_active_target reads the final snapshot and refreshes the route
\* with its generation.
Observe(k) ==
    /\ At(k, "observe")
    /\ job' = [job EXCEPT ![k] = [@ EXCEPT !.gen = snapshot.gen, !.refresh = TRUE]]
    /\ Goto(k, "invoke")
    /\ UNCHANGED <<runtime, lock, main, history>>

\* use_local shows this machine and keeps the session with its tunnel.
UseLocal(k) ==
    /\ At(k, "useLocal")
    /\ snapshot' = [status |-> "local", gen |-> NextGeneration, target |-> None]
    /\ Return(k)
    /\ UNCHANGED <<store, session, route, main, history>>
-----------------------------------------------------------------------------
(* remote_invoke, invoke_remote and refresh_remote_provider_route.         *)

\* require_generation: the generation is still the task's, and online.
Current(k) == snapshot.gen = job[k].gen /\ snapshot.status = "online"

\* remote_invoke checks before it does anything; only a command that changes
\* providers withdraws the route.
Check(k) ==
    /\ At(k, "check")
    /\ \/ /\ Current(k)
          /\ Continue(k, IF job[k].kind = "provider" THEN "withdraw" ELSE "invoke")
       \/ ~ Current(k) /\ Return(k)
    /\ UNCHANGED <<runtime, main, history>>

\* Mutant of Withdrawn: the route stays while the host's providers change.
WithdrawnLater == route

\* While a provider command changes the host's providers there is no route.
Withdrawn == None

Withdraw(k) ==
    /\ At(k, "withdraw")
    /\ route' = Withdrawn
    /\ Continue(k, "invoke")
    /\ UNCHANGED <<store, snapshot, session, main, history>>

\* invoke_remote: check, clone the session, send; each guarded on its own.
Invoke(k) ==
    /\ At(k, "invoke")
    /\ \/ Current(k) /\ Continue(k, "clone")
       \/ ~ Current(k) /\ Return(k)
    /\ UNCHANGED <<runtime, main, history>>

CloneSession(k) ==
    /\ At(k, "clone")
    /\ \/ /\ session # None
          /\ job' = [job EXCEPT ![k].session = session]
          /\ Goto(k, "answer")
          /\ UNCHANGED lock
       \/ session = None /\ Return(k)
    /\ UNCHANGED <<runtime, main, history>>

\* Mutant of Accepts: an answer is not checked when it arrives.
AcceptsAlways(k) == TRUE

\* An answer counts only if the generation is still the same.
Accepts(k) == Current(k)

\* The host has answered, or the command has failed or timed out.
Answer(k) ==
    /\ At(k, "answer")
    /\ \/ Return(k)
       \/ /\ Accepts(k)
          /\ IF job[k].refresh THEN Continue(k, "publish")
             ELSE /\ job[k].kind = "provider"
                  /\ job' = [job EXCEPT ![k].refresh = TRUE]
                  /\ Goto(k, "invoke")
                  /\ UNCHANGED lock
    /\ UNCHANGED <<runtime, main, history>>

\* Mutant of Publishable: the generation and the target are not looked at again.
PublishableAlways(k) == TRUE

\* The route may be set: the generation still holds, and there is a target.
Publishable(k) == Current(k) /\ snapshot.target # None

\* The current provider of the host becomes the route, filed under the target of
\* the snapshot; only the holder of the lock touches the route.
Publish(k) ==
    /\ At(k, "publish")
    /\ \/ /\ Publishable(k)
          /\ \/ route' = [host |-> job[k].session, label |-> snapshot.target]
             \/ route' = None
       \/ ~ Publishable(k) /\ UNCHANGED route
    /\ Return(k)
    /\ UNCHANGED <<store, snapshot, session, main, history>>
-----------------------------------------------------------------------------
(* The main thread: upsert_target and delete_target.                       *)

MainStarts(point, t) ==
    /\ main.pc = "idle"
    /\ main' = [pc |-> point, target |-> t, gen |-> 0, doc |-> store]
    /\ UNCHANGED <<runtime, lock, pc, job>>

Upsert(t) ==
    /\ asked < MaxAsked /\ asked' = asked + 1 /\ UNCHANGED deleted
    /\ MainStarts("upsert", t)

Delete(t) ==
    /\ deleted < MaxDeleted /\ deleted' = deleted + 1 /\ UNCHANGED asked
    /\ t \in store.targets
    /\ MainStarts("delete", t)

\* Mutant of Deleted: the active target stays the active one.
DeletedStaysActive == [main.doc EXCEPT !.targets = @ \ {main.target}]

\* The documents the main thread saves.
Upserted == [main.doc EXCEPT !.targets = @ \cup {main.target}]
Deleted == [targets |-> main.doc.targets \ {main.target},
            active |-> IF main.doc.active = main.target THEN None ELSE main.doc.active]

SaveUpsert ==
    /\ main.pc = "upsert"
    /\ store' = Upserted
    /\ main' = Resting
    /\ UNCHANGED <<snapshot, session, route, lock, pc, job, history>>

SaveDelete ==
    /\ main.pc = "delete"
    /\ store' = Deleted
    /\ main' = [main EXCEPT !.pc = "read", !.doc = NoDocument]
    /\ UNCHANGED <<snapshot, session, route, lock, pc, job, history>>

\* The store cannot be read or written: the command ends with an error, and has
\* changed nothing, unless a save it crossed has published its document.
MainFails ==
    /\ MayFail
    /\ main.pc \in {"upsert", "delete"}
    /\ store' \in {store, IF main.pc = "upsert" THEN Upserted ELSE Deleted}
    /\ main' = Resting
    /\ UNCHANGED <<snapshot, session, route, lock, pc, job, history>>

\* Deleting the active target disconnects: the next generation is this machine.
ReadActive ==
    /\ main.pc = "read"
    /\ main' = IF snapshot.target = main.target
               THEN [Resting EXCEPT !.pc = "drop", !.gen = snapshot.gen + 1]
               ELSE Resting
    /\ UNCHANGED <<runtime, lock, pc, job, history>>

DropActive ==
    /\ main.pc = "drop"
    /\ session' = None
    /\ main' = [main EXCEPT !.pc = "local"]
    /\ UNCHANGED <<store, snapshot, route, lock, pc, job, history>>

ShowLocal ==
    /\ main.pc = "local"
    /\ snapshot' = [status |-> "local", gen |-> main.gen, target |-> None]
    /\ main' = Resting
    /\ UNCHANGED <<store, session, route, lock, pc, job, history>>

MainThread ==
    SaveUpsert \/ SaveDelete \/ MainFails \/ ReadActive \/ DropActive \/ ShowLocal

\* What a task does once it has the lock, or needs none.
Proceed(k) ==
    \/ ClearRoutes(k) \/ Find(k) \/ ShowConnecting(k) \/ DropSession(k)
    \/ LoadStore(k) \/ SaveActive(k) \/ Connect(k) \/ ShowOnline(k) \/ Observe(k)
    \/ UseLocal(k) \/ Check(k) \/ Withdraw(k) \/ Invoke(k)
    \/ CloneSession(k) \/ Answer(k) \/ Publish(k)

Next ==
    \/ \E k \in Tasks : Asks(k) \/ Acquire(k) \/ Proceed(k)
    \/ \E t \in Targets : Upsert(t) \/ Delete(t)
    \/ MainThread

\* Tasks and the main thread run on; the lock is handed over in the order it was
\* asked for, so that nobody is passed over for ever (SF).
Fairness ==
    /\ \A k \in Tasks : WF_vars(Proceed(k)) /\ SF_vars(Acquire(k))
    /\ WF_vars(MainThread)

Spec == Init /\ [][Next]_vars
FairSpec == Spec /\ Fairness
-----------------------------------------------------------------------------
(* Properties.                                                             *)

\* The proxy's remote route holds the provider of the host the tunnel leads to,
\* filed under that host's name (refresh_remote_provider_route).
RouteOfHost ==
    route # None => route.label = route.host /\ (session # None => session = route.host)

\* While a command of remote_invoke changes the providers of a host, the proxy has
\* no remote route: no request leaves with the old credentials.  An exchange only
\* adds a copy that is not in use, and leaves the route alone.
NoRouteDuringWrite ==
    \A k \in Tasks :
        job[k].kind = "provider" /\ pc[k] \in {"invoke", "clone", "answer"} => route = None

\* As long as nobody has deleted a target, an answer is taken only if it came from
\* the host the caller saw when it asked, or named, and that host is still the one
\* shown (README of the repository: late responses during a switch are rejected).
\* A deletion gives a generation out that a connection may have taken meanwhile.
NoCrossTalk ==
    deleted = 0 =>
        \A k \in Tasks :
            At(k, "answer") /\ Accepts(k) =>
                job[k].session = job[k].target /\ snapshot.target = job[k].target

\* As long as nobody has deleted a target, a provider command of remote_invoke is
\* sent to the host its caller saw, and to no other: it is the lock, which the
\* switches take too, that keeps the session the one that was checked.
CommandReachesItsHost ==
    deleted = 0 =>
        \A k \in Tasks :
            At(k, "answer") /\ job[k].kind \in Locking => job[k].session = job[k].target

\* An exchange reaches the machine the user named, and no other
\* (runtime.rs: invoke_provider_target, which takes no lock).
ExchangeReachesItsTarget ==
    \A k \in Tasks :
        At(k, "answer") /\ job[k].kind = "exchange" => job[k].session = job[k].target

\* Nothing that changes the target is under way.
Quiet == main.pc = "idle" /\ lock = None

\* The task whose connection is shown, and a connection that is shown with no task
\* at work on it.
Connects(k) ==
    /\ job[k].kind = "switch" /\ job[k].gen = snapshot.gen
    /\ pc[k] \in {"dropSession", "load", "save", "ssh", "online"}
Abandoned == snapshot.status = "connecting" /\ \A k \in Tasks : ~ Connects(k)

\* "connecting" is left standing only by a switch whose set_active_target ends with
\* an error, because the store cannot be read or written or the target is gone:
\* nothing else leaves it, be it a connection that fails, a switch or a deletion
\* that crosses it, or its late end (connect_target_with_forward).
AbandonedOnlyByStore ==
    [][~ Abandoned /\ Abandoned' =>
          \E k \in Tasks : (LoadStore(k) \/ SaveActive(k)) /\ pc'[k] = "idle"]_vars

\* A deleted target is not connected: deleting the active one is a return to this
\* machine (runtime.rs: delete_target).
DeleteDisconnects == Quiet /\ snapshot.status = "online" => snapshot.target \in store.targets

\* The active target is one of the list: saves on the main thread and saves of a
\* switch are not excluded from each other and may undo one another, but whichever
\* document is the last, it is consistent in itself (target_store.rs: the check
\* and the change of set_active_target are made on one loaded document).
StoreConsistent == store.active \in store.targets \cup {None}

\* Who holds the operation lock is at work: it has not returned, and does not wait
\* for the lock it has (remote_set_active_target: the refresh of the route runs
\* inside the lock, and so may not come from code that takes it).
HolderWorks == \A k \in Tasks : lock = k => pc[k] \notin {"idle", "wait"}

\* The steps a command can still take. The way of a provider command leads through
\* invoke_remote twice, the second time for the refresh of the route.
Distance ==
    [idle |-> 0, publish |-> 1, answer |-> 2, clone |-> 3, invoke |-> 4, withdraw |-> 8,
     observe |-> 8, check |-> 9, online |-> 9, ssh |-> 10, useLocal |-> 10, save |-> 11,
     load |-> 12, dropSession |-> 13, connecting |-> 14, find |-> 15, clearRoutes |-> 16,
     wait |-> 17]
StepsLeft(k) ==
    Distance[pc[k]] + (IF At(k, "invoke") \/ At(k, "clone") \/ At(k, "answer")
                       THEN IF job[k].refresh THEN 0 ELSE 3 ELSE 0)

\* No command goes round: whatever the others do, each of its own steps brings it
\* nearer to its return, and only its own steps move it. What a switch, a deletion
\* or a failure invalidates is given up, never tried again (invoke_remote,
\* refresh_remote_provider_route), so the lock is held for a bounded number of steps.
CommandsDescend ==
    [][\A k \in Tasks :
          ~ At(k, "idle") =>
              UNCHANGED <<pc[k], job[k]>> \/ StepsLeft(k)' < StepsLeft(k)]_vars

\* A command that waits for the lock gets it and returns.
Served(k) == At(k, "wait") ~> At(k, "idle")
=============================================================================
