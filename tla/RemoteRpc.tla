------------------------------- MODULE RemoteRpc -------------------------------
(***************************************************************************)
(* One session with a remote host: the callers and the reader thread of the*)
(* desktop (remote/client.rs), the two pipes of the ssh process, and the   *)
(* agent with its reading loop and one worker per request (cc-switch-agent *)
(* lib.rs), some of which work for long on the host's usage records        *)
(* (cc-switch-core usage/mutation.rs).  Request ids are fresh, so a request*)
(* is its id; operation ids may be shared.  The handshake is over.         *)
(***************************************************************************)
EXTENDS Naturals, Sequences

CONSTANTS
    Requests,     \* the calls of one session, each made once
    Operations,   \* operation ids
    OpOf,         \* the operation id each request carries
    KindOf,       \* what each request asks for
    Files,        \* the session files of the host that usage is imported from
    None,         \* nobody, nothing
    Capacity,     \* the frames a pipe holds before its writer waits
    MayBreak      \* whether the connection or the agent may fail

Kind == {"command", "sync", "rebuild"}

ASSUME OperationAssumption == OpOf \in [Requests -> Operations]
ASSUME KindAssumption == KindOf \in [Requests -> Kind]
ASSUME NoneAssumption == None \notin Requests
ASSUME CapacityAssumption == Capacity \in Nat \ {0}
ASSUME BreakAssumption == MayBreak \in BOOLEAN

VARIABLES
    pc,         \* where the caller of each request is
    result,     \* what invoke_with_id returns, once it is settled
    pending,    \* the pending registry of the session
    inbox,      \* what was sent to each waiting caller
    reader,     \* the reader thread
    link,       \* the ssh connection
    toAgent,    \* the frames on their way to the agent
    toClient,   \* the frames on their way to the desktop
    agent,      \* the reading loop of the agent
    registry,   \* the running request of each operation id
    cancelled,  \* the requests whose cancellation flag is set
    worker,     \* where the worker of each request is
    verdict,    \* what it will answer
    guard,      \* the holder of session_sync_guard
    usage,      \* the files whose usage the host's database holds
    backup,     \* the usage in the backup a rebuild took
    todo,       \* the files a worker has still to look at
    effect      \* the requests that were carried out

client == <<pc, result, pending, inbox, reader>>
pipes == <<link, toAgent, toClient>>
database == <<usage, backup, todo>>
host == <<agent, registry, cancelled, worker, verdict, guard, database, effect>>
vars == <<client, pipes, host>>

CallPoint == {"idle", "start", "write", "wait", "drop", "cancel", "done"}
Answers == {"ok", "error"}
Results == Answers \cup {"offline", "timeout", "failed", "none"}
WorkerPoint == {"none", "run", "lock", "backup", "reset", "import",
                "unregister", "respond", "ended"}

\* Types; a call that has returned has a result.
TypeOK ==
    /\ pc \in [Requests -> CallPoint]
    /\ result \in [Requests -> Results]
    /\ \A r \in Requests : pc[r] = "done" => result[r] # "none"
    /\ pending \subseteq Requests
    /\ inbox \in [Requests -> Answers \cup {"offline", "none"}]
    /\ reader \in [at : {"unstarted", "reading", "sending", "failing", "gone"},
                   to : SUBSET Requests, what : Answers \cup {"offline"}]
    /\ link \in {"up", "down"}
    /\ toAgent \in Seq([kind : {"request", "cancel"}, id : Requests])
    /\ toClient \in Seq([id : Requests, answer : Answers])
    /\ agent \in [at : {"reading", "refusing", "ending", "gone"}, id : Requests \cup {None}]
    /\ registry \in [Operations -> Requests \cup {None}]
    /\ cancelled \subseteq Requests
    /\ worker \in [Requests -> WorkerPoint]
    /\ verdict \in [Requests -> Answers]
    /\ guard \in Requests \cup {None}
    /\ usage \subseteq Files
    /\ backup \in [Requests -> SUBSET Files]
    /\ todo \in [Requests -> SUBSET Files]
    /\ effect \subseteq Requests

Init ==
    /\ pc = [r \in Requests |-> "idle"]
    /\ result = [r \in Requests |-> "none"]
    /\ pending = {}
    /\ inbox = [r \in Requests |-> "none"]
    /\ reader = [at |-> "unstarted", to |-> {}, what |-> "offline"]
    /\ link = "up" /\ toAgent = <<>> /\ toClient = <<>>
    /\ agent = [at |-> "reading", id |-> None]
    /\ registry = [o \in Operations |-> None]
    /\ cancelled = {}
    /\ worker = [r \in Requests |-> "none"]
    /\ verdict = [r \in Requests |-> "error"]
    /\ guard = None
    /\ usage \in SUBSET Files
    /\ backup = [r \in Requests |-> {}]
    /\ todo = [r \in Requests |-> Files]
    /\ effect = {}
-----------------------------------------------------------------------------
(* invoke_with_id.                                                         *)

Goto(r, point) == pc' = [pc EXCEPT ![r] = point]

Register(r) ==
    /\ pc[r] = "idle"
    /\ pending' = pending \cup {r}
    /\ Goto(r, "start")
    /\ UNCHANGED <<result, inbox, reader, pipes, host>>

\* The first call hands the reading end to the reader thread.
StartReader(r) ==
    /\ pc[r] = "start"
    /\ reader' = IF reader.at = "unstarted" THEN [reader EXCEPT !.at = "reading"] ELSE reader
    /\ Goto(r, "write")
    /\ UNCHANGED <<result, pending, inbox, pipes, host>>

\* Room in the pipe to the agent; its writer waits otherwise.
Send(frame) ==
    /\ link = "up" /\ Len(toAgent) < Capacity
    /\ toAgent' = Append(toAgent, frame)

\* The request is written; on a dead connection the write fails, or is lost in a
\* buffer.
Write(r) ==
    /\ pc[r] = "write"
    /\ \/ /\ Send([kind |-> "request", id |-> r])
          /\ Goto(r, "wait")
          /\ UNCHANGED result
       \/ /\ link = "down"
          /\ Goto(r, "wait")
          /\ UNCHANGED <<toAgent, result>>
       \/ /\ link = "down"
          /\ Goto(r, "drop")
          /\ result' = [result EXCEPT ![r] = "failed"]
          /\ UNCHANGED toAgent
    /\ UNCHANGED <<pending, inbox, reader, link, toClient, host>>

\* Mutant of Receive: the caller does not wait for an answer.
ReceiveAtOnce(r) ==
    /\ pc[r] = "wait"
    /\ result' = [result EXCEPT ![r] = inbox[r]]
    /\ Goto(r, "done")
    /\ UNCHANGED <<pending, inbox, reader, pipes, host>>

\* The answer or the end of the connection, as it was sent to this caller.
Receive(r) ==
    /\ pc[r] = "wait" /\ inbox[r] # "none"
    /\ result' = [result EXCEPT ![r] = inbox[r]]
    /\ Goto(r, "done")
    /\ UNCHANGED <<pending, inbox, reader, pipes, host>>

\* Mutant of Expire: the caller waits without a limit.
ExpireNever(r) == FALSE /\ UNCHANGED vars

\* recv_timeout: the time is up and nothing has come.
Expire(r) ==
    /\ pc[r] = "wait" /\ inbox[r] = "none"
    /\ result' = [result EXCEPT ![r] = "timeout"]
    /\ Goto(r, "drop")
    /\ UNCHANGED <<pending, inbox, reader, pipes, host>>

\* Mutant of Drop: a request that could not be written stays registered.
DropAfterTimeout(r) ==
    /\ pc[r] = "drop"
    /\ pending' = IF result[r] = "timeout" THEN pending \ {r} ELSE pending
    /\ Goto(r, IF result[r] = "timeout" THEN "cancel" ELSE "done")
    /\ UNCHANGED <<result, inbox, reader, pipes, host>>

\* remove_pending, after a timeout or a failed write.
Drop(r) ==
    /\ pc[r] = "drop"
    /\ pending' = pending \ {r}
    /\ Goto(r, IF result[r] = "timeout" THEN "cancel" ELSE "done")
    /\ UNCHANGED <<result, inbox, reader, pipes, host>>

\* The cancellation is sent as well as it can be.
SendCancel(r) ==
    /\ pc[r] = "cancel"
    /\ \/ Send([kind |-> "cancel", id |-> r])
       \/ link = "down" /\ UNCHANGED toAgent
    /\ Goto(r, "done")
    /\ UNCHANGED <<result, pending, inbox, reader, link, toClient, host>>

Caller(r) ==
    StartReader(r) \/ Write(r) \/ Receive(r) \/ Expire(r) \/ Drop(r) \/ SendCancel(r)
-----------------------------------------------------------------------------
(* reader_loop.                                                            *)

\* Mutant of Addressee: an answer goes to whoever waits.
AddresseeAny(r) == pending

\* The pending entry an answer belongs to, if it is still there.
Addressee(r) == pending \cap {r}

\* A late answer is dropped; another one leaves the registry before it is sent.
Read ==
    /\ reader.at = "reading" /\ toClient # <<>>
    /\ toClient' = Tail(toClient)
    /\ LET frame == Head(toClient) IN
       /\ pending' = pending \ Addressee(frame.id)
       /\ reader' = IF Addressee(frame.id) = {} THEN reader
                    ELSE [at |-> "sending", to |-> Addressee(frame.id), what |-> frame.answer]
    /\ UNCHANGED <<pc, result, inbox, link, toAgent, host>>

\* fail_pending: the connection is over, and so is every call that waits.
ReadEnd ==
    /\ reader.at = "reading" /\ toClient = <<>> /\ link = "down"
    /\ reader' = [at |-> "failing", to |-> pending, what |-> "offline"]
    /\ pending' = {}
    /\ UNCHANGED <<pc, result, inbox, pipes, host>>

\* The senders are used outside the lock; a caller that is gone is no matter.
Deliver ==
    /\ reader.at \in {"sending", "failing"}
    /\ inbox' = [r \in Requests |-> IF r \in reader.to THEN reader.what ELSE inbox[r]]
    /\ reader' = [at |-> IF reader.at = "sending" THEN "reading" ELSE "gone",
                  to |-> {}, what |-> "offline"]
    /\ UNCHANGED <<pc, result, pending, pipes, host>>

Reader == Read \/ ReadEnd \/ Deliver
-----------------------------------------------------------------------------
(* The connection.                                                         *)

\* What may still arrive of what is on its way when the connection breaks.
Arrives(pipe) == {SubSeq(pipe, 1, n) : n \in 0..Len(pipe)}

Break ==
    /\ MayBreak
    /\ link' = "down"
    /\ toAgent' \in Arrives(toAgent)
    /\ toClient' \in Arrives(toClient)

\* The connection breaks, or the desktop kills its ssh process.
Cut ==
    /\ link = "up"
    /\ Break
    /\ UNCHANGED <<client, host>>

\* A worker thread of the agent's process is there.
Running(r) == worker[r] \notin {"none", "ended"}

\* The agent's process is killed, with all its threads.
AgentDies ==
    /\ agent.at # "gone"
    /\ Break
    /\ agent' = [at |-> "gone", id |-> None]
    /\ worker' = [r \in Requests |-> IF Running(r) THEN "ended" ELSE worker[r]]
    /\ guard' = None
    /\ UNCHANGED <<client, registry, cancelled, verdict, database, effect>>
-----------------------------------------------------------------------------
(* run_session of the agent.                                               *)

AgentAt(point) == agent.at = point

\* The next frame, taken out of the pipe.
Take(kind) ==
    /\ AgentAt("reading") /\ toAgent # <<>> /\ Head(toAgent).kind = kind
    /\ toAgent' = Tail(toAgent)

\* A new operation gets a worker.
Accept ==
    /\ Take("request")
    /\ LET r == Head(toAgent).id IN
       /\ registry[OpOf[r]] = None
       /\ registry' = [registry EXCEPT ![OpOf[r]] = r]
       /\ worker' = [worker EXCEPT ![r] = IF KindOf[r] = "command" THEN "run" ELSE "lock"]
    /\ UNCHANGED <<client, link, toClient, agent, cancelled, verdict, guard, database, effect>>

\* Mutant of Refuse: a request for an operation id in use is passed over.
RefuseSilently ==
    /\ Take("request")
    /\ registry[OpOf[Head(toAgent).id]] # None
    /\ UNCHANGED <<client, link, toClient, agent, registry, cancelled, worker, verdict, guard,
                   database, effect>>

\* An operation id in use is refused, with the registry still locked.
Refuse ==
    /\ Take("request")
    /\ LET r == Head(toAgent).id IN
       /\ registry[OpOf[r]] # None
       /\ agent' = [at |-> "refusing", id |-> r]
    /\ UNCHANGED <<client, link, toClient, registry, cancelled, worker, verdict, guard,
                   database, effect>>

\* A response is written, waiting for room; on a dead connection it is lost.
Respond(r, answer) ==
    \/ /\ link = "up" /\ Len(toClient) < Capacity
       /\ toClient' = Append(toClient, [id |-> r, answer |-> answer])
    \/ link = "down" /\ UNCHANGED toClient

\* The refusal is written; when that fails the loop is left at once, without
\* telling the workers.
WriteRefusal ==
    /\ AgentAt("refusing")
    /\ \/ /\ Respond(agent.id, "error")
          /\ agent' = [at |-> "reading", id |-> None]
       \/ /\ link = "down"
          /\ agent' = [at |-> "ending", id |-> None]
          /\ UNCHANGED toClient
    /\ UNCHANGED <<client, link, toAgent, registry, cancelled, worker, verdict, guard,
                   database, effect>>

\* Mutant of Cancellable: the request id of a cancellation is not compared.
CancellableByOperation(r) == {registry[OpOf[r]]} \ {None}

\* The running request a cancellation is for.
Cancellable(r) == {registry[OpOf[r]]} \cap {r}

TakeCancel ==
    /\ Take("cancel")
    /\ cancelled' = cancelled \cup Cancellable(Head(toAgent).id)
    /\ UNCHANGED <<client, link, toClient, agent, registry, worker, verdict, guard,
                   database, effect>>

Registered(r) == registry[OpOf[r]] = r

\* End of file: every running operation is told to stop.
EndSession ==
    /\ AgentAt("reading") /\ toAgent = <<>> /\ link = "down"
    /\ cancelled' = cancelled \cup {r \in Requests : Registered(r)}
    /\ agent' = [at |-> "ending", id |-> None]
    /\ UNCHANGED <<client, pipes, registry, worker, verdict, guard, database, effect>>

\* The scope waits for the workers.
Leave ==
    /\ AgentAt("ending")
    /\ \A r \in Requests : ~ Running(r)
    /\ agent' = [at |-> "gone", id |-> None]
    /\ UNCHANGED <<client, pipes, registry, cancelled, worker, verdict, guard, database, effect>>

Agent == Accept \/ Refuse \/ WriteRefusal \/ TakeCancel \/ EndSession \/ Leave
-----------------------------------------------------------------------------
(* The workers.                                                            *)

WorkerAt(r, point) == worker[r] = point
WorkerGoto(r, point) == worker' = [worker EXCEPT ![r] = point]

\* Mutant of Released: the guard is not dropped by an operation that fails.
ReleasedOnSuccess(r, answer) == IF guard = r /\ answer = "ok" THEN None ELSE guard

\* The guard is dropped when the command returns, with a result or an error.
Released(r, answer) == IF guard = r THEN None ELSE guard

\* The command returns.
Finish(r, answer) ==
    /\ verdict' = [verdict EXCEPT ![r] = answer]
    /\ effect' = IF answer = "ok" THEN effect \cup {r} ELSE effect
    /\ guard' = Released(r, answer)
    /\ WorkerGoto(r, "unregister")
    /\ UNCHANGED <<client, pipes, agent, registry, cancelled, database>>

\* The commands that do not look at the cancellation flag.
Run(r) ==
    /\ WorkerAt(r, "run")
    /\ \E answer \in Answers : Finish(r, answer)

\* Mutant of MayAcquire: the long operations do not wait for each other.
MayAcquireAlways == TRUE

MayAcquire == guard = None

\* session_sync_guard.
Acquire(r) ==
    /\ WorkerAt(r, "lock")
    /\ MayAcquire
    /\ guard' = r
    /\ WorkerGoto(r, IF KindOf[r] = "rebuild" THEN "backup" ELSE "import")
    /\ UNCHANGED <<client, pipes, agent, registry, cancelled, verdict, database, effect>>

\* A long operation that is cancelled when it looks, or whose step fails.
Abort(r) ==
    /\ worker[r] \in {"backup", "reset", "import"}
    /\ Finish(r, "error")

\* Between two steps of a long operation the flag is looked at.
Step(r, point, next) ==
    /\ WorkerAt(r, point)
    /\ r \notin cancelled
    /\ WorkerGoto(r, next)
    /\ UNCHANGED <<client, pipes, agent, registry, cancelled, verdict, guard, effect>>

\* The backup is a snapshot of the whole database.
Backup(r) ==
    /\ Step(r, "backup", "reset")
    /\ backup' = [backup EXCEPT ![r] = usage]
    /\ UNCHANGED <<usage, todo>>

\* reset_codex_usage, one transaction.
Reset(r) ==
    /\ Step(r, "reset", "import")
    /\ usage' = {}
    /\ UNCHANGED <<backup, todo>>

\* sync_codex_sessions: file by file, each one once.
Import(r) ==
    \E f \in todo[r] :
        /\ Step(r, "import", "import")
        /\ usage' = usage \cup {f}
        /\ todo' = [todo EXCEPT ![r] = @ \ {f}]
        /\ UNCHANGED backup

Imported(r) ==
    /\ WorkerAt(r, "import") /\ todo[r] = {}
    /\ Finish(r, "ok")

\* The operation id is free again before the answer is written; the registry is
\* locked while a refusal waits to be written.
Unregister(r) ==
    /\ WorkerAt(r, "unregister")
    /\ ~ AgentAt("refusing")
    /\ registry' = IF Registered(r) THEN [registry EXCEPT ![OpOf[r]] = None] ELSE registry
    /\ WorkerGoto(r, "respond")
    /\ UNCHANGED <<client, pipes, agent, cancelled, verdict, guard, database, effect>>

\* A write that fails is ignored.
WriteResponse(r) ==
    /\ WorkerAt(r, "respond")
    /\ Respond(r, verdict[r])
    /\ WorkerGoto(r, "ended")
    /\ UNCHANGED <<client, link, toAgent, agent, registry, cancelled, verdict, guard,
                   database, effect>>

Work(r) ==
    \/ Run(r) \/ Abort(r) \/ Backup(r) \/ Reset(r) \/ Import(r) \/ Imported(r)
    \/ Unregister(r) \/ WriteResponse(r)

Next ==
    \/ \E r \in Requests : Register(r) \/ Caller(r) \/ Acquire(r) \/ Work(r)
    \/ Reader \/ Cut \/ AgentDies \/ Agent
-----------------------------------------------------------------------------
\* Every thread that can go on does.  Requests are finitely many, so that a lock
\* or a place in a pipe that is waited for stays free in the end.
Fairness ==
    /\ \A r \in Requests : WF_vars(Caller(r)) /\ WF_vars(Acquire(r)) /\ WF_vars(Work(r))
    /\ WF_vars(Reader)
    /\ WF_vars(Agent)

Spec == Init /\ [][Next]_vars
FairSpec == Spec /\ Fairness
-----------------------------------------------------------------------------
(* Properties.                                                             *)

\* What the caller of a request knows.
Known(r) == CASE pc[r] = "idle" -> "idle"
              [] pc[r] = "done" -> IF result[r] = "ok" THEN "ok" ELSE "failed"
              [] OTHER -> "open"

Call == INSTANCE RemoteCall WITH call <- [r \in Requests |-> Known(r)]

\* The session keeps the promise of a remote command: a success is reported only
\* to the caller of a command the host carried out (invoke_with_id, reader_loop,
\* the workers of run_session).
KeepsPromise == Call!Spec

\* An answer on its way is still waited for, unless its caller's time is up: none
\* is dropped because it came too early (client.rs: the reader is handed over only
\* after the first request is registered).
AnswerExpected ==
    \A i \in DOMAIN toClient :
        toClient[i].id \in pending \/ result[toClient[i].id] = "timeout"

\* A call that has returned has left nothing behind: however it ended, its entry in
\* the registry of the session is gone, and if it has its answer, its operation id
\* can be used again (invoke_with_id, run_session).
NothingLeftBehind ==
    /\ \A r \in pending : pc[r] # "done"
    /\ \A r \in Requests : result[r] \in Answers => ~ Registered(r)

\* An operation is told to stop only by its own caller, or because the session is
\* over, also when another one reuses its operation id (run_session: Cancel).
OwnCancel ==
    \A r \in cancelled : result[r] = "timeout" \/ agent.at \in {"ending", "gone"}

\* No synchronisation comes between the three phases of a rebuild: what a reset
\* deletes is in its backup, and what an import has looked at is recorded
\* (usage/mutation.rs: session_sync_guard).
RebuildAlone ==
    \A r \in Requests :
        /\ worker[r] = "reset" => usage \subseteq backup[r]
        /\ worker[r] = "import" => Files \ todo[r] \subseteq usage

\* Where a request that waits for its answer is: on its way to the agent, refused,
\* in the hands of a worker, or on its way back.
OnItsWay(r) ==
    \/ \E i \in DOMAIN toAgent : toAgent[i] = [kind |-> "request", id |-> r]
    \/ AgentAt("refusing") /\ agent.id = r
    \/ Running(r)
    \/ \E i \in DOMAIN toClient : toClient[i].id = r
    \/ r \in reader.to

\* As long as the connection stands, no request and no answer is lost between the
\* caller, the pipes, the agent and the reader: a call times out only because its
\* command, or the queue before it, takes long (invoke_with_id, run_session,
\* reader_loop).
NoneForgotten ==
    link = "up" =>
        \A r \in Requests : pc[r] = "wait" /\ inbox[r] = "none" => OnItsWay(r)

\* No circle of waiting threads.  The reader waits for nobody; so what an answer,
\* or a refusal written under the lock of the registry, waits for is taken out of
\* its pipe, and the agent goes on with the requests.  Whoever holds the guard of
\* the usage records needs neither the registry nor a pipe until it is dropped
\* (reader_loop, run_session, session_sync_guard).
NoCircle ==
    /\ guard # None => worker[guard] \in {"backup", "reset", "import"}
    /\ link = "up" /\ toAgent # <<>> => agent.at \in {"reading", "refusing"}
    /\ link = "up" /\ toClient # <<>> => reader.at \in {"reading", "sending"}

\* Every call returns, also when the answer or the connection is lost.
CallReturns == \A r \in Requests : pc[r] # "idle" ~> pc[r] = "done"

\* A broken connection ends the agent, once its workers have stopped: no thread
\* keeps the host's database (run_session: the scope).
AgentEnds == link = "down" ~> AgentAt("gone")
=============================================================================
