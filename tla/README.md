# A verification of CC Switch in TLA+

CC Switch is a desktop application (Rust, Tauri) that owns the provider settings of
several coding clients (Claude Code, Codex, Gemini CLI, ...). It rewrites the clients' own
configuration files, runs a local proxy the clients can be routed through, fails over
between providers, and can do the same for a remote host over SSH. The back end is
`src/src-tauri/`; the React front end in `src/src/` only calls its commands.

This directory holds TLA+ models of the parts whose correctness depends on the order of
steps of several actors: TLC checks them on small instances, TLAPS proves the main results
for every value of the constants. `PROJECT.json` lists the runs, the mutants, the
source lines of each definition, the hazards and the theorems.

## 1. Inventory

Paths are relative to `src/src-tauri/src/` unless they start with `crates/`
(`src/src-tauri/crates/`).

| component | state | operations | what is hard |
|---|---|---|---|
| **Multi-file operation** `mode/operation.rs`, `mode/state.rs`, `live/engine.rs`, staging in `config.rs` | the client's files, their temporary files, the first-write backups, `live-state.json` (per application: mode, direct fields, pending intent), the current-provider pointers (device settings, database) and the database mirror of the mode | `AppWrite::begin`, `run`, `settle`, `recover`, `persist_replan`, `commit_target` | several files cannot be replaced atomically; the process may die anywhere; the client writes the same files without any lock; any I/O step can fail |
| **Mode controller** `mode/controller.rs`, `current.rs`, `contract.rs`, `stack.rs`, `proxy/switch_lock.rs` | the mode of every application (direct or proxy), the route the proxy serves, stack membership | `enter`, `exit`, `switch_route`, `set_route`, `set_stack_member`, `adopt_*`, `resync_*`, `detach_all`, `startup` | two locks (switch lock, then write lock), server start and stop tied to the last application, unlocked reads before locked writes |
| **Circuit breaker** `proxy/circuit_breaker.rs` | state, time of the last opening, failure and success counters, half-open permits, configuration; each its own lock or atomic | `is_available`, `allow_request`, `record_success`, `record_failure`, `release_half_open_permit`, `reset`, `update_config` | requests interleave between any two atomics; permits live across the whole request |
| **Provider routing and attempts** `proxy/provider_router.rs`, `proxy/forwarder.rs`, `proxy/failover_switch.rs` | breakers by application and provider, health rows, active connections, the set of switches in progress | `select_providers`, `forward_with_retry`, `record_result`, `try_switch` | a request holds a permit across awaits; its future can be dropped; the switch it triggers races the user's |
| **Remote runtime** `remote/runtime.rs`, `commands/remote.rs`, `remote/target_store.rs` | the target store (file), the snapshot (status, generation, target), the SSH session, the provider operation lock, the proxy's remote route | `remote_set_active_target`, `remote_invoke`, `upsert_target`, `delete_target`, `set_remote_current` | three mutexes that are not held together; long remote calls outlive a switch; some commands take the lock and some do not |
| **Remote client and agent** `remote/client.rs`, `crates/cc-switch-agent`, the long operations of `crates/cc-switch-core/src/usage/mutation.rs` | pending requests by identifier, the reader thread; the agent's registry of running operations, their cancellation flags, the guard of the long operations | `invoke_with_id`, the cancellation it sends, the reader, `run_session`, workers, rebuild and synchronisation | timeouts race late answers; the stream may end with requests in flight; a cancellation may find its operation id reused |
| Remote connection `remote/ssh.rs`, `ephemeral_deploy.rs`, `credentials.rs` | a child process, a temporary directory | connect, deploy, tear down | process handling, sequential |
| Shared core `crates/cc-switch-core`, wire protocol `crates/cc-switch-protocol` | the remote host's files and database | provider and usage commands | its own operation lock |
| Live patches and projections `live/patch`, `live/project`, `floor.rs`, `residue.rs` | none (pure) | from content and provider to content | text formats; a fixed point is required |
| Proxy server and streaming `proxy/server.rs`, `handlers.rs`, `sse.rs`, `providers/` | listener, conversions | start, stop, one handler per protocol | data conversion |
| Cloud sync and backups `services/webdav_*`, `services/s3_*`, `database/backup.rs` | remote snapshot, debounce timers | upload, download, automatic upload | suppression of the upload that a download would cause |
| Usage accounting, database schema, OAuth managers, sessions, MCP, skills, prompts, deep links, tray | rows and files | one command each | mostly sequential |

### How they interact

- Everything that changes a client's files goes through `mode/operation.rs`: the commands
  and the mode controller take the application's switch lock, then its write lock
  (`AppWrite::begin`, which first recovers an unfinished operation), compute a target and
  call `run`.
- A client routed through the proxy sends requests to `proxy/handlers.rs`, which asks
  `provider_router` for candidates, `forwarder` for the attempts, and every attempt asks
  and informs the breaker of its provider. A success on another provider triggers
  `failover_switch`, which comes back to the mode controller.
- With a remote target active, the front end's commands go to `remote_invoke`, through the
  runtime to the session of the remote client and the agent on the host. The proxy keeps
  its own copy of the remote host's routes.

### What makes each one correct

- Multi-file operation: a half-done operation is always found again and completed or
  withdrawn as a whole; the target is settled exactly when its files were published; the
  client's own part of a file is not lost to a stale plan; no intent is kept for ever.
- Circuit breaker: permits counted are permits held, a trial starts only from an open
  breaker whose wait is over, has one probe, and the breaker always recovers.
- Routing and attempts: every attempt asks before it sends and reports once; one
  switch per application and provider at a time.
- Mode controller: the files, the mode on disk, the mirror in the database and the server's
  state agree once the locks are free; an exit always restores a direct configuration.
- Remote runtime: an answer is shown only for the host and the generation it came from, a
  command reaches the host the user saw, a deleted target is disconnected, and a switch that
  ends leaves a definite state.
- Remote client: one answer per request, no entry left behind, cancellation reaches the
  right operation.

## 2. Plan

The order follows what a wrong ordering would cost the user: lost configuration files first,
then a provider that is excluded without an error, then commands that reach the wrong host,
then modes that disagree with the files.

| | module | about | state |
|---|---|---|---|
| 1 | `WriteAheadIntent`, `LiveOperation` | the abstract promise of a multi-file operation, and the operation that keeps it | modelled, checked, proved |
| 2 | `CircuitBreaker` | one breaker under concurrent requests | modelled, checked, proved |
| 3 | `RemoteRuntime` | the desktop side of the remote targets: switches, commands, the proxy's route | modelled, checked, proved |
| 4 | `RemoteCall`, `RemoteRpc` | the abstract promise of a remote command, and the session that keeps it: requests by identifier, the reader thread, time-outs and cancellation, composed with the agent's registry, its workers and the long operations of the shared core | modelled, checked, proved |
| 5 | `AppModes`, `ModeController` | the abstract modes, and the commands that keep them: the locks, the applications that share one server, entering and leaving proxy mode, failover results, deletions, startup and recovery; a write has the outcomes `LiveOperation` gives it | modelled, checked, proved |
| 6 | the attempt loop of `forwarder.rs` | several providers one after the other | not modelled, see section 8 |

Three abstract specifications are stated, and each is shown to be implemented, by TLC on an
instance and by TLAPS for every value of the constants: `WriteAheadIntent` (an intent is
completed or withdrawn as a whole), `RemoteCall` (a success is reported only for a command
that was carried out, and every answer is the last word) and `AppModes` (the modes change as
if the commands came one at a time, each changing only what it is about).

## 3. The modules and the code

`X` is the component, `MCX` gives its constants for TLC, `XProofs` holds its theorems.
Definitions keep the names of the functions they model where there is one. Definitions
whose name ends in a variant of another (`GiveUpAlways` for `GiveUp`) and whose comment starts
with "Mutant of" are plausible mistakes; no specification uses them, and section 6 says
what they are for.

### 3.1 `LiveOperation` (`mode/operation.rs`, `mode/state.rs`, `live/engine.rs`, `config.rs`)

One application. Its write lock is held for the whole of `run`, `settle` and `recover`, so
CC Switch itself is one sequential actor: `pc` is its next step, `job` the target it was
asked for, `mem` the intent it holds in memory, `todo` the files its loop has left, `replans`
and `any` the locals of the same meaning. On disk there are the client files (`file`), their
temporary files (`tmp`), the first-write backups (`backed`), the intent in `live-state.json`
(`pending`) and what `commit_target` writes (`store`: device pointer, database pointer, mode,
the mirror of the mode in the database). What interleaves is the client, which writes any
file at any time (`ClientWrites`), and the death of the process (`Crash`, `Restart`).

| code | actions |
|---|---|
| `AppWrite::begin`, `settle`, `recover_on_startup` | `Begin`, `Settle`, `Restart` |
| planning and staging in `run` | `PlanRefused`, `PlanAndStage`, `PlanNothing`, `RecordIntent` |
| the publication loop | `CheckUnchanged` (last comparison and first-write backup), `MarkPublished`, `PublishFile`, `GiveUpOnConflict`, `Replan`, `RecordReplan`, `AllPublished` |
| `drop_unpublished`, the discard of `recover` | `DropFiles`, `DropIntent` |
| `commit_target` and the end of the operation | `CommitSettings`, `CommitDb`, `CommitMode`, `MirrorProxyFlag`, `Sweep`, `ClearIntent` |
| `recover` | `Classify`, `RollForward`, `RolledForward` |

Every action that does I/O has a second disjunct in which the step fails (`Fails`), with
the error path the code takes.

A content is the owner of the CC Switch fields and the state of the user's own part, or
absent, or something that does not parse; a digest is taken to be injective. Temporary
names are slots numbered by replan, since only the last two are ever alive. Planning and
classification read several files in one step: reads of different files commute with edits
by a client that may do anything at any time, so the step reaches the same combinations.
Three steps are coarser than the code: `DropFiles` removes all temporary files at once and does
not fail (the code ignores the error); `RollForward` takes the backup of a file and
its swap together, so that a failure leaves the backup; and a file that cannot be read during the
classification (`operation.rs:224`), which ends the recovery with the intent in place, is left out.
`wrote`, `rolled` and `raced` are history variables for the properties.

### 3.2 `CircuitBreaker` (`proxy/circuit_breaker.rs`, with the calls of `provider_router.rs` and `forwarder.rs`)

One provider and any number of request tasks. Every lock acquisition and every atomic
operation another task can observe is a step; a request goes through `IsAvailable` (the
listing of candidates) or `Bypass` (the only candidate is used unasked), `AllowRequest`,
`AllowHalfOpenProbe`, the request itself (`sent`), and one of `RecordSuccess`,
`RecordFailure`, `ReleaseNeutral`, `Abandon`, followed by the steps of the report.

| code | actions |
|---|---|
| `is_available`, `allow_request` | `IsAvailable`, `CheckTimeout`, `AllowRequest`, `TransitionToHalfOpen` |
| `allow_half_open_probe` | `AllowHalfOpenProbe`, `RollBackProbe` |
| `record_success`, `record_failure`, `release_half_open_permit` | `RecordSuccess`, `RecordFailure`, `ReleaseNeutral`, `ReleasePermit`, `CountSuccess`, `CountFailure` |
| `transition_to_closed`, `transition_to_open` | `TransitionToClosed`, `ClearCounters`, `TransitionToOpen`, `StampOpening` |
| `reset`, `update_config` | `Reset`, `ResetCounters`, `UpdateConfig` |
| the clock; hyper dropping the handler's future | `Elapse`; `Abandon` |

Time is the only question the code asks of it: never opened, opened and still waiting,
or waited long enough. The two failure counters saturate at the highest threshold, which is
exact because they are only compared with thresholds. The error rate may trip or not at any
report. Atomics that are written one right after the other are one step (the counters of a
failure, `circuit_breaker.rs:239`; the counters cleared by a turn, `:212`, `:361`, `:382`), and a
wait that is over stays over, although `update_config` may enlarge it. `permit` says which requests hold a permit and whether the trial it was given for is
still the current one; the code keeps only a boolean, and no guard reads the difference.

Two constants switch parts of the environment off: `MayAbandon` (a client may disconnect;
the future is dropped only while the request is sent, where it spends its time) and
`SplitRefusal` (others may run between the addition and the subtraction of a refused probe).

### 3.3 `RemoteRuntime` (`remote/runtime.rs`, `commands/remote.rs`, `remote/target_store.rs`)

Command tasks on the asynchronous runtime (`Tasks`), which switch, send commands to the host and
exchange providers with it, and the main thread, where targets are saved and deleted. `store` is `remote-targets.json`, `snapshot` the published status with
generation and target, `session` the host the SSH session leads to, `route` the remote route
of the proxy: the host it was read from and the target it is filed under. `lock` is
`provider_operations`.

| code | actions |
|---|---|
| `remote_set_active_target`, `connect_target_with_forward`, `use_local` | `AskSwitch`, `AskLocal`, `Acquire`, `ClearRoutes`, `Find`, `ShowConnecting`, `DropSession`, `LoadStore`, `SaveActive`, `Connect`, `ShowOnline`, `Observe`, `UseLocal` |
| `remote_invoke`, `invoke_remote`, `refresh_remote_provider_route` | `Command`, `Acquire`, `Check`, `Withdraw`, `Invoke`, `CloneSession`, `Answer`, `Publish` |
| `remote_invoke_provider_target`, `invoke_provider_target` | `Exchange`, `Invoke`, `CloneSession`, `Answer` |
| `upsert_target`, `delete_target` | `Upsert`, `Delete`, `SaveUpsert`, `SaveDelete`, `MainFails`, `ReadActive`, `DropActive`, `ShowLocal` |

There are four kinds of command. `remote_invoke` takes the operation lock for those that change
providers (`provider`, which also withdraws the route and refreshes it afterwards) and for those
that read them (`read`), and not for the `other` ones; an `exchange` of providers with the machine
that is online goes through `invoke_remote` without the lock and leaves the route alone, as it
only adds a copy that is not in use. An exchange with any other machine opens a session of its own,
which the runtime never sees, and is left out.

A command carries the generation the caller saw (as in the code; an exchange takes it from the
snapshot when it starts) and, for the properties only, the host it was shown with or was named. Of
the applications with a remote route one is modelled: they are set and withdrawn together and do
not depend on each other. The refresh asks the host for its current provider and its list in one
exchange; both answers are checked the same way, and what follows them (`commands/remote.rs:348`
to `:374`: the check, the snapshot, saving the provider, setting the route) is the one step
`Publish`. What `prepare_remote_provider_args` reads from the host before the route is withdrawn
changes nothing and is left out. The process start is `Init`, with any stored document.

Every save of the document goes through one temporary file name (`target_store.rs`, `save`), so
of two saves that cross, one may publish the other's document and the other then fail although
it was published: with `MayFail`, a save that reports a failure may have changed the document or
not (`SaveActive`, `MainFails`). Without `MayFail`, saves succeed and do not cross this way. A
document torn by two writers of the temporary file (`target_store.rs:107`) is left out.

### 3.4 `RemoteRpc` and `RemoteCall` (`remote/client.rs`, `cc-switch-agent/src/lib.rs`, `cc-switch-core/src/usage/mutation.rs`)

One session after its handshake. On the desktop, a caller per request (`pc`, `result`), the
registry of those that wait (`pending`, with what was sent to each in `inbox`) and the reader
thread (`reader`). Between, two bounded pipes (`toAgent`, `toClient`). On the host, the reading
loop (`agent`), the registry by operation id (`registry`), the flags (`cancelled`) and one worker
per request, which may be a command or one of the two long operations on the usage records
(`guard`, `usage`, `backup`, `todo`).

| code | actions |
|---|---|
| `invoke_with_id` | `Register`, `StartReader`, `Write`, `Receive`, `Expire`, `Drop`, `SendCancel` |
| `reader_loop`, `fail_pending` | `Read`, `ReadEnd`, `Deliver` |
| the ssh process | `Cut`, `AgentDies` |
| `run_session` | `Accept`, `Refuse`, `WriteRefusal`, `TakeCancel`, `EndSession`, `Leave` |
| its workers, `rebuild_codex`, `sync_sessions` | `Run`, `Acquire`, `Backup`, `Reset`, `Import`, `Imported`, `Abort`, `Unregister`, `WriteResponse` |

A request id is a fresh UUID, so a request is its id, and the client's branches for a duplicate
id and for a receiver whose sender vanished are unreachable. The desktop uses a fresh operation
id too (`ssh.rs:363`); the agent does not rely on it, so shared ids are one of the instances.
Frames are written and read whole; a full pipe makes its writer wait, also the one that holds
the registry (`WriteRefusal`). When the connection breaks, any prefix of what is on its way
still arrives. Pings, which the desktop does not send, events, which the agent does not send, and frames that
do not parse are left out. A session file is one whose parent
rollout is known. `Import` is one step for its rows, which are committed first (`mutation.rs:365`),
and its watermark, which is written afterwards (`:368`): between the two the file only counts as
not yet imported, and a second import of it ignores the rows that are there.
`session_sync_guard` belongs to one process, and so does the model.

### 3.5 `ModeController` and `AppModes` (`mode/controller.rs`, `mode/current.rs`, `mode/stack.rs`, `services/proxy.rs`, `services/provider/mod.rs`)

Tasks run commands (`at`, `job`); per application there are the record (`settled`: mode,
attached, route, contract, direct pointer, aggregation mode and its list), the unfinished intent
(`pending`), what the client's files say (`client`), the rows of its providers (`rows`) and the
switch lock (`lock`). The server and whether the user started it (`server`, `manual`) are shared by all
of them, without a lock.

| code | actions |
|---|---|
| `lock_settled`, `operation::settle` | `lock_settled` (with the operator `settle`) |
| `start_server`, `stop_server_if_unused`, `stop_server` | `is_running`, `BindServer`, `StoreServer`, `stop_server_if_unused`, `stop_server` |
| `enter_locked` | `enter_locked` |
| `exit_locked`; the rounds `exit_apps_in_mode`, `exit_all`, `detach_all`, `startup` | `exit_locked`, `NextApp` |
| `recover_on_startup`, `startup_app` and its fallback | `Boot`, `enter_locked`, `Retreat` |
| `switch_inner`, `switch_route`, `switch_route_for_failover`, `set_route` | `switch_inner`, `switch_route_checked`, `set_route` |
| `do_switch`, `record_failover_route` | `Check`, `record_failover_route` |
| `set_stack_member`, `resync_route` | `set_stack_member_locked`, `resync_route` |
| `ProviderService::delete` | `Check`, `set_stack_member_locked`, `delete_provider` |
| a command of the user; the death of the process | `Ask`; `Crash` |

A write of the files is one step (`Write`) with the outcomes `LiveOperation` allows: done;
refused with nothing changed; nothing to change and the mirror failing; or stopped half way with
an intent that had begun or not, the files changed or not. `settle` is what recovery does with
each. Edits by the client are `LiveOperation`'s subject and left out here. Taking the lock and
settling are one step, as nobody else can act on the application in between. A deletion of a
provider looks at the record in `Check`, without the lock and without settling, and may overlap
every other command. A contract is
distinguished by its provider and, for the aggregation mode, by the list it publishes, which is
that of Claude Code, the application that publishes every member. The proxy's port is fixed, so
a bound port refuses a second listener (with `listen_port` 0, `services/proxy.rs:168`, a second
start would get another port and replace the first server, which is not modelled). `write_direct`
without a target, which the code tries twice for Codex (`controller.rs:535`), is one try, and a
failover result whose row is missing, an error in the code (`controller.rs:1562`), is one that
does nothing. The commands' list, `Commands`, is what the settings page,
the tray, the failover and the shutdown can ask for.

Left out: what versions before the mode controller left behind (the legacy takeover and
`drain_legacy_backup`), a change of the proxy's address with the resynchronisation it causes
(`resync_routes` is the loop over `resync_route`), edits of a row's content, catalogues and
subagent switches, the requirement that the local machine be the active target, the mapping of
Claude Desktop and the checks for official Codex models.

## 4. What the runs check

| run | instance | properties |
|---|---|---|
| `LiveOperationSafety` | 2 files, one rewritten and one deleted; one failure of any step but the swap, one crash, one replan; 3.7 million states | `MarkBeforeSwap`: the mark is on disk before the first swap. `NeverForgotten`: an operation that swapped a file disappears only when pointer, mode and mirror are settled. `SettlesWhatItSwapped`: an operation that swapped nothing settles nothing. `BackupBeforeSwap`: the first-write backup comes first, in a recovery too. `PublishesAll`: the settlement is reached only with every file of the plan published. |
| `LiveOperationFair` | 1 file, 2 targets, 2 states of the user's part, every step may fail; 570 thousand states | `ClientPartSurvives`: an edit the code could have seen is kept. `KeepsPromise`: `LiveOperation` implements `WriteAheadIntent`. `IntentSettles`: no intent stays for ever. `LockReleased`: a client that keeps writing cannot hold the lock for ever |
| `LiveOperationDrop` | 2 files, failing swaps, one crash | violates `SettlesWhatItSwapped`, see section 7 |
| `CircuitBreakerRequests` | 2 requests, 2 configurations that change, abandonment and interrupted refusals on; 267 thousand states | `TrialOnlyFromOpen`: a late turn to half-open never undoes a recovery. `LeakOnlyByLoss`: a slot is lost only with the client that holds it, or by a refusal whose addition was wiped. `SlotFreed`: unless it is lost, the slot comes back. `OpenRecovers`: an open breaker is tried again |
| `CircuitBreakerAbandon` | 2 requests, which may be abandoned | violates `PermitsCovered`, see section 7 |
| `RemoteRuntimeHosts` | 2 targets, 2 tasks, 2 switches or saves, a deletion, a failing store; 741 thousand states | `NoCrossTalk`: an answer that is taken came from the host that is shown. `CommandReachesItsHost`: a provider command of `remote_invoke` is sent to the host its caller saw. `RouteOfHost`: the route is that of the tunnel's host under its own name. `NoRouteDuringWrite`: no route while such a command changes a host's providers. `StoreConsistent`: the active target is a saved one, whatever saves cross. `AbandonedOnlyByStore`: only a switch that cannot record its target leaves "connecting" standing. `FirstServed`: a task waiting for the lock gets it and returns |
| `RemoteRuntimeDelete` | the same without failures | violates `DeleteDisconnects`, see section 7 |
| `RemoteRuntimeExchange` | the same without failures and deletions | violates `ExchangeReachesItsTarget`, see section 7 |
| `RemoteRpcSession` | a rebuild and a synchronisation that share an operation id, so that one is refused while the other runs; connection and agent may fail; 97 thousand states | `NothingLeftBehind`: a call that returned left no entry, and its operation id is free when it has its answer. `KeepsPromise`: `RemoteRpc` implements `RemoteCall`. `CallReturns`: every call returns. `AgentEnds`: a broken connection ends the agent |
| `RemoteRpcShared` | a rebuild and a command that share an operation id, and a synchronisation; one session file, the connection holds; 2.3 million states | `OwnCancel`: a cancellation reaches its own caller's operation only. `RebuildAlone`: no synchronisation between the phases of a rebuild. `NoneForgotten`: while the connection stands, the request or the answer of whoever waits is on its way |
| `ModeController` | 2 applications, 3 providers, 2 commands beside the startup, deletions at any time, one failure and one death of the process; 1.1 million states | `ContractOnFile`: the files say what the record says. `DefaultIsMember`: the default of the aggregation is on its list. `NoIdleServer`: no server runs for nobody. `HoldersNeverWait`: who holds a lock does not wait for one. `KeepsModes`: `ModeController` implements `AppModes`. `CommandsGetOn`: every step brings one command nearer to its return and none further from it |
| `ModeControllerDelete` | one task, 3 commands, one failure | violates `PointersExist`, see section 7 |

One passing run of each module also checks its `TypeOK`. Deadlock is checked in the first two
modules; in the others the users stop asking (`MaxAsked`, or each request made once), and
nothing is left to do. That nobody waits for ever is there `FirstServed`, `CallReturns` and
`AgentEnds`; for `ModeController`, which states no fairness, `HoldersNeverWait` (nobody waits
in a circle) and `CommandsGetOn` (nobody goes round).

### Bounds, and why they are enough

- `NumFiles = 2`: the loops treat the first file, which needs the mark, differently from the
  later ones and nothing else by position; a file swapped and a file left are there.
- `MaxReplans = 1` for the 3 of the code: the counter has the values none, some and too many.
- `MaxFaults = 1`, `MaxCrashes = 1`: the code's error paths do not retry; a second
  failure needs a second operation or start, which the run has. The proofs hold for every bound.
- The safety run leaves out a failing swap only because that case is the subject of
  `LiveOperationDrop`; `LiveOperationFair` has it.
- `Requests` of the breaker: two are needed for every interference it has (a report and a turn, a
  probe of an earlier trial and one of the current trial, a refusal and the turn inside of it). The
  configurations have a threshold of one and of two.
- `CounterMod = 8` for 2^32: more than the requests can add up to, so that a wrap is only
  ever an underflow.
- `RemoteRuntime`: with two tasks one switches while the other has a command under way; the two
  switches or saves are a switch there and the one that interferes. `Targets` is two hosts to
  confuse. The tasks are alike, so `FirstServed` follows one of them.
- `RemoteRpc`: `Capacity = 1`, the pipe that makes its writers wait most. The two instances
  divide what would not fit in one: breaks with two long calls whose files are all imported, one
  of which may be refused; and three calls with a file to import, which compete for the guard, on
  a connection that holds (`MayBreak`). The properties of both are proved without these
  restrictions.
- `ModeController`: two tasks are needed for every overlap, and each property that two commands
  could break, two suffice to break (the mutants do). The three states of `Left` are those a
  previous process can leave: direct, proxy, and aggregation. One provider may be a
  direct one only (`Joinable` and `Routable` leave it out), and the second application has one
  provider and no aggregation mode.
- Symmetry is used for tasks and requests, in runs without liveness properties only.

### Fairness

- `LiveOperation`: the holder of the lock keeps running, a dead process is started again,
  and someone keeps entering `settle` (every entry point calls it before it reads a pointer).
  The client and the crashes have none.
- `CircuitBreaker`: a request that was made ends, since connection and response time-outs end
  it; time passes; requests keep arriving through the listing of candidates (strong
  fairness: an idle task may always be taken by a request that bypasses the breaker).
- `RemoteRuntime`: tasks and the main thread run on, remote calls end with their time-out,
  and the lock is `tokio::sync::Mutex`, which is handed over in the order it was asked for
  (strong fairness of `Acquire`). Nobody is obliged to ask for anything.
- `RemoteRpc`: the threads of the two processes run on (weak fairness of each caller, the reader,
  the agent and each worker). Weak fairness is enough for a lock and for a place in a pipe
  because the requests of a session are finitely many. Breaks and requests have none.
- `ModeController` states none: its properties are about safety.

## 5. What is proved

Every invariant and every action property that a passing run checks, and the three refinements,
are theorems for every value of the constants that satisfies the assumptions stated with them
in the modules. Only model-checked are the liveness properties (`IntentSettles`, `LockReleased`,
`SlotFreed`, `OpenRecovers`, `FirstServed`, `CallReturns`, `AgentEnds`), which are outside the
prover's reach with their fairness. Where a property or a theorem restricts the environment,
section 7 says what goes wrong without the restriction.

Of the arguments for liveness, the parts that are about safety are proved: that every step gets
an actor on, and that those who wait do not wait in a circle.

| | nobody goes round, nothing is lost | nobody waits in a circle |
|---|---|---|
| `LiveOperation` | `HolderProgress` (`HolderGetsOn`), `HolderDescends` | one holder; `HolderNeverStuck` |
| `RemoteRuntime` | `CommandsReturn` (`CommandsDescend`) | one lock; `LockInUse` (`HolderWorks`) |
| `RemoteRpc` | `NothingLost` (`NoneForgotten`) | `NoCircularWait` (`NoCircle`) |
| `ModeController` | `CommandsReturn` (`CommandsGetOn`) | `NoCircle` (`HoldersNeverWait`) |

What they leave to fairness is that an actor who can take a step takes it; that the two together
make the commands return is not proved but checked by TLC (`LockReleased`, `FirstServed`,
`CallReturns`), which is why no run lists `HolderGetsOn`, `HolderWorks`, `CommandsDescend` and
the `NoCircle` of `RemoteRpc` again. For `ModeController` no liveness property is stated;
`CommandsGetOn` and `HoldersNeverWait` are its two halves, and its run checks them.
`CircuitBreaker` has no such theorem: its recovery rests on requests that keep arriving.

- `LiveOperationProofs`: `TypeCorrect`, `MarkPrecedesSwap`, `OperationNeverForgotten` and
  `Refinement` (`Spec => KeepsPromise`), for any number of files, any set of targets, any
  bounds and any set of failing steps. `MarkBeforeSwap` is not inductive alone: that the mark
  is on disk at the swap follows from the intent in memory agreeing with it through the loop
  (`LoopInv`), that a withdrawal or a discard finds no swapped file from `DropInv`, and that
  the last step finds everything settled from `CommitInv`, which says what each step of the
  settlement has behind it. `Inv` is the conjunction with `PlanInv` and `RecoverInv`; there is
  one lemma per action, and `StepKeepsPromise` maps each step to the abstract one.
- `SettlementProofs`: `BackupsPrecedeSwaps`; `EditsSurvive`, whose invariant says that every plan,
  in memory and in the intent, is sound for the client's part it was made from, and that what was
  compared last is what is swapped unless the client wrote since; and
  `NothingSwappedNothingSettled` where a swap cannot fail (`"rename" \notin Faults`). Then the
  loop over the files: `LoopLeavesNothing` holds because what is left to do and what was swapped
  or found in place make up the plan, through every replan. `HolderDescends` gives the holder a
  rank of five numbers (recovering or not, stage, files left, replans left, place within a file)
  in lexicographic order, well-founded by `WFLexProductOrdering` of the library; every step of the
  holder lowers it or returns, and the client's writes leave it alone.
- `CircuitBreakerProofs`: `TypeCorrect` and `TrialsStartOpen` unconditionally;
  `PermitsStayCovered` from `~ MayAbandon` and `~ SplitRefusal`, exactly the two
  conditions whose absence section 7 shows to break it. It is an argument about the
  cardinality of the set of holders: a probe adds one to both sides, a release takes one
  from both unless a new trial has set the counter to zero. The invariant adds where
  holders can be (`OnlySentHold`, `ReleasersHold`, `NoRollback`). `SlotsLeakOnlyByLoss` is the
  other side, without the two conditions: a step after which more slots are counted than holders
  and refused probes account for than before (`Lost`) drops a request that holds a permit, or
  subtracts from a counter that a new trial had set to zero; no report, reset, reopening or
  probe of an earlier trial does it.
- `RemoteRuntimeProofs`: `TypeCorrect`, `RouteFollowsTunnel` and `WritesUnrouted`, for any
  targets and any number of tasks, deletions and store failures included. `RouteOfHost`
  relates two variables that are never written together; the invariant follows the lock:
  its holder is alone (`HoldOf`), nothing shows online between the connecting snapshot and
  the new session, what the holder cloned is still the tunnel and the target unless a
  deletion took one of them away, and a deletion can only do that (`OtherHold`). `ActiveTargetSaved`
  holds with saves that cross and publish each other's document, since every document a save
  writes is consistent by itself. `OnlyStoreAbandons` says for every step but an error of
  `set_active_target` that it does not leave "connecting" without a task at work on it.
- `RemoteSwitchProofs`: `AnswersFromTheirHost` and `CommandsReachTheirHost`, as long as nobody has
  deleted a target (`deleted = 0` in both properties; stores may fail). The key is that a generation
  stands for one host: it is given out with the connecting snapshot, and goes online once. For the
  commands that hold the lock that makes the session they clone the one they checked; for the
  others and the exchanges only their answer is right.
- `RemoteRpcProofs`: `TypeCorrect`, `NoEarlyAnswer`, `RegistriesAreClean`, `CancelsItsOwn`,
  `RebuildsAlone` and `KeepsItsPromise`, for any requests, shared or own operation
  ids, any capacity and any failures. The invariant follows a request through its places: it is
  in one pipe, with one worker or with the reader, and where it is decides who has it registered.
  `NothingLost` turns this round: a call that waits is somewhere, as every step that takes a request
  or an answer out of one place puts it into the next (`FlowStep`). `NoCircularWait` rests on the
  guard of the usage records being held by a worker at work (`GuardInv`), and on the reader, which
  starts with the first call, before anything is written (`FlowInv`).
- `ModeControllerProofs`: `Invariance`, `TypeCorrect`, `NoCircle`, `Refinement` (`Spec =>
  KeepsModes`) and `ServersAreUsed`, for any applications, tasks, failures and deaths.
  `NoIdleServer` needs, for a server that runs, somebody who will still look at it: a
  task on its way to `stop_server_if_unused`, or one that is attaching (`Cares`).
  `CommandsReturn` counts the steps a command has left: ten for each application of its round,
  and those from the point it is at (`StepsLeft`).
- `ModeFilesProofs`: `FilesAgree` and `DefaultListed`, with deletions at any time. What the lock
  keeps right (files that agree with the record, a default on its list) is extended to the record
  an unfinished intent leads to; a row that goes leaves both sides of the comparison of the client's
  offer with the list. Section 7 says what the two properties exempt.

## 6. Mutants

Every property of a passing run has a mutant in `PROJECT.json`: a definition of the model and
the form a plausible mistake would give it (the mark forgotten, replans not counted, a release
without a look at the counter, an answer not checked when it arrives, the routes of the previous
host kept, a cancellation that is compared by operation id only, an attached client not
rewritten when its list changes). With the mutant in place of the definition, TLC finds the
property violated. They show that the properties depend on what the code does, and what each
guard is there for.

## 7. What the code does differently from what it says

Each of these has a run whose counterexample is the sequence described.

- `LiveOperationDrop` (`mode/operation.rs:513`). The first swap fails after the mark is on disk;
  the withdrawal removes the temporary files, then the intent. If the process dies in between,
  the next start takes the operation for one that had begun, finds nothing to swap and moves
  the pointer to a provider whose files were never written.
- `CircuitBreakerAbandon` (`proxy/forwarder.rs:842`). The permit is a boolean of the handler's
  future, which hyper drops when the client disconnects. Nobody releases the slot, and the
  half-open provider refuses all further probes.
- `RemoteRuntimeDelete` (`remote/runtime.rs:211`). A deletion does not take the operation lock;
  during a connection it finds no session to end, and the connection then goes online to
  the deleted target.
- `RemoteRuntimeExchange` (`remote/runtime.rs:295`). An exchange of providers with the machine that
  is online checks the generation under one mutex (`:250`) and clones the session under another
  (`:255` to `:258`), without the operation lock. A switch that comes in between lets `provider.add`
  reach the machine that was switched to; only the answer is refused. The window is short against
  the time a connection takes. `runtime.rs:269` says that only the named machine is accessed.
- `ModeControllerDelete` (`services/provider/mod.rs:6488`). The deletion of a provider looks at the
  pointers without the lock and without settling. A switch to it that stopped half way has left an
  intent that had begun; after the deletion, the next command settles it, and the pointer leads to a
  row that is gone. No overlap is needed; a switch under way beside the deletion does the same.
  `provider/mod.rs:6431` says that a provider in use cannot be deleted.

Observations without a run of their own. Of the modelled parts:

- `recover` takes a file at its planned content for proof that publication began
  (`operation.rs:243`; the header accepts this). If the client itself brought the file there,
  an operation that was recorded and never marked is rolled forward; and since `recover`
  does not write the mark, a second crash re-derives the decision from the files, which the
  client may have changed again in the meantime.
- A new trial sets the counter of permits to zero with probes of the earlier one still running;
  when one of those ends, it gives back the slot of the current probe (`circuit_breaker.rs:376`).
  A refused probe adds and subtracts; a new trial in between makes the subtraction wrap (`:328`).
- A request that read the time of the previous opening can turn a breaker half-open right
  after it reopened, without its wait; a success reported by a request that read half-open
  closes a breaker that another report has opened since.
- A switch whose `set_active_target` fails returns after the connecting snapshot and before any
  other (`runtime.rs:205`), and "connecting" stays, until the next switch or the deletion of that
  target. It fails when the store cannot be read or written, and when the target is deleted
  after it was found; in the second case the deletion shows the local machine in the end, unless
  it looked at the snapshot before the connection was shown. `commands/remote.rs:168` says
  of the broadcast after a failed connection that the front end never stays connecting; this is
  true of a failing SSH connection. `AbandonedOnlyByStore` says that there is no other way.
- Saving, deleting and activating a target load and save the whole document without a common
  lock, so one can undo the other (`target_store.rs:76`).
- The same window as in `RemoteRuntimeExchange` is there for every command of `remote_invoke` that
  is not about providers: its answer is refused (`NoCrossTalk`), but the new host carried it out.
- A deletion computes its generation before it ends the session; published late, the
  generation goes back (`runtime.rs:137`).
- When the refusal of a request cannot be written, the `?` (`cc-switch-agent/src/lib.rs:113`)
  leaves the loop without telling the running workers to stop; the scope then waits until they
  end by themselves.
- `stop_server_if_unused` reads the modes without the locks and stops the server afterwards: an
  enter that commits in between is left attached to a server that is stopped
  (`controller.rs:918`).
- An attached client whose route lost its row is not rewritten when the list of the aggregation
  changes; this is why `ContractOnFile` asks for the row.
- A startup whose route lost its row attaches the client to the direct provider and leaves the list
  as it is; this is why `DefaultIsMember` exempts the direct provider.
- When the second application of `exit_apps_in_mode` fails, the `?` (`controller.rs:834`) returns
  before the server is looked at, although the first has left the proxy. `NoIdleServer` is
  therefore about behaviours without a failure.
- A failover result that arrives late overrides a route the user has chosen since, in proxy
  mode without aggregation.
- An enter that stops half way with its intent begun looks at the server before the intent is
  completed, and may stop it; the next command then completes the proxy mode without a server.

Outside the models:

- The row of a route's target is read before the lock and used under it, so that an edit saved
  meanwhile is overwritten in the contract (`controller.rs:1086`, `provider/mod.rs:6612`).
- When `live-state.json` cannot be read, `current.rs:40` takes every application for direct, and
  `stop_server_if_unused` then stops a server that is in use.
- The mirror of the mode that `commands/failover.rs:285` writes is read earlier, without the lock.
- After a reconnection the agent of the broken session may still rebuild while the new one
  synchronises: `session_sync_guard` is local to a process.

## 8. Not modelled

`PROJECT.json` lists every part with its reason. In the modelled parts: durability below the
file system call (a rename or a write that returned is taken to be on disk),
`live-state.json` damaged by something else, the special cases of replacing files on Windows;
the restart of the proxy server, which replaces all breakers, and a future dropped at another
await than the request's own; the credentials and the port forwarding of a remote target; the
encoding of frames and their size limits; what 3.5 names for the mode controller.

The attempt loop of `forwarder.rs` is sequential in the task of its request: it tries the
candidates one after the other and reports once for each. What it shares with other requests is
one breaker at a time, which is `CircuitBreaker` with all its callers' steps, and the route it
moves in the end, which is the failover result of `ModeController`. The set in
`failover_switch.rs` that drops a second switch to the same provider only takes behaviours away.
The rest of the loop (which error counts, how a body is rewritten for a provider) is conversion.

Formats, conversions, accounting and user interface are outside of what these models are about:
they are pure functions or single database statements, and the repository tests them as such.
Most of the lines of the repository are of this kind (protocol transformations, parsers of
session logs, pricing, the settings screens).
