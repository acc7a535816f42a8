---------------------------- MODULE ModeController ----------------------------
(***************************************************************************)
(* The mode of each application (mode/controller.rs): direct, where the    *)
(* client's files say the direct provider; or proxy, where they say a      *)
(* contract with the local proxy, which serves the provider of the route   *)
(* and, in the aggregation mode, every provider of a list.  The commands   *)
(* run as tasks.  Each takes the switch lock of its application and first  *)
(* settles what an earlier one left unfinished; the proxy server, which    *)
(* all applications share, and the rows of the providers have no such      *)
(* lock.  A write of the client's files is one step here with the outcomes *)
(* LiveOperation gives it: done, refused with nothing changed, or stopped  *)
(* half way with its intent left behind.                                   *)
(***************************************************************************)
EXTENDS Naturals, FiniteSets, Sequences

CONSTANTS
    AppOrder,     \* PROXY_APPS: the applications, in the order of the loops
    StackOrder,   \* those that have the aggregation mode, in the same order
    BareApps,     \* those whose exit, not attached, settles without a recovery
    Providers,
    Joinable,     \* the providers that may join the aggregation
    Routable,     \* the providers that may be asked for as a route
    Tasks,        \* the tasks that run commands
    None,         \* no provider, no contract, no intent, nobody
    FirstRows,    \* the rows each application begins with
    Left,         \* what the last process, which detached everything, left settled
    MaxAsked,     \* bound on the commands of one behaviour
    MaxFaults,    \* bound on its failures
    MaxCrashes    \* bound on the deaths of the process

Apps == {AppOrder[i] : i \in DOMAIN AppOrder}
StackApps == {StackOrder[i] : i \in DOMAIN StackOrder}
PROXY_APPS == AppOrder

\* What the CC Switch fields of a client's files say.
Direct(p) == [to |-> "direct", who |-> p, models |-> {}]
Contract(p, models) == [to |-> "proxy", who |-> p, models |-> models]

Contracts == [to : {"proxy"}, who : Providers, models : SUBSET Providers]
Clients == [to : {"direct"}, who : Providers \cup {None}, models : {{}}] \cup Contracts
States == [mode : {"direct", "proxy"}, attached : BOOLEAN, route : Providers \cup {None},
           contract : Contracts \cup {None}, direct : Providers \cup {None},
           on : BOOLEAN, members : SUBSET Providers]
Intents == [state : States, client : Clients, begun : BOOLEAN]

Rounds == {"exitMode", "exitAll", "detach", "startup"}
Ops == Rounds \cup {"enter", "exit", "switch", "route", "setRoute", "failoverOn", "failover",
                    "member", "resync", "delete", "start", "stop"}
Points == {"idle", "lock", "serve", "bind", "store", "write", "act", "retreat",
           "next", "unused", "halt", "check", "erase"}
Job == [op : Ops, app : Apps \cup {None}, who : Providers \cup {None}, on : BOOLEAN,
        left : Seq(Apps), did : BOOLEAN]
NoJob == [op |-> "stop", app |-> None, who |-> None, on |-> FALSE, left |-> <<>>, did |-> FALSE]

ASSUME AppAssumption == /\ AppOrder \in Seq(Apps) /\ IsFiniteSet(Apps)
                        /\ StackOrder \in Seq(Apps) /\ BareApps \subseteq Apps
ASSUME ProviderAssumption == /\ Joinable \subseteq Providers /\ Routable \subseteq Providers
                             /\ FirstRows \in [Apps -> SUBSET Providers]
\* What a process leaves settled when it has detached an application.
Detached(a) ==
    {m \in States : /\ ~ m.attached /\ m.contract = None /\ m.direct \in FirstRows[a] \cup {None}
                    /\ m.members \subseteq Joinable
                    /\ m.mode = "proxy" => m.route \in FirstRows[a]
                    /\ m.mode = "proxy" /\ m.on => {m.route} \cap Joinable \subseteq m.members}
ASSUME LeftAssumption == \A a \in Apps : Left[a] # {} /\ Left[a] \subseteq Detached(a)
ASSUME NoneAssumption == /\ None \notin Providers /\ None \notin Apps /\ None \notin Tasks
                         /\ None \notin Clients /\ None \notin Intents
ASSUME BoundAssumption == {MaxAsked, MaxFaults, MaxCrashes} \subseteq Nat

VARIABLES
    settled,   \* live-state.json and the direct pointer, per application
    pending,   \* its intent to write the client's files, or None
    client,    \* what the client's files say
    rows,      \* the rows of the providers in the database
    lock,      \* who holds the switch lock of the application
    server,    \* the proxy server: down, bound but not yet stored, or up
    manual,    \* whether the user started it from the settings page
    booting,   \* whether the process has yet to run its startup
    at,        \* where each task stands
    job,       \* the command it runs
    asked, faults, crashes   \* what the bounds count

files == <<settled, pending, client>>
counts == <<asked, faults, crashes>>
vars == <<settled, pending, client, rows, lock, server, manual, booting, at, job, counts>>

App(k) == job[k].app
Asks(k, ops) == job[k].op \in ops

Fault == faults < MaxFaults /\ faults' = faults + 1

\* The list after p became the default.
add_default(members, p) == members \cup ({p} \cap Joinable)

\* What the aggregation publishes: the members of the list that have a row.
published_members(a, on, members) == IF on THEN members \cap rows[a] ELSE {}

-----------------------------------------------------------------------------
\* Control: where a task goes.

Goto(k, p) == at' = [at EXCEPT ![k] = p] /\ UNCHANGED <<job, lock>>

\* Mutant of Leave: the lock lives on while a round turns to its next application.
LeaveHolding(k, p, did) ==
    /\ at' = [at EXCEPT ![k] = p]
    /\ job' = [job EXCEPT ![k] = IF p = "idle" THEN NoJob ELSE [@ EXCEPT !.did = did]]
    /\ lock' = [a \in Apps |-> IF lock[a] = k /\ p # "next" THEN None ELSE lock[a]]

\* The task leaves the application and its lock.
Leave(k, p, did) ==
    /\ at' = [at EXCEPT ![k] = p]
    /\ job' = [job EXCEPT ![k] = IF p = "idle" THEN NoJob ELSE [@ EXCEPT !.did = did]]
    /\ lock' = [a \in Apps |-> IF lock[a] = k THEN None ELSE lock[a]]

\* Mutant of OnSuccess: exit leaves the server alone.
OnSuccessServing(op) == IF op = "exit" THEN "idle"
                        ELSE IF op \in Rounds THEN "next"
                        ELSE IF op = "delete" THEN "erase" ELSE "idle"

\* Mutant of OnError: a round tries an application that failed once more.
OnErrorAgain(op) == IF op = "enter" THEN "unused"
                    ELSE IF op \in Rounds THEN "lock" ELSE "idle"

\* Where a command goes on when its part under the lock succeeded, and when it failed.
OnSuccess(op) == IF op = "exit" THEN "unused"
                 ELSE IF op \in Rounds THEN "next"
                 ELSE IF op = "delete" THEN "erase" ELSE "idle"
OnError(op) == IF op = "enter" THEN "unused"
               ELSE IF op \in Rounds \ {"exitMode"} THEN "next" ELSE "idle"

Succeeds(k) == Leave(k, OnSuccess(job[k].op), job[k].did \/ Asks(k, {"exitMode"}))

\* A startup that cannot attach an application falls back to direct.
Fails(k) == IF at[k] \in {"bind", "write"} /\ Asks(k, {"startup"})
            THEN Goto(k, "retreat")
            ELSE Leave(k, OnError(job[k].op), job[k].did)

-----------------------------------------------------------------------------
\* Writing and settling.

\* The outcomes of an operation that settles s and makes the client's files say c.
Write(k, s, c) ==
    LET a == App(k) IN
    \/ /\ settled' = [settled EXCEPT ![a] = s]
       /\ client' = [client EXCEPT ![a] = c]
       /\ pending' = [pending EXCEPT ![a] = None]
       /\ Succeeds(k) /\ UNCHANGED faults
    \/ /\ Fault /\ Fails(k)
       /\ pending' = [pending EXCEPT ![a] = None]
       /\ UNCHANGED <<settled, client>>
    \* Nothing to change in the files: the state is settled, its mirror in the database fails.
    \/ /\ c = client[a]
       /\ Fault /\ Fails(k)
       /\ settled' = [settled EXCEPT ![a] = s]
       /\ pending' = [pending EXCEPT ![a] = None]
       /\ UNCHANGED client
    \/ /\ c # client[a]
       /\ Fault /\ Fails(k)
       /\ \E begun \in BOOLEAN :
             /\ pending' = [pending EXCEPT ![a] = [state |-> s, client |-> c, begun |-> begun]]
             /\ client' \in {client} \cup IF begun THEN {[client EXCEPT ![a] = c]} ELSE {}
             /\ settled' \in {settled} \cup IF client' # client THEN {[settled EXCEPT ![a] = s]}
                                           ELSE {}

\* Mutant of settle: what had begun is dropped too.
settleByDropping(S, Stuck) ==
    /\ pending' = [a \in Apps |-> IF a \in S THEN None ELSE pending[a]]
    /\ UNCHANGED <<settled, client>>

\* operation::settle of the applications of S: what had begun is completed,
\* what had not is dropped.  Of those in Stuck what had begun reaches the files,
\* then the settlement fails.
settle(S, Stuck) ==
    LET on == {a \in S \cup Stuck : pending[a] # None /\ pending[a].begun} IN
    /\ settled' = [a \in Apps |-> IF a \in on \ Stuck THEN pending[a].state ELSE settled[a]]
    /\ client' = [a \in Apps |-> IF a \in on THEN pending[a].client ELSE client[a]]
    /\ pending' = [a \in Apps |-> IF a \in S THEN None ELSE pending[a]]

\* The files after a settlement of application a that failed.
Unsettled(a) == \E Stuck \in SUBSET {a} : settle({}, Stuck)

\* Under the lock: an attaching command first looks at the server.
Begin(k) ==
    IF Asks(k, {"enter"}) THEN "serve"
    ELSE IF ~ Asks(k, {"startup"}) THEN "act"
    ELSE IF settled'[App(k)].mode = "proxy" THEN "serve" ELSE "act"

lock_settled(k) ==
    /\ at[k] = "lock" /\ lock[App(k)] = None
    /\ \/ /\ settle({App(k)}, {})
          /\ lock' = [lock EXCEPT ![App(k)] = k]
          /\ at' = [at EXCEPT ![k] = Begin(k)]
          /\ UNCHANGED <<job, faults>>
       \/ Fault /\ Fails(k) /\ Unsettled(App(k))
    /\ UNCHANGED <<rows, server, manual, booting, asked, crashes>>

-----------------------------------------------------------------------------
\* The proxy server.

is_running(k) ==
    /\ at[k] = "serve"
    /\ Goto(k, IF server = "up" THEN "write" ELSE "bind")
    /\ UNCHANGED <<files, rows, server, manual, booting, counts>>

\* start: a server that runs is fine; one that is bound but not stored yet
\* keeps the port from the second.
BindServer(k) ==
    /\ at[k] = "bind"
    /\ \/ /\ server = "up"
          /\ IF Asks(k, {"start"}) THEN Leave(k, "idle", FALSE) ELSE Goto(k, "write")
          /\ manual' = (manual \/ Asks(k, {"start"}))
          /\ UNCHANGED <<server, faults>>
       \/ server = "down" /\ server' = "bound" /\ Goto(k, "store") /\ UNCHANGED <<manual, faults>>
       \/ server = "bound" /\ Fails(k) /\ UNCHANGED <<server, manual, faults>>
       \/ server = "down" /\ Fault /\ Fails(k) /\ UNCHANGED <<server, manual>>
    /\ UNCHANGED <<files, rows, booting, asked, crashes>>

StoreServer(k) ==
    /\ at[k] = "store"
    /\ server' = "up"
    /\ manual' = (manual \/ Asks(k, {"start"}))
    /\ IF Asks(k, {"start"}) THEN Leave(k, "idle", FALSE) ELSE Goto(k, "write")
    /\ UNCHANGED <<files, rows, booting, counts>>

\* stop_server_if_unused, and the check of the stop command: the modes are read
\* without the locks, and the server is stopped in a later step.
stop_server_if_unused(k) ==
    /\ at[k] = "unused"
    /\ IF \E a \in Apps : settled[a].mode = "proxy"
       THEN Leave(k, "idle", FALSE)
       ELSE Goto(k, "halt")
    /\ UNCHANGED <<files, rows, server, manual, booting, counts>>

\* The process is gone, and with it its tasks, locks and server.
ProcessEnds ==
    /\ at' = [k \in Tasks |-> "idle"] /\ job' = [k \in Tasks |-> NoJob]
    /\ lock' = [a \in Apps |-> None]
    /\ server' = "down" /\ manual' = FALSE /\ booting' = TRUE

stop_server(k) ==
    /\ at[k] = "halt"
    /\ IF Asks(k, {"detach"})
       THEN ProcessEnds
       ELSE /\ server' = (IF server = "up" THEN "down" ELSE server)
            /\ manual' = (manual /\ server # "up")
            /\ Leave(k, "idle", FALSE)
            /\ UNCHANGED booting
    /\ UNCHANGED <<files, rows, counts>>

-----------------------------------------------------------------------------
\* Entering and leaving the proxy mode.

\* The route an entering command takes: the one asked for, else the saved one,
\* else the direct provider.
NewRoute(k) ==
    LET a == App(k) IN
    IF job[k].who # None THEN job[k].who
    ELSE IF settled[a].route \in rows[a] THEN settled[a].route
    ELSE IF settled[a].direct \in rows[a] THEN settled[a].direct ELSE None

\* Mutant of enter_locked: without a route and a direct provider it enters all the same.
enter_locked_nowhere(k) ==
    LET a == App(k)
        m == settled[a]
        r == NewRoute(k)
        c == Contract(r, published_members(a, m.on, m.members))
    IN
    /\ at[k] = "write"
    /\ Write(k, [m EXCEPT !.mode = "proxy", !.attached = TRUE, !.route = r, !.contract = c], c)
    /\ UNCHANGED <<rows, server, manual, booting, asked, crashes>>

enter_locked(k) ==
    LET a == App(k)
        m == settled[a]
        r == NewRoute(k)
        on == IF Asks(k, {"startup"}) THEN m.on ELSE job[k].on
        members == IF on /\ ~ Asks(k, {"startup"}) THEN add_default(m.members, r) ELSE m.members
        c == Contract(r, published_members(a, on, members))
    IN
    /\ at[k] = "write"
    /\ \/ r = None /\ Fails(k) /\ UNCHANGED <<files, faults>>
       \/ /\ r # None
          /\ Write(k, [m EXCEPT !.mode = "proxy", !.attached = TRUE, !.route = r,
                                !.contract = c, !.on = on, !.members = members], c)
    /\ UNCHANGED <<rows, server, manual, booting, asked, crashes>>

\* Back to the direct provider; without its row the fields are cleared.
WriteDirect(k, mode) ==
    LET a == App(k)
        m == settled[a]
        p == IF m.direct \in rows[a] THEN m.direct ELSE None
    IN Write(k, [m EXCEPT !.mode = mode, !.attached = FALSE, !.contract = None],
             IF m.attached THEN Direct(p) ELSE client[a])

\* exit_apps_in_mode leaves alone an application in another mode, the others
\* one that has nothing to leave.
NothingToExit(k) ==
    LET m == settled[App(k)] IN
    CASE Asks(k, {"detach"}) -> ~ m.attached
      [] Asks(k, {"exitMode"}) -> m.mode = "direct" \/ m.on # job[k].on
      [] OTHER -> m.mode = "direct" /\ ~ m.attached

exit_locked(k) ==
    /\ at[k] = "act" /\ Asks(k, Rounds \cup {"exit"})
    /\ \/ /\ NothingToExit(k)
          /\ Leave(k, OnSuccess(job[k].op), job[k].did)
          /\ UNCHANGED <<files, faults>>
       \/ /\ ~ NothingToExit(k)
          /\ WriteDirect(k, IF Asks(k, {"detach"}) THEN settled[App(k)].mode ELSE "direct")
    /\ UNCHANGED <<rows, server, manual, booting, asked, crashes>>

\* startup_app falls back to direct under the same lock.  What the failed attach
\* left half way is completed, and the exit then refused (recover_before_write);
\* an exit that has no file to write settles beside it.
Retreat(k) ==
    LET a == App(k) IN
    /\ at[k] = "retreat"
    /\ IF pending[a] = None \/ ~ pending[a].begun
       THEN WriteDirect(k, "direct")
       ELSE \/ settle({a}, {}) /\ Leave(k, "next", FALSE) /\ UNCHANGED faults
            \/ Fault /\ Leave(k, "next", FALSE) /\ Unsettled(a)
            \/ /\ a \in BareApps /\ ~ settled[a].attached
               /\ settled' = [settled EXCEPT ![a] = [@ EXCEPT !.mode = "direct", !.contract = None]]
               /\ Leave(k, "next", FALSE)
               /\ UNCHANGED <<client, pending, faults>>
    /\ UNCHANGED <<rows, server, manual, booting, asked, crashes>>

-----------------------------------------------------------------------------
\* Moving the route, the direct pointer and the list.

RouteTo(k, p) ==
    LET a == App(k)
        m == settled[a]
        members == IF m.on THEN add_default(m.members, p) ELSE m.members
        s == [m EXCEPT !.route = p, !.members = members]
        c == Contract(p, published_members(a, m.on, members))
    IN IF m.attached THEN Write(k, [s EXCEPT !.contract = c], c) ELSE Write(k, s, client[a])

\* Whether the client is attached to a route that has a row.
attached_route(a) ==
    settled[a].mode = "proxy" /\ settled[a].attached /\ settled[a].route \in rows[a]

Act(k, ops) == at[k] = "act" /\ Asks(k, ops)
Rejected(k) == Fails(k) /\ UNCHANGED <<files, faults>>
NothingToDo(k) == Succeeds(k) /\ UNCHANGED <<files, faults>>
TheRest == <<rows, server, manual, booting, asked, crashes>>

\* switch_inner: the direct pointer in direct mode, the route in proxy mode.
switch_inner(k) ==
    LET a == App(k)  m == settled[a]  p == job[k].who IN
    /\ Act(k, {"switch"})
    /\ \/ m.mode = "direct" /\ Write(k, [m EXCEPT !.direct = p], Direct(p))
       \/ m.mode = "proxy" /\ p \in Routable /\ RouteTo(k, p)
       \/ m.mode = "proxy" /\ p \notin Routable /\ Rejected(k)
    /\ UNCHANGED TheRest

\* switch_route, and switch_route_for_failover, which the aggregation mode rejects.
switch_route_checked(k) ==
    LET m == settled[App(k)] IN
    /\ Act(k, {"route", "failoverOn"})
    /\ \/ /\ m.mode = "direct" \/ (Asks(k, {"failoverOn"}) /\ m.on)
          /\ Rejected(k)
       \/ /\ m.mode = "proxy" /\ ~ (Asks(k, {"failoverOn"}) /\ m.on)
          /\ RouteTo(k, job[k].who)
    /\ UNCHANGED TheRest

\* In direct mode the route is only remembered for the next time.
set_route(k) ==
    LET a == App(k)  m == settled[a]  p == job[k].who IN
    /\ Act(k, {"setRoute"})
    /\ \/ m.mode = "proxy" /\ RouteTo(k, p)
       \/ m.mode = "direct" /\ m.route = p /\ NothingToDo(k)
       \/ m.mode = "direct" /\ m.route # p /\ Write(k, [m EXCEPT !.route = p], client[a])
    /\ UNCHANGED TheRest

\* Mutant of record_failover_route: a failover moves the default of the aggregation mode.
record_failover_route_stacked(k) ==
    LET a == App(k)  m == settled[a]  p == job[k].who IN
    /\ Act(k, {"failover"})
    /\ \/ /\ m.mode = "direct" \/ m.route = p \/ p \notin rows[a]
          /\ NothingToDo(k)
       \/ /\ m.mode = "proxy" /\ m.route # p /\ p \in rows[a]
          /\ Write(k, [m EXCEPT !.route = p], client[a])
    /\ UNCHANGED TheRest

\* The result of a request that went to another provider.
record_failover_route(k) ==
    LET a == App(k)  m == settled[a]  p == job[k].who IN
    /\ Act(k, {"failover"})
    /\ \/ /\ m.mode = "direct" \/ m.route = p \/ m.on \/ p \notin rows[a]
          /\ NothingToDo(k)
       \/ /\ m.mode = "proxy" /\ m.route # p /\ ~ m.on /\ p \in rows[a]
          /\ Write(k, [m EXCEPT !.route = p], client[a])
    /\ UNCHANGED TheRest

\* Mutant of set_stack_member_locked: an attached client is not rewritten.
set_stack_member_unwritten(k) ==
    LET a == App(k)
        m == settled[a]
        p == job[k].who
        members == IF job[k].on THEN m.members \cup {p} ELSE m.members \ {p}
    IN
    /\ Act(k, {"member", "delete"})
    /\ \/ /\ IF job[k].on THEN p \notin rows[a] \cap Joinable
                          ELSE m.on /\ m.mode = "proxy" /\ m.route = p
          /\ Rejected(k)
       \/ /\ IF job[k].on THEN p \in rows[a] \cap Joinable
                          ELSE ~ (m.on /\ m.mode = "proxy" /\ m.route = p)
          /\ Write(k, [m EXCEPT !.members = members], client[a])
    /\ UNCHANGED TheRest

set_stack_member_locked(k) ==
    LET a == App(k)
        m == settled[a]
        p == job[k].who
        members == IF job[k].on THEN m.members \cup {p} ELSE m.members \ {p}
        s == [m EXCEPT !.members = members]
        c == Contract(m.route, published_members(a, m.on, members))
    IN
    /\ Act(k, {"member", "delete"})
    /\ \/ /\ IF job[k].on THEN p \notin rows[a] \cap Joinable
                          ELSE m.on /\ m.mode = "proxy" /\ m.route = p
          /\ Rejected(k)
       \/ /\ IF job[k].on THEN p \in rows[a] \cap Joinable
                          ELSE ~ (m.on /\ m.mode = "proxy" /\ m.route = p)
          /\ IF members = m.members THEN NothingToDo(k)
             ELSE IF attached_route(a)
             THEN Write(k, [s EXCEPT !.contract = c], c)
             ELSE Write(k, s, client[a])
    /\ UNCHANGED TheRest

resync_route(k) ==
    LET a == App(k)  m == settled[a] IN
    /\ Act(k, {"resync"})
    /\ IF attached_route(a) THEN RouteTo(k, m.route) ELSE NothingToDo(k)
    /\ UNCHANGED TheRest

\* What a command reads before it takes the lock: do_switch, that the
\* application is in proxy mode; delete, that nothing points at the provider.
is_referenced(a, p) ==
    settled[a].direct = p \/ (settled[a].mode = "proxy" /\ settled[a].route = p)

Check(k) ==
    LET a == App(k)  p == job[k].who IN
    /\ at[k] = "check"
    /\ \/ /\ Asks(k, {"failover"})
          /\ Leave(k, IF settled[a].mode = "proxy" THEN "lock" ELSE "idle", FALSE)
       \/ /\ Asks(k, {"delete"})
          /\ Leave(k, IF is_referenced(a, p) THEN "idle"
                      ELSE IF p \in settled[a].members THEN "lock" ELSE "erase", FALSE)
    /\ UNCHANGED <<files, faults, TheRest>>

delete_provider(k) ==
    /\ at[k] = "erase"
    /\ rows' = [rows EXCEPT ![App(k)] = @ \ {job[k].who}]
    /\ Leave(k, "idle", FALSE)
    /\ UNCHANGED <<files, server, manual, booting, counts>>

-----------------------------------------------------------------------------
\* The commands and the process.

Command(ops, apps, whos, ons) == [op : ops, app : apps, who : whos, on : ons]
Commands ==
    Command({"enter"}, Apps, Routable \cup {None}, {FALSE})
    \cup Command({"enter"}, StackApps, Routable \cup {None}, {TRUE})
    \cup Command({"exit", "resync"}, Apps, {None}, {FALSE})
    \cup Command({"exitMode"}, {None}, {None}, BOOLEAN)
    \cup Command({"exitAll", "detach", "start", "stop"}, {None}, {None}, {FALSE})
    \cup Command({"switch", "failover", "delete"}, Apps, Providers, {FALSE})
    \cup Command({"route", "setRoute", "failoverOn"}, Apps, Routable, {FALSE})
    \cup Command({"member"}, StackApps, Providers, BOOLEAN)

FirstPoint(op) == CASE op \in Rounds -> "next"
                    [] op \in {"failover", "delete"} -> "check"
                    [] op = "start" -> "bind"
                    [] op = "stop" -> "unused"
                    [] OTHER -> "lock"

\* exit_apps_in_mode looks at the applications that have the aggregation mode.
Round(op) == IF op \notin Rounds THEN <<>>
             ELSE IF op = "exitMode" THEN StackOrder ELSE PROXY_APPS

NewJob(c) == [op |-> c.op, app |-> c.app, who |-> c.who, on |-> c.on,
              left |-> Round(c.op), did |-> FALSE]

Ask(k) ==
    /\ at[k] = "idle" /\ ~ booting /\ asked < MaxAsked
    /\ asked' = asked + 1
    /\ \E c \in Commands :
          /\ c.who # None => c.who \in rows[c.app]
          /\ at' = [at EXCEPT ![k] = FirstPoint(c.op)]
          /\ job' = [job EXCEPT ![k] = NewJob(c)]
    /\ UNCHANGED <<files, rows, lock, server, manual, booting, faults, crashes>>

\* The loop over the applications, and what comes after it.
NextApp(k) ==
    /\ at[k] = "next"
    /\ IF job[k].left # <<>>
       THEN /\ at' = [at EXCEPT ![k] = "lock"]
            /\ job' = [job EXCEPT ![k].app = Head(job[k].left), ![k].left = Tail(@)]
            /\ UNCHANGED lock
       ELSE Leave(k, IF Asks(k, {"exitAll", "detach"}) THEN "halt"
                     ELSE IF Asks(k, {"exitMode"}) /\ ~ job[k].did THEN "idle" ELSE "unused",
                  job[k].did)
    /\ UNCHANGED <<files, faults, TheRest>>

\* A new process: what earlier ones left is settled where it can be
\* (recover_on_startup), then the startup attaches.
Boot(k) ==
    /\ booting /\ booting' = FALSE
    /\ \E Failing \in SUBSET {a \in Apps : pending[a] # None} :
          /\ faults' = faults + Cardinality(Failing) /\ faults' <= MaxFaults
          /\ \E Stuck \in SUBSET Failing : settle(Apps \ Failing, Stuck)
    /\ at' = [at EXCEPT ![k] = "next"]
    /\ job' = [job EXCEPT ![k] = NewJob([op |-> "startup", app |-> None, who |-> None, on |-> FALSE])]
    /\ UNCHANGED <<rows, lock, server, manual, asked, crashes>>

Crash ==
    /\ ~ booting /\ crashes < MaxCrashes
    /\ crashes' = crashes + 1
    /\ ProcessEnds
    /\ UNCHANGED <<files, rows, asked, faults>>

Init ==
    /\ settled \in {f \in [Apps -> UNION {Left[a] : a \in Apps}] : \A a \in Apps : f[a] \in Left[a]}
    /\ pending = [a \in Apps |-> None]
    /\ client = [a \in Apps |-> Direct(settled[a].direct)]
    /\ rows = FirstRows
    /\ lock = [a \in Apps |-> None]
    /\ server = "down" /\ manual = FALSE /\ booting = TRUE
    /\ at = [k \in Tasks |-> "idle"] /\ job = [k \in Tasks |-> NoJob]
    /\ asked = 0 /\ faults = 0 /\ crashes = 0

Free(k) == \/ is_running(k) \/ BindServer(k) \/ StoreServer(k)
           \/ stop_server_if_unused(k) \/ stop_server(k) \/ enter_locked(k)
           \/ exit_locked(k) \/ Retreat(k) \/ switch_inner(k) \/ switch_route_checked(k)
           \/ set_route(k) \/ record_failover_route(k) \/ set_stack_member_locked(k)
           \/ resync_route(k) \/ Check(k) \/ delete_provider(k) \/ NextApp(k)

Next == \/ \E k \in Tasks : Ask(k) \/ Boot(k) \/ lock_settled(k) \/ Free(k)
        \/ Crash

Spec == Init /\ [][Next]_vars

-----------------------------------------------------------------------------
(* Properties *)

\* Every variable has its type: the one type invariant of the module.
TypeOK ==
    /\ settled \in [Apps -> States]
    /\ pending \in [Apps -> Intents \cup {None}]
    /\ client \in [Apps -> Clients]
    /\ rows \in [Apps -> SUBSET Providers]
    /\ lock \in [Apps -> Tasks \cup {None}]
    /\ server \in {"down", "bound", "up"} /\ manual \in BOOLEAN /\ booting \in BOOLEAN
    /\ at \in [Tasks -> Points] /\ job \in [Tasks -> Job]
    /\ asked \in Nat /\ faults \in Nat /\ crashes \in Nat

Current(a) == lock[a] = None /\ pending[a] = None

\* Whenever nobody is at work on an application and it has no unfinished
\* intent, its files say what its record says they say: the contract on record
\* if it is attached, the direct provider (or nothing) if it is not; and an
\* attached client is offered exactly the members of the list.  Commands that
\* overlap, writes that stop half way, restarts and deletions keep it.  One thing
\* is not promised: when a deletion has taken the row of the route away, a change
\* to the list of the aggregation mode does not reach the client
\* (set_stack_member_locked), so it may go on offering what left the list.
ContractOnFile ==
    \A a \in Apps : Current(a) =>
       LET m == settled[a] IN
       /\ m.attached => /\ m.mode = "proxy" /\ m.contract = client[a] /\ client[a].to = "proxy"
                        /\ ~ m.on \/ m.route \in rows[a] =>
                              client[a].models \cap rows[a] = published_members(a, m.on, m.members)
       /\ ~ m.attached => /\ m.contract = None /\ client[a].to = "direct"
                          /\ client[a].who \in {m.direct, None}

\* In the aggregation mode the default is on the list of the providers on
\* offer, if it may be there at all (the header of mode/stack.rs: the default
\* is on the list too and cannot be removed).  The direct provider is exempt: a
\* startup whose route has lost its row attaches to it and leaves the list as it is.
DefaultIsMember ==
    \A a \in Apps :
       LET m == settled[a] IN
       m.mode = "proxy" /\ m.on /\ m.route \in Joinable \ {m.direct} => m.route \in m.members

\* The provider an application points at, directly or as its route in proxy
\* mode, has a row (ProviderService::delete refuses one that is in use).  The
\* code does not keep this: delete looks at the record without the lock and
\* without settling, so it misses a switch that is under way and one that stopped
\* half way and has yet to be settled.
PointersExist ==
    \A a \in Apps :
       LET m == settled[a] IN
       /\ m.direct # None => m.direct \in rows[a]
       /\ m.mode = "proxy" => m.route \in rows[a]

\* When all commands have returned and none of their writes failed, a server
\* still runs only for an application in proxy mode or for the user who
\* started it (stop_server_if_unused).
NoIdleServer ==
    /\ faults = 0 /\ (\A k \in Tasks : at[k] = "idle") /\ server = "up"
    => manual \/ \E a \in Apps : settled[a].mode = "proxy"

\* The mode of an application as it will be once its intent is settled.
Mode(a) ==
    LET m == IF pending[a] # None /\ pending[a].begun THEN pending[a].state ELSE settled[a] IN
    [mode |-> m.mode, attached |-> m.attached, route |-> m.route, direct |-> m.direct,
     on |-> m.on, members |-> m.members]

Modes == INSTANCE AppModes WITH modes <- [a \in Apps |-> Mode(a)]

\* Whatever overlaps, fails half way or dies, the mode of each application
\* changes as if the commands came one at a time (AppModes).
KeepsModes == Modes!Spec

\* A task that holds a lock never waits for one, so no circle of waiting tasks
\* forms: every command is done with one application before it turns to the
\* next, and what runs under a lock does not take it again.
HoldersNeverWait ==
    \A k \in Tasks, a \in Apps : lock[a] = k => at[k] \notin {"lock", "next", "idle"}

\* The steps a command can still take: those for the applications its round has
\* left, and those for the one it is at.
Turn == [idle |-> 0, halt |-> 1, unused |-> 2, next |-> 3, erase |-> 3, retreat |-> 4, act |-> 5,
         write |-> 5, store |-> 6, bind |-> 7, serve |-> 8, lock |-> 9, check |-> 10]
StepsLeft(k) == 10 * Len(job[k].left) + Turn[at[k]]

\* Between two commands that are asked, every step brings one command nearer to
\* its return and none further from it: no round comes back to an application
\* that failed, no start waits for a port it cannot have, and a startup falls back
\* once (exit_apps_in_mode, startup_app, start).
CommandsGetOn ==
    [][asked' = asked /\ crashes' = crashes /\ ~ booting =>
         /\ \E k \in Tasks : StepsLeft(k)' < StepsLeft(k)
         /\ \A k \in Tasks : StepsLeft(k)' <= StepsLeft(k)]_vars
=============================================================================
