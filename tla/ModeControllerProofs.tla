------------------------- MODULE ModeControllerProofs -------------------------
(***************************************************************************)
(* Proofs about the modes of the applications, for any applications,       *)
(* providers, tasks and bounds: the control of the commands, that they     *)
(* never wait for each other in a circle, that the modes change as AppModes*)
(* says, and that a server nobody uses is stopped.                         *)
(***************************************************************************)
EXTENDS ModeController, FiniteSetTheorems, TLAPS

FileTypes ==
    /\ settled \in [Apps -> States]
    /\ pending \in [Apps -> Intents \cup {None}]
    /\ client \in [Apps -> Clients]
TaskTypes ==
    /\ lock \in [Apps -> Tasks \cup {None}]
    /\ at \in [Tasks -> Points] /\ job \in [Tasks -> Job]
RestTypes ==
    /\ rows \in [Apps -> SUBSET Providers]
    /\ server \in {"down", "bound", "up"} /\ manual \in BOOLEAN /\ booting \in BOOLEAN
    /\ asked \in Nat /\ faults \in Nat /\ crashes \in Nat

\* The commands that name a provider.
Aimed == {"switch", "route", "setRoute", "failoverOn", "failover", "member", "delete"}

\* The points of a task that works under the lock of its application.
Holding(k) == \/ at[k] \in {"serve", "write", "act", "retreat"}
              \/ at[k] \in {"bind", "store"} /\ job[k].op # "start"

\* The commands that come to a point.
Comes(op, p) ==
    /\ p \in {"serve", "write"} => op \in {"enter", "startup"}
    /\ p \in {"bind", "store"} => op \in {"enter", "startup", "start"}
    /\ p = "retreat" => op = "startup"
    /\ p = "act" => op \notin {"enter", "start", "stop"}
    /\ p = "next" => op \in Rounds
    /\ p = "check" => op \in {"failover", "delete"}
    /\ p = "erase" => op = "delete"
    /\ p = "lock" => op \notin {"start", "stop"}

\* A task at work knows its application and its provider.
Equipped(k) ==
    /\ Comes(job[k].op, at[k])
    /\ at[k] \notin {"next", "unused", "halt"} /\ job[k].op # "start" => App(k) \in Apps
    /\ job[k].op \in Aimed => App(k) \in Apps /\ job[k].who \in Providers
    /\ job[k].op \in Rounds => job[k].who = None

Control ==
    /\ \A k \in Tasks : at[k] # "idle" => Equipped(k)
    /\ \A k \in Tasks : Holding(k) => lock[App(k)] = k
    /\ \A k \in Tasks, a \in Apps : lock[a] = k => Holding(k) /\ a = App(k)

\* What the lock is taken for begins with nothing unfinished, and the startup
\* attaches what was left in proxy mode.
FreshAt(k) ==
    /\ at[k] # "retreat" => pending[App(k)] = None
    /\ at[k] \in {"serve", "bind", "store", "write"} /\ job[k].op = "startup"
       => settled[App(k)].mode = "proxy"
Fresh == \A k \in Tasks : Holding(k) => FreshAt(k)

\* A process that has yet to start runs nothing.
Quiet == booting => \A k \in Tasks : at[k] = "idle"

Inv == FileTypes /\ TaskTypes /\ RestTypes /\ Control /\ Fresh /\ Quiet

-----------------------------------------------------------------------------
(* The moves of a task *)

\* Where a command may go once it has left its application.
Leaves(k, p) ==
    \/ p \in {"idle", "unused", "halt"}
    \/ p = "next" /\ job[k].op \in Rounds
    \/ p = "erase" /\ job[k].op = "delete"
    \/ p = "lock" /\ job[k].op \in {"failover", "delete"}

\* A task that goes on does so with the command it has.
Same(k) == at'[k] # "idle" => /\ job'[k].op = job[k].op /\ job'[k].who = job[k].who
                             /\ (job'[k].app = job[k].app \/ job[k].who = None)

\* A task that leaves its application keeps no lock, and the others keep theirs.
LEMMA LeaveKeeps ==
    ASSUME NEW k \in Tasks, NEW p, NEW did \in BOOLEAN,
           TaskTypes, Control, at[k] # "idle", Leaves(k, p), Leave(k, p, did)
    PROVE  /\ TaskTypes' /\ Control' /\ ~ Holding(k)' /\ Same(k)
           /\ \A j \in Tasks \ {k} : at'[j] = at[j] /\ job'[j] = job[j]
<1>1. /\ p \in Points /\ at' = [at EXCEPT ![k] = p]
  BY DEF Leaves, Leave, Points
<1>2. job'[k] \in Job
  <2>1. NoJob \in Job
    BY DEF NoJob, Job, Ops, Rounds
  <2>2. [job[k] EXCEPT !.did = did] \in Job
    BY DEF TaskTypes, Job
  <2> QED BY <2>1, <2>2 DEF Leave, TaskTypes
<1>3. /\ \A j \in Tasks \ {k} : job'[j] = job[j] /\ at'[j] = at[j]
      /\ job' \in [Tasks -> Job] /\ at' \in [Tasks -> Points] /\ at'[k] = p
  BY <1>1, <1>2 DEF Leave, TaskTypes
<1>4. lock' = [a \in Apps |-> IF lock[a] = k THEN None ELSE lock[a]]
  BY DEF Leave
<1>5. p # "idle" => /\ job'[k].op = job[k].op /\ job'[k].app = job[k].app
                    /\ job'[k].who = job[k].who
  BY DEF Leave, TaskTypes, Job
<1>6. ~ Holding(k)'
  BY <1>3 DEF Holding, Leaves
<1>7. \A j \in Tasks : at'[j] # "idle" => Equipped(j)'
  <2> SUFFICES ASSUME NEW j \in Tasks, at'[j] # "idle" PROVE Equipped(j)'
    OBVIOUS
  <2>1. CASE j # k
    BY <2>1, <1>3 DEF Control, Equipped, App
  <2>2. CASE j = k
    BY <2>2, <1>3, <1>5 DEF Control, Equipped, App, Comes, Leaves, Aimed, Rounds
  <2> QED BY <2>1, <2>2
<1>8. \A j \in Tasks : Holding(j)' => lock'[App(j)'] = j
  <2> SUFFICES ASSUME NEW j \in Tasks, Holding(j)' PROVE lock'[App(j)'] = j
    OBVIOUS
  <2>1. j # k /\ Holding(j) /\ App(j)' = App(j) /\ at[j] # "idle"
    BY <1>3, <1>6 DEF Holding, App
  <2>2. lock[App(j)] = j /\ App(j) \in Apps
    BY <2>1 DEF Control, Equipped, Comes, Holding, App
  <2> QED BY <2>1, <2>2, <1>4
<1>9. \A j \in Tasks, a \in Apps : lock'[a] = j => Holding(j)' /\ a = App(j)'
  BY <1>3, <1>4, NoneAssumption DEF Control, Holding, App
<1>10. Same(k)
  BY <1>3, <1>5 DEF Same
<1> QED BY <1>3, <1>4, <1>6, <1>7, <1>8, <1>9, <1>10 DEF Control, TaskTypes

\* A task that goes on inside or outside the lock it has stays in control.
LEMMA GotoKeeps ==
    ASSUME NEW k \in Tasks, NEW p \in Points,
           TaskTypes, Control, at[k] # "idle", p # "idle",
           Comes(job[k].op, p), Goto(k, p), Holding(k) <=> Holding(k)',
           at[k] \in {"next", "unused", "halt"} => p \in {"next", "unused", "halt"}
    PROVE  TaskTypes' /\ Control'
<1>1. /\ at' = [at EXCEPT ![k] = p] /\ job' = job /\ lock' = lock
      /\ at' \in [Tasks -> Points]
  BY DEF Goto, TaskTypes
<1>2. \A j \in Tasks : (Holding(j) <=> Holding(j)') /\ App(j)' = App(j)
  BY <1>1 DEF Holding, TaskTypes, App
<1>3. \A j \in Tasks : at'[j] # "idle" => Equipped(j)'
  BY <1>1 DEF Control, Equipped, App, TaskTypes
<1> QED BY <1>1, <1>2, <1>3 DEF Control, TaskTypes

\* Once a command is done with its application, it works there no more, unless
\* a startup falls back; the other tasks are where they were.
Gone(k) ==
    /\ TaskTypes' /\ Control' /\ Same(k)
    /\ Holding(k)' => at'[k] = "retreat"
    /\ \A j \in Tasks \ {k} : at'[j] = at[j] /\ job'[j] = job[j]

LEMMA LeaveGone ==
    ASSUME NEW k \in Tasks, NEW p, NEW did \in BOOLEAN,
           TaskTypes, Control, at[k] # "idle", Leaves(k, p), Leave(k, p, did)
    PROVE  Gone(k)
BY LeaveKeeps DEF Gone

LEMMA SucceedsKeeps ==
    ASSUME NEW k \in Tasks, TaskTypes, Control, at[k] # "idle", Succeeds(k)
    PROVE  Gone(k)
<1>1. Leaves(k, OnSuccess(job[k].op))
  BY DEF Leaves, OnSuccess
<1>2. (job[k].did \/ Asks(k, {"exitMode"})) \in BOOLEAN
  BY DEF TaskTypes, Job, Asks
<1> QED BY <1>1, <1>2, LeaveGone DEF Succeeds

LEMMA FailsKeeps ==
    ASSUME NEW k \in Tasks, TaskTypes, Control, at[k] # "idle", Fails(k)
    PROVE  Gone(k)
<1>1. CASE at[k] \in {"bind", "write"} /\ Asks(k, {"startup"})
  <2>1. Goto(k, "retreat")
    BY <1>1 DEF Fails
  <2>2. at' = [at EXCEPT ![k] = "retreat"] /\ job' = job
    BY <2>1 DEF Goto
  <2>3. Holding(k) /\ Holding(k)'
    BY <1>1, <2>2 DEF Holding, Asks, TaskTypes
  <2>4. Comes(job[k].op, "retreat")
    BY <1>1 DEF Asks, Comes, Rounds
  <2>5. TaskTypes' /\ Control'
    BY <1>1, <2>1, <2>3, <2>4, GotoKeeps DEF Points
  <2> QED BY <2>2, <2>5 DEF Gone, TaskTypes, Same
<1>2. CASE ~ (at[k] \in {"bind", "write"} /\ Asks(k, {"startup"}))
  <2>1. Leave(k, OnError(job[k].op), job[k].did)
    BY <1>2 DEF Fails
  <2>2. Leaves(k, OnError(job[k].op))
    BY DEF Leaves, OnError
  <2>3. job[k].did \in BOOLEAN
    BY DEF TaskTypes, Job
  <2> QED BY <2>1, <2>2, <2>3, LeaveGone
<1> QED BY <1>1, <1>2

\* Only the application of a task that holds its lock is written.
Confined(k) ==
    \/ settled' = settled /\ pending' = pending
    \/ Holding(k) /\ \A b \in Apps : b # App(k) => settled'[b] = settled[b] /\ pending'[b] = pending[b]

\* The others still begin with nothing unfinished.
LEMMA FreshKeeps ==
    ASSUME NEW k \in Tasks, FileTypes, TaskTypes, Control, Fresh, Gone(k), Confined(k)
    PROVE  Fresh'
<1> SUFFICES ASSUME NEW j \in Tasks, Holding(j)' PROVE FreshAt(j)'
  BY DEF Fresh
<1>1. CASE j = k
  BY <1>1 DEF FreshAt, Gone
<1>2. CASE j # k
  <2>1. at'[j] = at[j] /\ job'[j] = job[j]
    BY <1>2 DEF Gone
  <2>2. Holding(j) /\ App(j)' = App(j) /\ at[j] # "idle"
    BY <2>1 DEF Holding, App
  <2>3. FreshAt(j) /\ lock[App(j)] = j /\ App(j) \in Apps
    BY <2>2 DEF Fresh, Control, Equipped, Comes, Holding, App
  <2>4. Holding(k) => App(k) # App(j)
    BY <1>2, <2>3 DEF Control
  <2>5. settled'[App(j)] = settled[App(j)] /\ pending'[App(j)] = pending[App(j)]
    BY <2>3, <2>4 DEF Confined
  <2> QED BY <2>1, <2>2, <2>3, <2>5 DEF FreshAt
<1> QED BY <1>1, <1>2

LEMMA QuietKeeps ==
    ASSUME NEW k \in Tasks, Quiet, at[k] # "idle", booting' = booting
    PROVE  Quiet'
BY DEF Quiet

-----------------------------------------------------------------------------
(* Writing *)

\* What every write leaves well typed.
LEMMA WriteKeeps ==
    ASSUME NEW k \in Tasks, NEW s \in States, NEW c \in Clients,
           FileTypes, TaskTypes, Control, Fresh, faults \in Nat, Holding(k), App(k) \in Apps,
           Write(k, s, c)
    PROVE  FileTypes' /\ Gone(k) /\ Fresh' /\ faults' \in Nat
<1> DEFINE a == App(k)
<1>0. at[k] # "idle"
  BY DEF Holding
<1>1. /\ settled' \in {settled, [settled EXCEPT ![a] = s]}
      /\ client' \in {client, [client EXCEPT ![a] = c]}
      /\ \E i \in Intents \cup {None} : pending' = [pending EXCEPT ![a] = i]
  <2>1. \A begun \in BOOLEAN : [state |-> s, client |-> c, begun |-> begun] \in Intents
    BY DEF Intents
  <2> QED BY <2>1 DEF Write
<1>2. FileTypes'
  BY <1>1 DEF FileTypes
<1>3. Gone(k)
  BY <1>0, SucceedsKeeps, FailsKeeps DEF Write
<1>4. Confined(k)
  BY <1>1 DEF FileTypes, Confined
<1>5. Fresh'
  BY <1>3, <1>4, FreshKeeps
<1>6. faults' \in Nat
  BY DEF Write, Fault
<1> QED BY <1>2, <1>3, <1>5, <1>6

\* The part of a state that AppModes speaks of, and how it lets it change.
V(mode, attached, route, direct, on, members) ==
    [mode |-> mode, attached |-> attached, route |-> route, direct |-> direct,
     on |-> on, members |-> members]
View(m) == V(m.mode, m.attached, m.route, m.direct, m.on, m.members)

May(v, n) ==
    \/ n = V("direct", FALSE, v.route, v.direct, v.on, v.members)
    \/ n = V(v.mode, FALSE, v.route, v.direct, v.on, v.members)
    \/ \E p \in Providers, on \in BOOLEAN :
          n = V("proxy", TRUE, p, v.direct, on,
                IF on THEN add_default(v.members, p) ELSE v.members)
    \/ \E p \in Providers :
          \/ v.mode = "proxy" /\ n = V("proxy", TRUE, p, v.direct, v.on, v.members)
          \/ v.mode = "proxy" /\ n = V("proxy", v.attached, p, v.direct, v.on,
                                       IF v.on THEN add_default(v.members, p) ELSE v.members)
          \/ v.mode = "proxy" /\ ~ v.on /\ n = V("proxy", v.attached, p, v.direct, v.on, v.members)
          \/ v.mode = "direct" /\ n = V("direct", v.attached, p, v.direct, v.on, v.members)
          \/ v.mode = "direct" /\ n = V("direct", v.attached, v.route, p, v.on, v.members)
          \/ p \in Joinable /\ n = V(v.mode, v.attached, v.route, v.direct, v.on, v.members \cup {p})
          \/ /\ ~ (v.mode = "proxy" /\ v.on /\ v.route = p)
             /\ n = V(v.mode, v.attached, v.route, v.direct, v.on, v.members \ {p})

\* What is right about one application: its list and its files.
Listed(m) == m.mode = "proxy" /\ m.on /\ m.route \in Joinable \ {m.direct} => m.route \in m.members
Agrees(a, m, c) ==
    /\ m.attached => /\ m.mode = "proxy" /\ m.contract = c /\ c.to = "proxy"
                     /\ ~ m.on \/ m.route \in rows[a] =>
                           c.models \cap rows[a] = published_members(a, m.on, m.members)
    /\ ~ m.attached => m.contract = None /\ c.to = "direct" /\ c.who \in {m.direct, None}
Right(a, m, c) == Listed(m) /\ Agrees(a, m, c)

\* What a task reads under its lock is right.
Ready(k) == Right(App(k), settled[App(k)], client[App(k)])

\* The task writes a state AppModes allows, and one that is right if what it read was.
Writes(k, s, c) ==
    /\ Write(k, s, c) /\ s \in States /\ c \in Clients
    /\ May(settled[App(k)], View(s))
    /\ Ready(k) => Right(App(k), s, c)
Written(k) == \E s, c : Writes(k, s, c)

\* The task is done and wrote nothing.
Untouched(k) == Gone(k) /\ UNCHANGED <<files, faults>>

LEMMA Held ==
    ASSUME NEW k \in Tasks, FileTypes, TaskTypes, RestTypes, Control, Fresh, Holding(k)
    PROVE  /\ at[k] # "idle" /\ App(k) \in Apps /\ Equipped(k) /\ FreshAt(k)
           /\ settled[App(k)] \in States /\ client[App(k)] \in Clients
           /\ rows[App(k)] \subseteq Providers
<1>1. at[k] # "idle" /\ Equipped(k) /\ FreshAt(k)
  BY DEF Holding, Control, Fresh
<1>2. App(k) \in Apps
  BY <1>1 DEF Holding, Equipped, Comes
<1> QED BY <1>1, <1>2 DEF FileTypes, RestTypes

LEMMA ContractType ==
    ASSUME NEW p \in Providers, NEW M \in SUBSET Providers
    PROVE  Contract(p, M) \in Contracts /\ Contract(p, M) \in Clients
BY DEF Contract, Contracts, Clients

LEMMA DirectType ==
    ASSUME NEW p \in Providers \cup {None}
    PROVE  Direct(p) \in Clients
BY DEF Direct, Clients

LEMMA RouteToWrites ==
    ASSUME NEW k \in Tasks, Inv, Holding(k), NEW p \in Providers, RouteTo(k, p),
           settled[App(k)].mode = "proxy"
    PROVE  \E s, c : /\ Write(k, s, c) /\ s \in States /\ c \in Clients
                     /\ May(settled[App(k)], View(s))
                     /\ Ready(k) => Right(App(k), s, c)
<1> DEFINE a == App(k)
           m == settled[a]
           members == IF m.on THEN add_default(m.members, p) ELSE m.members
           s == [m EXCEPT !.route = p, !.members = members]
           c == Contract(p, published_members(a, m.on, members))
           t == [s EXCEPT !.contract = c]
<1>1. /\ a \in Apps /\ m \in States /\ client[a] \in Clients /\ rows[a] \subseteq Providers
  BY Held DEF Inv
<1>2. members \in SUBSET Providers /\ published_members(a, m.on, members) \in SUBSET Providers
  BY <1>1 DEF add_default, published_members, States
<1>3. c \in Contracts /\ c \in Clients
  BY <1>2, ContractType
<1>4. s \in States
  BY <1>1, <1>2 DEF States
<1>5. t \in States
  BY <1>3, <1>4 DEF States
<1>6. View(s) = V("proxy", m.attached, p, m.direct, m.on, members)
  BY <1>1 DEF View, States
<1>7. View(t) = View(s)
  BY <1>1 DEF View, States
<1>10. May(m, View(s))
  BY <1>6 DEF May
<1>8. CASE m.attached
  <2>1. Write(k, t, c)
    BY <1>8 DEF RouteTo
  <2>2. ASSUME Ready(k) PROVE Right(a, t, c)
    <3>1. Listed(t)
      BY <2>2, <1>1 DEF Ready, Right, Listed, States, add_default
    <3>2. Agrees(a, t, c)
      BY <1>1, <1>8 DEF Agrees, States, Contract, published_members
    <3> QED BY <3>1, <3>2 DEF Right
  <2> QED BY <1>3, <1>5, <1>10, <1>7, <2>1, <2>2
<1>9. CASE ~ m.attached
  <2>1. Write(k, s, client[a])
    BY <1>9 DEF RouteTo
  <2>2. ASSUME Ready(k) PROVE Right(a, s, client[a])
    BY <2>2, <1>1, <1>9 DEF Ready, Right, Listed, Agrees, States, add_default
  <2> QED BY <1>1, <1>4, <1>10, <2>1, <2>2
<1> QED BY <1>8, <1>9

-----------------------------------------------------------------------------
(* The actions that write *)

LEMMA EnterWrites ==
    ASSUME NEW k \in Tasks, Inv, enter_locked(k)
    PROVE  Holding(k) /\ (Written(k) \/ Untouched(k))
<1> DEFINE a == App(k)
           m == settled[a]
           r == NewRoute(k)
           on == IF Asks(k, {"startup"}) THEN m.on ELSE job[k].on
           members == IF on /\ ~ Asks(k, {"startup"}) THEN add_default(m.members, r) ELSE m.members
           c == Contract(r, published_members(a, on, members))
           s == [m EXCEPT !.mode = "proxy", !.attached = TRUE, !.route = r,
                          !.contract = c, !.on = on, !.members = members]
<1>1. Holding(k) /\ at[k] = "write"
  BY DEF enter_locked, Holding
<1>2. /\ at[k] # "idle" /\ a \in Apps /\ m \in States /\ rows[a] \subseteq Providers
      /\ Equipped(k) /\ FreshAt(k)
  BY <1>1, Held DEF Inv
<1>3. CASE r = None /\ Fails(k) /\ UNCHANGED <<files, faults>>
  BY <1>1, <1>2, <1>3, FailsKeeps DEF Untouched, Inv
<1>4. CASE r # None /\ Write(k, s, c)
  <2>1. job[k] \in Job
    BY DEF Inv, TaskTypes
  <2>2. r \in Providers /\ on \in BOOLEAN
    BY <1>2, <1>4, <2>1 DEF NewRoute, Job, States
  <2>3. members \in SUBSET Providers /\ published_members(a, on, members) \in SUBSET Providers
    <3>1. m.members \in SUBSET Providers
      BY <1>2 DEF States
    <3>2. add_default(m.members, r) \in SUBSET Providers
      BY <3>1, ProviderAssumption DEF add_default
    <3>3. published_members(a, on, members) \subseteq rows[a]
      BY DEF published_members
    <3> HIDE DEF a, m, r, on
    <3> QED BY <1>2, <3>1, <3>2, <3>3
  <2>4. c \in Contracts /\ c \in Clients
    BY <2>2, <2>3, ContractType
  <2>5. s \in States
    BY <1>2, <2>2, <2>3, <2>4 DEF States
  <2>6. View(s) = V("proxy", TRUE, r, m.direct, on, members)
    BY <1>2 DEF View, States
  <2>7. May(m, View(s))
    <3>1. CASE Asks(k, {"startup"})
      BY <1>1, <1>2, <2>2, <2>6, <3>1 DEF May, FreshAt, Asks
    <3>2. CASE ~ Asks(k, {"startup"})
      BY <2>2, <2>6, <3>2 DEF May
    <3> QED BY <3>1, <3>2
  <2>8. ASSUME Ready(k) PROVE Right(a, s, c)
    <3>1. Listed(s)
      <4>1. CASE Asks(k, {"startup"})
        <5>1. m.mode = "proxy" /\ job[k].who = None
          BY <1>1, <1>2, <2>8, <4>1 DEF FreshAt, Asks, Equipped, Rounds
        <5>2. r \in {m.route, m.direct}
          BY <1>4, <5>1 DEF NewRoute
        <5> QED BY <1>2, <2>8, <4>1, <5>1, <5>2 DEF Ready, Right, Listed, States
      <4>2. CASE ~ Asks(k, {"startup"})
        BY <1>2, <4>2 DEF Listed, add_default, States
      <4> QED BY <4>1, <4>2
    <3>2. Agrees(a, s, c)
      BY <1>2 DEF Agrees, States, Contract, published_members
    <3> QED BY <3>1, <3>2 DEF Right
  <2> QED BY <1>1, <1>4, <2>4, <2>5, <2>7, <2>8 DEF Written, Writes
<1> QED BY <1>1, <1>3, <1>4 DEF enter_locked

LEMMA WriteDirectWrites ==
    ASSUME NEW k \in Tasks, Inv, Holding(k), NEW mode \in {"direct", "proxy"},
           mode \in {"direct", settled[App(k)].mode}, WriteDirect(k, mode)
    PROVE  Written(k)
<1> DEFINE a == App(k)
           m == settled[a]
           p == IF m.direct \in rows[a] THEN m.direct ELSE None
           c == IF m.attached THEN Direct(p) ELSE client[a]
           s == [m EXCEPT !.mode = mode, !.attached = FALSE, !.contract = None]
<1>1. a \in Apps /\ m \in States /\ client[a] \in Clients
  BY Held DEF Inv
<1>2. Direct(p) \in Clients
  BY <1>1, DirectType DEF States
<1>3. c \in Clients
  BY <1>1, <1>2
<1>4. s \in States
  BY <1>1 DEF States
<1>5. View(s) = V(mode, FALSE, m.route, m.direct, m.on, m.members)
  BY <1>1 DEF View, States
<1>6. May(m, View(s))
  BY <1>5 DEF May
<1>7. ASSUME Ready(k) PROVE Right(a, s, c)
  <2>1. Listed(s)
    BY <1>1, <1>7 DEF Ready, Right, Listed, States
  <2>2. Agrees(a, s, c)
    BY <1>1, <1>7 DEF Ready, Right, Agrees, States, Direct
  <2> QED BY <2>1, <2>2 DEF Right
<1>8. Write(k, s, c)
  BY DEF WriteDirect
<1> QED BY <1>3, <1>4, <1>6, <1>7, <1>8 DEF Written, Writes

LEMMA NothingUntouched ==
    ASSUME NEW k \in Tasks, Inv, at[k] # "idle",
           \/ Fails(k) \/ Succeeds(k)
           \/ Leave(k, OnSuccess(job[k].op), job[k].did),
           UNCHANGED <<files, faults>>
    PROVE  Untouched(k)
<1>1. CASE Leave(k, OnSuccess(job[k].op), job[k].did)
  <2>1. Leaves(k, OnSuccess(job[k].op)) /\ job[k].did \in BOOLEAN
    BY DEF Leaves, OnSuccess, Inv, TaskTypes, Job
  <2> QED BY <1>1, <2>1, LeaveGone DEF Untouched, Inv
<1> QED BY <1>1, FailsKeeps, SucceedsKeeps DEF Untouched, Inv

LEMMA ExitWrites ==
    ASSUME NEW k \in Tasks, Inv, exit_locked(k)
    PROVE  Holding(k) /\ (Written(k) \/ Untouched(k))
<1>1. Holding(k)
  BY DEF exit_locked, Holding
<1>2. at[k] # "idle" /\ settled[App(k)] \in States
  BY <1>1, Held DEF Inv
<1>3. CASE Leave(k, OnSuccess(job[k].op), job[k].did) /\ UNCHANGED <<files, faults>>
  BY <1>1, <1>2, <1>3, NothingUntouched
<1>4. CASE WriteDirect(k, IF Asks(k, {"detach"}) THEN settled[App(k)].mode ELSE "direct")
  BY <1>1, <1>2, <1>4, WriteDirectWrites DEF States
<1> QED BY <1>1, <1>3, <1>4 DEF exit_locked

LEMMA SwitchWrites ==
    ASSUME NEW k \in Tasks, Inv, switch_inner(k)
    PROVE  Holding(k) /\ (Written(k) \/ Untouched(k))
<1> DEFINE a == App(k)
           m == settled[a]
           p == job[k].who
           s == [m EXCEPT !.direct = p]
<1>1. Holding(k) /\ Asks(k, {"switch"})
  BY DEF switch_inner, Act, Holding
<1>2. /\ at[k] # "idle" /\ a \in Apps /\ m \in States /\ p \in Providers
      /\ rows[a] \subseteq Providers
  BY <1>1, Held DEF Inv, Equipped, Asks, Aimed
<1>3. CASE m.mode = "direct" /\ Write(k, s, Direct(p))
  <2>1. s \in States /\ Direct(p) \in Clients
    BY <1>2, DirectType DEF States
  <2>2. View(s) = V("direct", m.attached, m.route, p, m.on, m.members)
    BY <1>2, <1>3 DEF View, States
  <2>3. May(m, View(s))
    BY <1>2, <1>3, <2>2 DEF May
  <2>4. ASSUME Ready(k) PROVE Right(a, s, Direct(p))
    <3>1. Listed(s)
      BY <1>2, <1>3 DEF Listed, States
    <3>2. Agrees(a, s, Direct(p))
      BY <1>2, <1>3, <2>4 DEF Ready, Right, Agrees, States, Direct
    <3> QED BY <3>1, <3>2 DEF Right
  <2> QED BY <1>1, <1>3, <2>1, <2>3, <2>4 DEF Written, Writes
<1>4. CASE m.mode = "proxy" /\ RouteTo(k, p)
  BY <1>1, <1>2, <1>4, RouteToWrites DEF Written, Writes
<1>5. CASE Rejected(k)
  BY <1>1, <1>2, <1>5, NothingUntouched DEF Rejected
<1> QED BY <1>1, <1>3, <1>4, <1>5 DEF switch_inner

LEMMA RouteWrites ==
    ASSUME NEW k \in Tasks, Inv, switch_route_checked(k)
    PROVE  Holding(k) /\ (Written(k) \/ Untouched(k))
<1>1. Holding(k) /\ Asks(k, {"route", "failoverOn"})
  BY DEF switch_route_checked, Act, Holding
<1>2. /\ at[k] # "idle" /\ job[k].who \in Providers
  BY <1>1, Held DEF Inv, Equipped, Asks, Aimed
<1>3. CASE Rejected(k)
  BY <1>1, <1>2, <1>3, NothingUntouched DEF Rejected
<1>4. CASE settled[App(k)].mode = "proxy" /\ RouteTo(k, job[k].who)
  BY <1>1, <1>2, <1>4, RouteToWrites DEF Written, Writes
<1> QED BY <1>1, <1>3, <1>4 DEF switch_route_checked

LEMMA SetRouteWrites ==
    ASSUME NEW k \in Tasks, Inv, set_route(k)
    PROVE  Holding(k) /\ (Written(k) \/ Untouched(k))
<1> DEFINE a == App(k)
           m == settled[a]
           p == job[k].who
           s == [m EXCEPT !.route = p]
<1>1. Holding(k) /\ Asks(k, {"setRoute"})
  BY DEF set_route, Act, Holding
<1>2. /\ at[k] # "idle" /\ a \in Apps /\ m \in States /\ p \in Providers
      /\ client[a] \in Clients
  BY <1>1, Held DEF Inv, Equipped, Asks, Aimed
<1>3. CASE m.mode = "proxy" /\ RouteTo(k, p)
  BY <1>1, <1>2, <1>3, RouteToWrites DEF Written, Writes
<1>4. CASE NothingToDo(k)
  BY <1>1, <1>2, <1>4, NothingUntouched DEF NothingToDo
<1>5. CASE m.mode = "direct" /\ Write(k, s, client[a])
  <2>1. s \in States
    BY <1>2 DEF States
  <2>2. View(s) = V("direct", m.attached, p, m.direct, m.on, m.members)
    BY <1>2, <1>5 DEF View, States
  <2>3. May(m, View(s))
    BY <1>2, <1>5, <2>2 DEF May
  <2>4. ASSUME Ready(k) PROVE Right(a, s, client[a])
    BY <1>2, <1>5, <2>4 DEF Ready, Right, Listed, Agrees, States
  <2> QED BY <1>1, <1>2, <1>5, <2>1, <2>3, <2>4 DEF Written, Writes
<1> QED BY <1>1, <1>3, <1>4, <1>5 DEF set_route

LEMMA FailoverWrites ==
    ASSUME NEW k \in Tasks, Inv, record_failover_route(k)
    PROVE  Holding(k) /\ (Written(k) \/ Untouched(k))
<1> DEFINE a == App(k)
           m == settled[a]
           p == job[k].who
           s == [m EXCEPT !.route = p]
<1>1. Holding(k) /\ Asks(k, {"failover"})
  BY DEF record_failover_route, Act, Holding
<1>2. /\ at[k] # "idle" /\ a \in Apps /\ m \in States /\ p \in Providers
      /\ client[a] \in Clients
  BY <1>1, Held DEF Inv, Equipped, Asks, Aimed
<1>3. CASE NothingToDo(k)
  BY <1>1, <1>2, <1>3, NothingUntouched DEF NothingToDo
<1>4. CASE /\ m.mode = "proxy" /\ m.route # p /\ ~ m.on /\ p \in rows[a]
           /\ Write(k, s, client[a])
  <2>1. s \in States
    BY <1>2 DEF States
  <2>2. View(s) = V("proxy", m.attached, p, m.direct, m.on, m.members)
    BY <1>2, <1>4 DEF View, States
  <2>3. May(m, View(s))
    BY <1>2, <1>4, <2>2 DEF May
  <2>4. ASSUME Ready(k) PROVE Right(a, s, client[a])
    BY <1>2, <1>4, <2>4 DEF Ready, Right, Listed, Agrees, States
  <2> QED BY <1>1, <1>2, <1>4, <2>1, <2>3, <2>4 DEF Written, Writes
<1> QED BY <1>1, <1>3, <1>4 DEF record_failover_route

LEMMA MemberWrites ==
    ASSUME NEW k \in Tasks, Inv, set_stack_member_locked(k)
    PROVE  Holding(k) /\ (Written(k) \/ Untouched(k))
<1> DEFINE a == App(k)
           m == settled[a]
           p == job[k].who
           members == IF job[k].on THEN m.members \cup {p} ELSE m.members \ {p}
           s == [m EXCEPT !.members = members]
           c == Contract(m.route, published_members(a, m.on, members))
           t == [s EXCEPT !.contract = c]
           May1 == IF job[k].on THEN p \in rows[a] \cap Joinable
                   ELSE ~ (m.on /\ m.mode = "proxy" /\ m.route = p)
<1>1. Holding(k) /\ Asks(k, {"member", "delete"})
  BY DEF set_stack_member_locked, Act, Holding
<1>2. /\ at[k] # "idle" /\ a \in Apps /\ m \in States /\ p \in Providers
      /\ client[a] \in Clients /\ rows[a] \subseteq Providers
  BY <1>1, Held DEF Inv, Equipped, Asks, Aimed
<1>3. CASE Rejected(k) \/ NothingToDo(k)
  BY <1>1, <1>2, <1>3, NothingUntouched DEF Rejected, NothingToDo
<1>4. /\ members \in SUBSET Providers /\ published_members(a, m.on, members) \in SUBSET Providers
      /\ s \in States
  <2>1. members \in SUBSET Providers
    BY <1>2 DEF States
  <2>2. published_members(a, m.on, members) \subseteq rows[a]
    BY DEF published_members
  <2>3. s \in States
    BY <1>2, <2>1 DEF States
  <2> QED BY <1>2, <2>1, <2>2, <2>3
<1>5. May1 => May(m, View(s))
  <2>1. View(s) = V(m.mode, m.attached, m.route, m.direct, m.on, members)
    BY <1>2 DEF View, States
  <2> QED BY <1>2, <2>1 DEF May
<1>6. May1 /\ Ready(k) => Listed(s)
  BY <1>2 DEF Ready, Right, Listed, States
<1>7. CASE May1 /\ attached_route(a) /\ Write(k, t, c)
  <2>1. m.attached /\ m.mode = "proxy" /\ m.route \in Providers
    BY <1>2, <1>7 DEF attached_route
  <2>2. c \in Contracts /\ c \in Clients
    BY <1>4, <2>1, ContractType
  <2>3. t \in States /\ View(t) = View(s)
    BY <1>4, <2>2 DEF States, View
  <2>4. ASSUME Ready(k) PROVE Right(a, t, c)
    <3>1. Listed(t)
      BY <1>4, <1>6, <1>7, <2>4 DEF Listed, States
    <3>2. Agrees(a, t, c)
      BY <1>2, <1>4, <2>1 DEF Agrees, States, Contract, published_members
    <3> QED BY <3>1, <3>2 DEF Right
  <2> QED BY <1>1, <1>5, <1>7, <2>2, <2>3, <2>4 DEF Written, Writes
<1>8. CASE May1 /\ ~ attached_route(a) /\ Write(k, s, client[a])
  <2>1. ASSUME Ready(k) PROVE Right(a, s, client[a])
    <3>1. ~ m.attached \/ m.route \notin rows[a]
      BY <1>8, <2>1 DEF Ready, Right, Agrees, attached_route
    <3>2. Agrees(a, s, client[a])
      BY <1>2, <2>1, <3>1 DEF Ready, Right, Agrees, States, published_members
    <3> QED BY <1>6, <1>8, <2>1, <3>2 DEF Right
  <2> QED BY <1>1, <1>2, <1>4, <1>5, <1>8, <2>1 DEF Written, Writes
<1> QED BY <1>1, <1>3, <1>7, <1>8 DEF set_stack_member_locked

LEMMA ResyncWrites ==
    ASSUME NEW k \in Tasks, Inv, resync_route(k)
    PROVE  Holding(k) /\ (Written(k) \/ Untouched(k))
<1>1. Holding(k)
  BY DEF resync_route, Act, Holding
<1>2. at[k] # "idle" /\ rows[App(k)] \subseteq Providers
  BY <1>1, Held DEF Inv
<1>3. CASE NothingToDo(k)
  BY <1>1, <1>2, <1>3, NothingUntouched DEF NothingToDo
<1>4. CASE attached_route(App(k)) /\ RouteTo(k, settled[App(k)].route)
  <2>1. settled[App(k)].route \in rows[App(k)] /\ settled[App(k)].mode = "proxy"
    BY <1>4 DEF attached_route
  <2> QED BY <1>1, <1>2, <1>4, <2>1, RouteToWrites DEF Written, Writes
<1> QED BY <1>1, <1>3, <1>4 DEF resync_route

-----------------------------------------------------------------------------
(* Every step keeps the invariant *)

LEMMA WrittenKeeps ==
    ASSUME NEW k \in Tasks, Inv, Holding(k), Written(k), UNCHANGED TheRest
    PROVE  Inv'
<1>1. /\ at[k] # "idle" /\ App(k) \in Apps
  BY Held DEF Inv
<1>2. FileTypes' /\ Gone(k) /\ Fresh' /\ faults' \in Nat
  BY <1>1, WriteKeeps DEF Written, Writes, Inv, RestTypes
<1>3. RestTypes'
  BY <1>2 DEF Inv, RestTypes, TheRest
<1>4. Quiet'
  BY <1>1, QuietKeeps DEF Inv, TheRest
<1> QED BY <1>2, <1>3, <1>4 DEF Inv, Gone

LEMMA GoneKeeps ==
    ASSUME NEW k \in Tasks, Inv, at[k] # "idle", Gone(k), FileTypes', Confined(k),
           RestTypes', booting' = booting
    PROVE  Inv'
<1>1. Fresh'
  BY FreshKeeps DEF Inv
<1>2. Quiet'
  BY QuietKeeps DEF Inv
<1> QED BY <1>1, <1>2 DEF Inv, Gone

LEMMA UntouchedKeeps ==
    ASSUME NEW k \in Tasks, Inv, at[k] # "idle", Untouched(k), RestTypes', booting' = booting
    PROVE  Inv'
<1>1. FileTypes' /\ Confined(k) /\ Gone(k)
  BY DEF Inv, FileTypes, Untouched, files, Confined
<1> QED BY <1>1, GoneKeeps

\* A task that goes on from one point to the next with nothing written.
LEMMA OnwardKeeps ==
    ASSUME NEW k \in Tasks, NEW p \in Points, Inv, at[k] # "idle", p # "idle",
           Comes(job[k].op, p), Goto(k, p), Holding(k) <=> Holding(k)',
           Holding(k) => at[k] \in {"serve", "bind", "store"} /\ p \in {"bind", "store", "write"},
           at[k] \in {"next", "unused", "halt"} => p \in {"next", "unused", "halt"},
           UNCHANGED files, RestTypes', booting' = booting
    PROVE  Inv'
<1>0. TaskTypes /\ Control
  BY DEF Inv
<1>1. TaskTypes' /\ Control'
  BY <1>0, GotoKeeps
<1>2. at' = [at EXCEPT ![k] = p] /\ job' = job
  BY DEF Goto
<1>3. FileTypes'
  BY DEF Inv, FileTypes, files
<1>4. Fresh'
  <2> SUFFICES ASSUME NEW j \in Tasks, Holding(j)' PROVE FreshAt(j)'
    BY DEF Fresh
  <2>1. Holding(j) /\ FreshAt(j)
    BY <1>2 DEF Holding, Inv, Fresh, TaskTypes
  <2>2. settled' = settled /\ pending' = pending /\ App(j)' = App(j)
    BY <1>2 DEF files, App
  <2>3. CASE j # k
    BY <1>2, <2>1, <2>2, <2>3 DEF FreshAt, Inv, TaskTypes
  <2>4. CASE j = k
    BY <1>2, <2>1, <2>2, <2>4 DEF FreshAt, Inv, TaskTypes
  <2> QED BY <2>3, <2>4
<1>5. Quiet'
  BY QuietKeeps DEF Inv
<1> QED BY <1>1, <1>3, <1>4, <1>5 DEF Inv

LEMMA SettleTypes ==
    ASSUME FileTypes, NEW S, NEW Stuck, settle(S, Stuck)
    PROVE  /\ FileTypes'
           /\ \A a \in Apps : a \in S => pending'[a] = None
           /\ \A a \in Apps : a \notin S /\ a \notin Stuck
              => settled'[a] = settled[a] /\ client'[a] = client[a] /\ pending'[a] = pending[a]
<1>1. \A a \in Apps : pending[a] # None => pending[a].state \in States /\ pending[a].client \in Clients
  BY DEF FileTypes, Intents
<1>2. FileTypes'
  BY <1>1 DEF FileTypes, settle
<1> QED BY <1>2 DEF settle, FileTypes

\* The process has ended: nobody runs, and nobody holds a lock.
LEMMA EndKeeps ==
    ASSUME Inv, ProcessEnds, UNCHANGED <<files, rows, asked, faults>>, crashes' \in Nat
    PROVE  Inv'
<1>1. NoJob \in Job
  BY DEF NoJob, Job, Ops, Rounds
<1>2. TaskTypes' /\ \A k \in Tasks : at'[k] = "idle"
  <2>1. at' \in [Tasks -> Points] /\ \A k \in Tasks : at'[k] = "idle"
    BY DEF ProcessEnds, Points
  <2>2. job' \in [Tasks -> Job]
    BY <1>1 DEF ProcessEnds
  <2>3. lock' \in [Apps -> Tasks \cup {None}]
    BY DEF ProcessEnds
  <2> QED BY <2>1, <2>2, <2>3 DEF TaskTypes
<1>3. \A k \in Tasks : ~ Holding(k)'
  BY <1>2 DEF Holding
<1>4. Control' /\ Fresh' /\ Quiet'
  BY <1>2, <1>3, NoneAssumption DEF ProcessEnds, Control, Fresh, Quiet
<1>5. FileTypes' /\ RestTypes'
  BY DEF Inv, FileTypes, RestTypes, files, ProcessEnds
<1> QED BY <1>2, <1>4, <1>5 DEF Inv

LEMMA LockKeeps ==
    ASSUME NEW k \in Tasks, Inv, lock_settled(k)
    PROVE  Inv'
<1> DEFINE a == App(k)
<1>1. at[k] = "lock" /\ at[k] # "idle" /\ ~ Holding(k) /\ lock[a] = None
  BY DEF lock_settled, Holding
<1>2. Equipped(k) /\ a \in Apps
  BY <1>1 DEF Inv, Control, Equipped, Comes
<1>3. \A j \in Tasks : Holding(j) => App(j) # a
  BY <1>1, NoneAssumption DEF Inv, Control
<1>4. CASE Fault /\ Fails(k) /\ Unsettled(a)
  <2>1. Gone(k)
    BY <1>1, <1>4, FailsKeeps DEF Inv
  <2>2. PICK Stuck \in SUBSET {a} : settle({}, Stuck)
    BY <1>4 DEF Unsettled
  <2>3. /\ FileTypes'
        /\ \A b \in Apps : b # a => settled'[b] = settled[b] /\ pending'[b] = pending[b]
    BY <2>2, SettleTypes DEF Inv
  <2>4. RestTypes' /\ booting' = booting
    BY <1>4 DEF lock_settled, Fault, Inv, RestTypes
  <2>5. Fresh'
    <3> SUFFICES ASSUME NEW j \in Tasks, Holding(j)' PROVE FreshAt(j)'
      BY DEF Fresh
    <3>1. ASSUME j # k PROVE FreshAt(j)'
      <4>1. Holding(j) /\ App(j)' = App(j) /\ at'[j] = at[j] /\ job'[j] = job[j]
        BY <2>1, <3>1 DEF Gone, Holding, App
      <4>2. App(j) \in Apps /\ App(j) # a /\ FreshAt(j)
        BY <1>3, <4>1, Held DEF Inv
      <4> QED BY <2>3, <4>1, <4>2 DEF FreshAt
    <3> QED BY <2>1, <3>1 DEF FreshAt, Gone
  <2> QED BY <1>1, <2>1, <2>3, <2>4, <2>5, QuietKeeps DEF Inv, Gone
<1>5. CASE /\ settle({a}, {})
           /\ lock' = [lock EXCEPT ![a] = k] /\ at' = [at EXCEPT ![k] = Begin(k)]
           /\ UNCHANGED <<job, faults>>
  <2>1. /\ FileTypes' /\ pending'[a] = None
        /\ \A b \in Apps : b # a => settled'[b] = settled[b] /\ pending'[b] = pending[b]
    BY <1>2, <1>5, SettleTypes DEF Inv
  <2>2. /\ Begin(k) \in {"serve", "act"} /\ Comes(job[k].op, Begin(k))
        /\ Begin(k) = "serve" /\ job[k].op = "startup" => settled'[a].mode = "proxy"
    BY <1>1, <1>2 DEF Begin, Asks, Comes, Equipped
  <2>3. TaskTypes' /\ at'[k] = Begin(k)
    <3>1. at' \in [Tasks -> Points] /\ at'[k] = Begin(k)
      BY <1>5, <2>2 DEF TaskTypes, Points, Inv
    <3>2. lock' \in [Apps -> Tasks \cup {None}]
      BY <1>2, <1>5 DEF TaskTypes, Inv
    <3>3. job' \in [Tasks -> Job]
      BY <1>5 DEF TaskTypes, Inv
    <3> QED BY <3>1, <3>2, <3>3 DEF TaskTypes
  <2>4. \A j \in Tasks \ {k} : at'[j] = at[j]
    BY <1>5 DEF Inv, TaskTypes
  <2>5. \A j \in Tasks : App(j)' = App(j)
    BY <1>5 DEF App
  <2>6. Holding(k)' /\ \A j \in Tasks \ {k} : Holding(j)' <=> Holding(j)
    BY <1>5, <2>2, <2>3, <2>4 DEF Holding
  <2>7. \A b \in Apps : lock'[b] = IF b = a THEN k ELSE lock[b]
    BY <1>2, <1>5 DEF Inv, TaskTypes
  <2>8. Control'
    <3>1. \A j \in Tasks : at'[j] # "idle" => Equipped(j)'
      BY <1>2, <1>5, <2>2, <2>3, <2>4, <2>5 DEF Inv, Control, Equipped, App
    <3>2. \A j \in Tasks : Holding(j)' => lock'[App(j)'] = j
      <4> SUFFICES ASSUME NEW j \in Tasks, Holding(j)' PROVE lock'[App(j)'] = j
        OBVIOUS
      <4>1. CASE j = k
        BY <1>2, <2>5, <2>7, <4>1
      <4>2. CASE j # k
        <5>1. Holding(j) /\ App(j) # a /\ App(j) \in Apps
          BY <1>3, <2>6, <4>2, Held DEF Inv
        <5> QED BY <2>5, <2>7, <5>1 DEF Inv, Control
      <4> QED BY <4>1, <4>2
    <3>3. \A j \in Tasks, b \in Apps : lock'[b] = j => Holding(j)' /\ b = App(j)'
      BY <2>5, <2>6, <2>7 DEF Inv, Control
    <3> QED BY <3>1, <3>2, <3>3 DEF Control
  <2>9. Fresh'
    <3> SUFFICES ASSUME NEW j \in Tasks, Holding(j)' PROVE FreshAt(j)'
      BY DEF Fresh
    <3>1. CASE j = k
      BY <1>5, <2>1, <2>2, <2>3, <2>5, <3>1 DEF FreshAt
    <3>2. CASE j # k
      <4>1. Holding(j) /\ App(j) # a /\ App(j) \in Apps /\ FreshAt(j)
        BY <1>3, <2>6, <3>2, Held DEF Inv
      <4> QED BY <1>5, <2>1, <2>4, <2>5, <3>2, <4>1 DEF FreshAt
    <3> QED BY <3>1, <3>2
  <2>10. RestTypes' /\ Quiet'
    BY <1>1, <1>5, QuietKeeps DEF lock_settled, Inv, RestTypes
  <2> QED BY <2>1, <2>3, <2>8, <2>9, <2>10 DEF Inv
<1> QED BY <1>4, <1>5 DEF lock_settled

LEMMA ServerKeeps ==
    ASSUME NEW k \in Tasks, Inv,
           is_running(k) \/ BindServer(k) \/ StoreServer(k)
    PROVE  Inv'
<1>0. at[k] \in {"serve", "bind", "store"} /\ at[k] # "idle"
  BY DEF is_running, BindServer, StoreServer
<1>1. Equipped(k) /\ Comes(job[k].op, at[k]) /\ at \in [Tasks -> Points]
  BY <1>0 DEF Inv, Control, Equipped, TaskTypes
<1>2. UNCHANGED files /\ RestTypes' /\ booting' = booting
  <2>1. UNCHANGED <<files, rows, booting, asked, crashes>>
    BY DEF is_running, BindServer, StoreServer, counts
  <2>2. faults' = faults \/ faults' = faults + 1
    BY DEF is_running, BindServer, StoreServer, counts, Fault
  <2>3. server' \in {server, "bound", "up"}
    BY DEF is_running, BindServer, StoreServer
  <2>4. manual' = manual \/ manual' = (manual \/ Asks(k, {"start"}))
    BY DEF is_running, BindServer, StoreServer
  <2>5. manual' \in BOOLEAN
    BY <2>4, Zenon DEF Inv, RestTypes
  <2> QED BY <2>1, <2>2, <2>3, <2>5 DEF Inv, RestTypes
<1>3. ASSUME NEW p \in {"bind", "store", "write"}, Goto(k, p), p = "write" => ~ Asks(k, {"start"})
      PROVE  Inv'
  <2>1. p \in Points /\ Comes(job[k].op, p)
    BY <1>0, <1>1, <1>3 DEF Points, Comes, Asks, Rounds
  <2>2. at' = [at EXCEPT ![k] = p] /\ job' = job
    BY <1>3 DEF Goto
  <2>3. Holding(k) <=> Holding(k)'
    BY <1>0, <1>1, <1>3, <2>2 DEF Holding, Comes, Asks
  <2> QED BY <1>0, <1>2, <1>3, <2>1, <2>3, OnwardKeeps
<1>4. CASE Fails(k)
  <2>1. Gone(k)
    BY <1>0, <1>4, FailsKeeps DEF Inv
  <2>2. Confined(k) /\ FileTypes'
    BY <1>2 DEF Confined, files, Inv, FileTypes
  <2> QED BY <1>0, <1>2, <2>1, <2>2, GoneKeeps
<1>5. CASE Leave(k, "idle", FALSE)
  <2>1. Gone(k)
    BY <1>0, <1>5, LeaveGone DEF Inv, Leaves
  <2>2. Confined(k) /\ FileTypes'
    BY <1>2 DEF Confined, files, Inv, FileTypes
  <2> QED BY <1>0, <1>2, <2>1, <2>2, GoneKeeps
<1>6. CASE is_running(k)
  <2>1. job[k].op \notin {"start"}
    BY <1>1, <1>6 DEF is_running, Comes
  <2> QED BY <1>3, <1>6, <2>1 DEF is_running, Asks
<1>7. CASE BindServer(k)
  BY <1>3, <1>4, <1>5, <1>7 DEF BindServer
<1>8. CASE StoreServer(k)
  BY <1>3, <1>5, <1>8 DEF StoreServer
<1> QED BY <1>6, <1>7, <1>8

LEMMA StopKeeps ==
    ASSUME NEW k \in Tasks, Inv, stop_server_if_unused(k) \/ stop_server(k)
    PROVE  Inv'
<1>1. at[k] \in {"unused", "halt"} /\ at[k] # "idle" /\ ~ Holding(k)
  BY DEF stop_server_if_unused, stop_server, Holding
<1>2. CASE stop_server(k) /\ Asks(k, {"detach"})
  BY <1>2, EndKeeps DEF stop_server, counts, Inv, RestTypes
<1>3. CASE Leave(k, "idle", FALSE) /\ (stop_server_if_unused(k) \/ (stop_server(k) /\ booting' = booting))
  <2>1. Gone(k)
    BY <1>1, <1>3, LeaveGone DEF Inv, Leaves
  <2>2. FileTypes' /\ Confined(k)
    BY DEF stop_server_if_unused, stop_server, files, Inv, FileTypes, Confined
  <2>3. UNCHANGED <<rows, booting, counts>> /\ server' \in {server, "down"}
    BY <1>3 DEF stop_server_if_unused, stop_server, ProcessEnds
  <2>4. manual' = manual \/ manual' = (manual /\ server # "up") \/ manual' = FALSE
    BY <1>3 DEF stop_server_if_unused, stop_server, ProcessEnds
  <2>5. manual' \in BOOLEAN
    BY <2>4, Zenon DEF Inv, RestTypes
  <2>6. RestTypes' /\ booting' = booting
    BY <2>3, <2>5 DEF counts, Inv, RestTypes
  <2> QED BY <1>1, <2>1, <2>2, <2>6, GoneKeeps
<1>4. CASE stop_server_if_unused(k) /\ Goto(k, "halt")
  <2>1. "halt" \in Points /\ Comes(job[k].op, "halt")
    BY DEF Points, Comes
  <2>2. ~ Holding(k)'
    BY <1>4 DEF Goto, Holding, Inv, TaskTypes
  <2>3. RestTypes' /\ booting' = booting /\ UNCHANGED files
    BY <1>4 DEF stop_server_if_unused, counts, Inv, RestTypes
  <2> QED BY <1>1, <1>4, <2>1, <2>2, <2>3, OnwardKeeps
<1> QED BY <1>2, <1>3, <1>4 DEF stop_server_if_unused, stop_server

LEMMA RetreatKeeps ==
    ASSUME NEW k \in Tasks, Inv, Retreat(k)
    PROVE  Inv'
<1> DEFINE a == App(k)
<1>1. at[k] = "retreat" /\ Holding(k)
  BY DEF Retreat, Holding
<1>2. at[k] # "idle" /\ a \in Apps /\ settled[a] \in States /\ Equipped(k) /\ job[k].op = "startup"
  BY <1>1, Held DEF Inv, Equipped, Comes
<1>3. CASE WriteDirect(k, "direct")
  <2>1. Written(k)
    BY <1>1, <1>3, WriteDirectWrites
  <2> QED BY <1>1, <2>1, WrittenKeeps DEF Retreat, TheRest
<1>4. CASE ~ WriteDirect(k, "direct")
  <2>1. Leave(k, "next", FALSE) /\ faults' \in Nat
    <3>1. Leave(k, "next", FALSE)
      BY <1>4 DEF Retreat
    <3>2. faults' = faults \/ faults' = faults + 1
      BY <1>4 DEF Retreat, Fault
    <3>3. faults' \in Nat
      BY <3>2 DEF Inv, RestTypes
    <3> QED BY <3>1, <3>3
  <2>2. Gone(k)
    BY <1>2, <2>1, LeaveGone DEF Leaves, Rounds, Inv
  <2>3. RestTypes' /\ booting' = booting
    BY <2>1 DEF Retreat, Inv, RestTypes
  <2>4. CASE \E S, Stuck : S \subseteq {a} /\ Stuck \subseteq {a} /\ settle(S, Stuck)
    <3>1. FileTypes' /\ Confined(k)
      BY <1>1, <2>4, SettleTypes DEF Inv, Confined
    <3> QED BY <1>2, <2>2, <2>3, <3>1, GoneKeeps
  <2>5. CASE /\ settled' = [settled EXCEPT ![a] = [@ EXCEPT !.mode = "direct", !.contract = None]]
             /\ UNCHANGED <<client, pending>>
    <3>1. [settled[a] EXCEPT !.mode = "direct", !.contract = None] \in States
      BY <1>2 DEF States
    <3>2. FileTypes' /\ Confined(k)
      BY <1>1, <1>2, <2>5, <3>1 DEF Inv, FileTypes, Confined
    <3> QED BY <1>2, <2>2, <2>3, <3>2, GoneKeeps
  <2> QED BY <1>4, <2>4, <2>5 DEF Retreat, Unsettled
<1> QED BY <1>3, <1>4

LEMMA CheckKeeps ==
    ASSUME NEW k \in Tasks, Inv, Check(k) \/ delete_provider(k)
    PROVE  Inv'
<1>1. at[k] \in {"check", "erase"} /\ at[k] # "idle"
  BY DEF Check, delete_provider
<1>2. /\ FileTypes' /\ Confined(k) /\ booting' = booting
  BY DEF Check, delete_provider, TheRest, files, Inv, FileTypes, Confined
<1>3. RestTypes'
  <2>1. CASE Check(k)
    BY <2>1 DEF Check, TheRest, Inv, RestTypes
  <2>2. CASE delete_provider(k)
    <3>1. App(k) \in Apps
      BY <1>1 DEF Inv, Control, Equipped, Comes, Aimed
    <3>2. rows' \in [Apps -> SUBSET Providers]
      BY <2>2, <3>1 DEF delete_provider, Inv, RestTypes
    <3> QED BY <2>2, <3>2 DEF delete_provider, counts, Inv, RestTypes
  <2> QED BY <2>1, <2>2
<1>4. \E p \in {"idle", "lock", "erase"} : Leave(k, p, FALSE) /\ Leaves(k, p)
  BY DEF Check, delete_provider, Leaves, Asks
<1>5. Gone(k)
  BY <1>1, <1>4, LeaveGone DEF Inv
<1> QED BY <1>1, <1>2, <1>3, <1>5, GoneKeeps

LEMMA NextAppKeeps ==
    ASSUME NEW k \in Tasks, Inv, NextApp(k)
    PROVE  Inv'
<1>1. at[k] = "next" /\ at[k] # "idle" /\ ~ Holding(k)
  BY DEF NextApp, Holding
<1>2. job[k] \in Job /\ Equipped(k) /\ job[k].op \in Rounds
  BY <1>1 DEF Inv, TaskTypes, Control, Equipped, Comes
<1>3. FileTypes' /\ Confined(k) /\ RestTypes' /\ booting' = booting
  BY DEF NextApp, TheRest, files, Inv, FileTypes, RestTypes, Confined
<1>4. CASE job[k].left = <<>>
  <2>1. \E p \in {"idle", "unused", "halt"} : Leave(k, p, job[k].did)
    BY <1>4 DEF NextApp
  <2>2. job[k].did \in BOOLEAN
    BY <1>2 DEF Job
  <2>3. Gone(k)
    BY <1>1, <2>1, <2>2, LeaveGone DEF Inv, Leaves
  <2> QED BY <1>1, <1>3, <2>3, GoneKeeps
<1>5. CASE job[k].left # <<>>
  <2> DEFINE a == Head(job[k].left)
             j == [job[k] EXCEPT !.app = a, !.left = Tail(job[k].left)]
  <2>1. job[k].left \in Seq(Apps)
    BY <1>2 DEF Job
  <2>2. a \in Apps /\ Tail(job[k].left) \in Seq(Apps)
    BY <1>5, <2>1
  <2>3. j \in Job
    BY <1>2, <2>2 DEF Job
  <2>4. /\ at' = [at EXCEPT ![k] = "lock"] /\ lock' = lock
        /\ job' = [job EXCEPT ![k] = j]
    BY <1>5 DEF NextApp, Inv, TaskTypes
  <2>5. TaskTypes'
    BY <2>3, <2>4 DEF Inv, TaskTypes, Points
  <2>6. /\ at'[k] = "lock" /\ job'[k] = j /\ j.op = job[k].op /\ j.who = job[k].who /\ j.app = a
        /\ \A i \in Tasks \ {k} : at'[i] = at[i] /\ job'[i] = job[i]
    BY <1>2, <2>4 DEF Inv, TaskTypes, Job
  <2>7. Control'
    <3>1. \A i \in Tasks : Holding(i)' <=> Holding(i) /\ i # k
      BY <1>1, <2>6 DEF Holding
    <3>2. \A i \in Tasks : at'[i] # "idle" => Equipped(i)'
      <4> SUFFICES ASSUME NEW i \in Tasks, at'[i] # "idle" PROVE Equipped(i)'
        OBVIOUS
      <4>1. CASE i = k
        BY <1>2, <2>2, <2>6, <4>1 DEF Equipped, Comes, App, Rounds, Aimed
      <4>2. CASE i # k
        BY <2>6, <4>2 DEF Inv, Control, Equipped, App
      <4> QED BY <4>1, <4>2
    <3>3. \A i \in Tasks : i # k => App(i)' = App(i)
      BY <2>6 DEF App
    <3> QED BY <1>1, <2>4, <3>1, <3>2, <3>3 DEF Inv, Control
  <2>8. Gone(k)
    BY <1>2, <2>5, <2>6, <2>7 DEF Gone, Holding, Same, Equipped
  <2> QED BY <1>1, <1>3, <2>8, GoneKeeps
<1> QED BY <1>4, <1>5

\* A command names an application, and a provider where it needs one.
LEMMA CommandShape ==
    ASSUME NEW c \in Commands
    PROVE  /\ c.op \in Ops \ {"startup"} /\ c.app \in Apps \cup {None}
           /\ c.who \in Providers \cup {None} /\ c.on \in BOOLEAN
           /\ c.op \notin Rounds \cup {"start", "stop"} => c.app \in Apps
           /\ c.op \in Aimed => c.who \in Providers
           /\ c.op \in Rounds => c.who = None
<1>1. Routable \subseteq Providers /\ StackApps \subseteq Apps
  BY ProviderAssumption, AppAssumption DEF StackApps
<1>2. \A ops, apps, whos, ons : c \in Command(ops, apps, whos, ons)
         => c.op \in ops /\ c.app \in apps /\ c.who \in whos /\ c.on \in ons
  BY DEF Command
<1>3. c.on \in BOOLEAN
  <2>1. c.on \in {FALSE} \/ c.on \in {TRUE} \/ c.on \in BOOLEAN
    BY <1>2, Zenon DEF Commands
  <2> QED BY <2>1, Zenon
<1>4. \/ c.op = "enter" /\ c.app \in Apps /\ c.who \in Routable \cup {None}
      \/ c.op \in {"exit", "resync"} /\ c.app \in Apps /\ c.who = None
      \/ c.op \in {"exitMode", "exitAll", "detach", "start", "stop"} /\ c.app = None /\ c.who = None
      \/ c.op \in Aimed /\ c.app \in Apps /\ c.who \in Providers
  BY <1>1, <1>2 DEF Commands, Aimed
<1> QED BY <1>1, <1>3, <1>4 DEF Ops, Rounds, Aimed

\* Where a new command begins.
LEMMA JobType ==
    ASSUME NEW c, c.op \in Ops, c.app \in Apps \cup {None}, c.who \in Providers \cup {None},
           c.on \in BOOLEAN
    PROVE  NewJob(c) \in Job
<1>1. Round(c.op) \in Seq(Apps)
  BY AppAssumption DEF Round, PROXY_APPS
<1> QED BY <1>1 DEF NewJob, Job

\* A task without a lock begins a command.
LEMMA StartKeeps ==
    ASSUME NEW k \in Tasks, NEW c, NEW p \in Points, Inv, at[k] = "idle",
           at' = [at EXCEPT ![k] = p], job' = [job EXCEPT ![k] = NewJob(c)], lock' = lock,
           NewJob(c) \in Job, p \in {"next", "check", "bind", "unused", "lock"},
           Comes(c.op, p), p = "bind" => c.op = "start",
           p \notin {"next", "unused"} /\ c.op # "start" => c.app \in Apps,
           c.op \in Aimed => c.app \in Apps /\ c.who \in Providers,
           c.op \in Rounds => c.who = None
    PROVE  TaskTypes' /\ Control' /\ \A j \in Tasks : Holding(j)' <=> Holding(j)
<1>1. TaskTypes' /\ at'[k] = p /\ job'[k] = NewJob(c)
  BY DEF Inv, TaskTypes
<1>2. \A j \in Tasks \ {k} : at'[j] = at[j] /\ job'[j] = job[j]
  BY DEF Inv, TaskTypes
<1>3. NewJob(c).op = c.op /\ NewJob(c).app = c.app /\ NewJob(c).who = c.who
  BY DEF NewJob
<1>4. ~ Holding(k)
  BY DEF Holding
<1>5. ~ Holding(k)'
  BY <1>1, <1>3 DEF Holding
<1>6. \A j \in Tasks : Holding(j)' <=> Holding(j)
  BY <1>2, <1>4, <1>5 DEF Holding
<1>7. \A j \in Tasks : at'[j] # "idle" => Equipped(j)'
  <2> SUFFICES ASSUME NEW j \in Tasks, at'[j] # "idle" PROVE Equipped(j)'
    OBVIOUS
  <2>1. CASE j = k
    BY <1>1, <1>3, <2>1 DEF Equipped, App
  <2>2. CASE j # k
    BY <1>2, <2>2 DEF Inv, Control, Equipped, App
  <2> QED BY <2>1, <2>2
<1>8. \A j \in Tasks \ {k} : App(j)' = App(j)
  BY <1>2 DEF App
<1> QED BY <1>1, <1>4, <1>6, <1>7, <1>8 DEF Inv, Control

LEMMA AskKeeps ==
    ASSUME NEW k \in Tasks, Inv, Ask(k)
    PROVE  Inv'
<1>1. PICK c \in Commands : /\ at' = [at EXCEPT ![k] = FirstPoint(c.op)]
                            /\ job' = [job EXCEPT ![k] = NewJob(c)]
  BY DEF Ask
<1>2. /\ at[k] = "idle" /\ ~ booting /\ booting' = booting /\ lock' = lock
      /\ UNCHANGED files /\ RestTypes'
  BY DEF Ask, Inv, RestTypes
<1>3. /\ FirstPoint(c.op) \in {"next", "check", "bind", "unused", "lock"}
      /\ Comes(c.op, FirstPoint(c.op))
      /\ FirstPoint(c.op) = "bind" => c.op = "start"
      /\ FirstPoint(c.op) = "next" => c.op \in Rounds
      /\ FirstPoint(c.op) = "unused" => c.op = "stop"
      /\ FirstPoint(c.op) \notin {"next", "unused"} => c.op \notin Rounds \cup {"stop"}
  BY CommandShape DEF FirstPoint, Comes, Rounds, Ops
<1>4. FirstPoint(c.op) \in Points /\ NewJob(c) \in Job
  BY <1>3, CommandShape, JobType DEF Points
<1>5. /\ c.op \in Aimed => c.app \in Apps /\ c.who \in Providers
      /\ c.op \in Rounds => c.who = None
      /\ FirstPoint(c.op) \notin {"next", "unused"} /\ c.op # "start" => c.app \in Apps
  BY <1>3, CommandShape DEF Aimed, Rounds
<1>6. TaskTypes' /\ Control' /\ \A j \in Tasks : Holding(j)' <=> Holding(j)
  <2> HIDE DEF Inv
  <2> QED BY <1>1, <1>2, <1>3, <1>4, <1>5, StartKeeps
<1>7. Fresh'
  <2> SUFFICES ASSUME NEW j \in Tasks, Holding(j)' PROVE FreshAt(j)'
    BY DEF Fresh
  <2>1. Holding(j) /\ FreshAt(j) /\ j # k
    BY <1>2, <1>6 DEF Inv, Fresh, Holding
  <2>2. at'[j] = at[j] /\ job'[j] = job[j]
    BY <1>1, <2>1 DEF Inv, TaskTypes
  <2> QED BY <1>2, <2>1, <2>2 DEF FreshAt, App, files
<1>8. FileTypes' /\ Quiet'
  BY <1>2 DEF Inv, FileTypes, files, Quiet
<1> QED BY <1>2, <1>6, <1>7, <1>8 DEF Inv

LEMMA BootKeeps ==
    ASSUME NEW k \in Tasks, Inv, Boot(k)
    PROVE  Inv'
<1> DEFINE c == [op |-> "startup", app |-> None, who |-> None, on |-> FALSE]
<1>1. /\ \A j \in Tasks : at[j] = "idle" /\ ~ Holding(j)
      /\ at[k] = "idle" /\ lock' = lock /\ ~ booting'
  BY DEF Boot, Inv, Quiet, Holding
<1>2. PICK Failing \in SUBSET {a \in Apps : pending[a] # None} :
         /\ faults' = faults + Cardinality(Failing)
         /\ \E Stuck \in SUBSET Failing : settle(Apps \ Failing, Stuck)
  BY DEF Boot
<1>3. FileTypes'
  BY <1>2, SettleTypes DEF Inv
<1>4. faults' \in Nat
  <2>1. IsFiniteSet(Failing)
    BY AppAssumption, FS_Subset
  <2>2. Cardinality(Failing) \in Nat
    BY <2>1, FS_CardinalityType
  <2> QED BY <1>2, <2>2 DEF Inv, RestTypes
<1>5. RestTypes'
  BY <1>1, <1>4 DEF Boot, Inv, RestTypes
<1>6. /\ c.op = "startup" /\ c.app = None /\ c.who = None /\ c.on = FALSE
  OBVIOUS
<1>7. NewJob(c) \in Job
  BY <1>6, JobType DEF Ops, Rounds
<1>8. /\ at' = [at EXCEPT ![k] = "next"] /\ job' = [job EXCEPT ![k] = NewJob(c)]
      /\ "next" \in Points /\ Comes(c.op, "next")
      /\ c.op \notin Aimed /\ c.op \in Rounds
  BY DEF Boot, Points, Comes, Aimed, Rounds
<1> HIDE DEF c
<1>9. TaskTypes' /\ Control' /\ \A j \in Tasks : Holding(j)' <=> Holding(j)
  BY <1>1, <1>6, <1>7, <1>8, StartKeeps
<1>10. Fresh' /\ Quiet'
  BY <1>1, <1>9 DEF Fresh, Quiet
<1> QED BY <1>3, <1>5, <1>9, <1>10 DEF Inv

LEMMA InitKeeps == Init => Inv
<1> SUFFICES ASSUME Init PROVE Inv
  OBVIOUS
<1>1. ASSUME NEW a \in Apps
      PROVE  settled[a] \in States /\ Direct(settled[a].direct) \in Clients
  <2>1. settled[a] \in Detached(a)
    BY LeftAssumption DEF Init
  <2>2. settled[a] \in States
    BY <2>1 DEF Detached
  <2> QED BY <2>2, DirectType DEF States
<1>2. FileTypes
  BY <1>1 DEF Init, FileTypes
<1>3. NoJob \in Job
  BY DEF NoJob, Job, Ops, Rounds
<1>4. TaskTypes
  <2>1. at \in [Tasks -> Points]
    BY DEF Init, Points
  <2>2. job \in [Tasks -> Job]
    BY <1>3 DEF Init
  <2>3. lock \in [Apps -> Tasks \cup {None}]
    BY DEF Init
  <2> QED BY <2>1, <2>2, <2>3 DEF TaskTypes
<1>5. RestTypes
  BY ProviderAssumption DEF Init, RestTypes
<1>6. \A k \in Tasks : at[k] = "idle" /\ ~ Holding(k)
  BY DEF Init, Holding
<1>7. Control /\ Fresh /\ Quiet
  BY <1>6, NoneAssumption DEF Init, Control, Fresh, Quiet
<1> QED BY <1>2, <1>4, <1>5, <1>7 DEF Inv

LEMMA FreeKeeps ==
    ASSUME NEW k \in Tasks, Inv, Free(k)
    PROVE  Inv'
<1>1. ASSUME Holding(k), Written(k) \/ Untouched(k), UNCHANGED TheRest
      PROVE  Inv'
  <2>1. CASE Written(k)
    BY <1>1, <2>1, WrittenKeeps
  <2>2. CASE Untouched(k)
    <3>1. at[k] # "idle" /\ RestTypes' /\ booting' = booting
      BY <1>1, <2>2 DEF Holding, Untouched, TheRest, Inv, RestTypes
    <3> QED BY <2>2, <3>1, UntouchedKeeps
  <2> QED BY <1>1, <2>1, <2>2
<1>2. CASE enter_locked(k)
  BY <1>1, <1>2, EnterWrites DEF enter_locked, TheRest
<1>3. CASE exit_locked(k)
  BY <1>1, <1>3, ExitWrites DEF exit_locked, TheRest
<1>4. CASE switch_inner(k)
  BY <1>1, <1>4, SwitchWrites DEF switch_inner
<1>5. CASE switch_route_checked(k)
  BY <1>1, <1>5, RouteWrites DEF switch_route_checked
<1>6. CASE set_route(k)
  BY <1>1, <1>6, SetRouteWrites DEF set_route
<1>7. CASE record_failover_route(k)
  BY <1>1, <1>7, FailoverWrites DEF record_failover_route
<1>8. CASE set_stack_member_locked(k)
  BY <1>1, <1>8, MemberWrites DEF set_stack_member_locked
<1>9. CASE resync_route(k)
  BY <1>1, <1>9, ResyncWrites DEF resync_route
<1> QED BY <1>2, <1>3, <1>4, <1>5, <1>6, <1>7, <1>8, <1>9, ServerKeeps, StopKeeps,
           RetreatKeeps, CheckKeeps, NextAppKeeps DEF Free

LEMMA NextKeeps == Inv /\ [Next]_vars => Inv'
<1> SUFFICES ASSUME Inv, [Next]_vars PROVE Inv'
  OBVIOUS
<1>1. ASSUME NEW k \in Tasks, Ask(k) \/ Boot(k) \/ lock_settled(k) \/ Free(k)
      PROVE  Inv'
  BY <1>1, AskKeeps, BootKeeps, LockKeeps, FreeKeeps
<1>2. CASE Crash
  BY <1>2, EndKeeps DEF Crash, Inv, RestTypes
<1>3. CASE UNCHANGED vars
  BY <1>3 DEF vars, files, counts, Inv, FileTypes, TaskTypes, RestTypes, Control, Fresh, FreshAt,
              Quiet, Holding, Equipped, App
<1> QED BY <1>1, <1>2, <1>3 DEF Next

\* The inductive invariant of the mode controller: what each task may be doing
\* at each point, which lock it has, and what it finds under it.
THEOREM Invariance == Spec => []Inv
<1>1. Init => Inv
  BY InitKeeps
<1>2. Inv /\ [Next]_vars => Inv'
  BY NextKeeps
<1> QED BY <1>1, <1>2, PTL DEF Spec

\* Every reachable state is well typed (TypeOK).
THEOREM TypeCorrect == Spec => []TypeOK
<1>1. Inv => TypeOK
  BY DEF Inv, FileTypes, TaskTypes, RestTypes, TypeOK
<1> QED BY <1>1, Invariance, PTL

\* A task that holds the lock of an application never waits for another, so the
\* tasks of lock_settled cannot block each other in a circle.
THEOREM NoCircle == Spec => []HoldersNeverWait
<1>1. Inv => HoldersNeverWait
  BY DEF Inv, Control, Holding, HoldersNeverWait
<1> QED BY <1>1, Invariance, PTL

-----------------------------------------------------------------------------
(* The modes change as AppModes says *)

modes == [a \in Apps |-> Mode(a)]

LEMMA ModeIsView ==
    ASSUME NEW a \in Apps
    PROVE  /\ modes[a] = Mode(a)
           /\ pending[a] # None /\ pending[a].begun => Mode(a) = View(pending[a].state)
           /\ ~ (pending[a] # None /\ pending[a].begun) => Mode(a) = View(settled[a])
BY DEF modes, Mode, View, V

Views == [mode : {"direct", "proxy"}, attached : BOOLEAN, route : Providers \cup {None},
          direct : Providers \cup {None}, on : BOOLEAN, members : SUBSET Providers]

LEMMA ViewOf ==
    ASSUME NEW w \in Views
    PROVE  w = V(w.mode, w.attached, w.route, w.direct, w.on, w.members)
BY DEF V, Views

LEMMA ViewType ==
    ASSUME NEW v \in States
    PROVE  View(v) \in Views
BY DEF View, V, States, Views

\* What the changes of several fields come to.
LEMMA ExitView ==
    ASSUME NEW w \in Views
    PROVE  [w EXCEPT !.mode = "direct", !.attached = FALSE]
           = V("direct", FALSE, w.route, w.direct, w.on, w.members)
<1> DEFINE e == [w EXCEPT !.mode = "direct", !.attached = FALSE]
<1>1. e \in Views
  BY DEF Views
<1>2. /\ e.mode = "direct" /\ e.attached = FALSE /\ e.route = w.route
      /\ e.direct = w.direct /\ e.on = w.on /\ e.members = w.members
  BY DEF Views
<1> HIDE DEF e
<1>3. e = V("direct", FALSE, w.route, w.direct, w.on, w.members)
  BY <1>1, <1>2, ViewOf
<1> QED BY <1>3 DEF e

LEMMA DetachView ==
    ASSUME NEW w \in Views
    PROVE  [w EXCEPT !.attached = FALSE]
           = V(w.mode, FALSE, w.route, w.direct, w.on, w.members)
<1> DEFINE e == [w EXCEPT !.attached = FALSE]
<1>1. e \in Views
  BY DEF Views
<1>2. /\ e.mode = w.mode /\ e.attached = FALSE /\ e.route = w.route
      /\ e.direct = w.direct /\ e.on = w.on /\ e.members = w.members
  BY DEF Views
<1> HIDE DEF e
<1>3. e = V(w.mode, FALSE, w.route, w.direct, w.on, w.members)
  BY <1>1, <1>2, ViewOf
<1> QED BY <1>3 DEF e

LEMMA AttachView ==
    ASSUME NEW w \in Views, NEW p \in Providers
    PROVE  [w EXCEPT !.attached = TRUE, !.route = p]
           = V(w.mode, TRUE, p, w.direct, w.on, w.members)
<1> DEFINE e == [w EXCEPT !.attached = TRUE, !.route = p]
<1>1. e \in Views
  BY DEF Views
<1>2. /\ e.mode = w.mode /\ e.attached = TRUE /\ e.route = p
      /\ e.direct = w.direct /\ e.on = w.on /\ e.members = w.members
  BY DEF Views
<1> HIDE DEF e
<1>3. e = V(w.mode, TRUE, p, w.direct, w.on, w.members)
  BY <1>1, <1>2, ViewOf
<1> QED BY <1>3 DEF e

LEMMA RouteView ==
    ASSUME NEW w \in Views, NEW p \in Providers
    PROVE  [w EXCEPT !.route = p, !.members = IF w.on THEN Modes!Joins(@, p) ELSE @]
           = V(w.mode, w.attached, p, w.direct, w.on,
               IF w.on THEN add_default(w.members, p) ELSE w.members)
<1> DEFINE e == [w EXCEPT !.route = p, !.members = IF w.on THEN Modes!Joins(@, p) ELSE @]
<1>0. add_default(w.members, p) = Modes!Joins(w.members, p)
  BY DEF add_default, Modes!Joins
<1>1. e \in Views
  BY DEF Views, Modes!Joins
<1>2. /\ e.mode = w.mode /\ e.attached = w.attached /\ e.route = p
      /\ e.direct = w.direct /\ e.on = w.on
      /\ e.members = IF w.on THEN add_default(w.members, p) ELSE w.members
  BY <1>0 DEF Views
<1> HIDE DEF e
<1>3. e = V(w.mode, w.attached, p, w.direct, w.on,
            IF w.on THEN add_default(w.members, p) ELSE w.members)
  BY <1>1, <1>2, ViewOf
<1> QED BY <1>3 DEF e

LEMMA EnterView ==
    ASSUME NEW w \in Views, NEW p \in Providers, NEW on \in BOOLEAN
    PROVE  [w EXCEPT !.mode = "proxy", !.attached = TRUE, !.route = p, !.on = on,
                     !.members = IF on THEN Modes!Joins(@, p) ELSE @]
           = V("proxy", TRUE, p, w.direct, on,
               IF on THEN add_default(w.members, p) ELSE w.members)
<1> DEFINE e == [w EXCEPT !.mode = "proxy", !.attached = TRUE, !.route = p, !.on = on,
                          !.members = IF on THEN Modes!Joins(@, p) ELSE @]
<1>0. add_default(w.members, p) = Modes!Joins(w.members, p)
  BY DEF add_default, Modes!Joins
<1>1. e \in Views
  BY DEF Views, Modes!Joins
<1>2. /\ e.mode = "proxy" /\ e.attached = TRUE /\ e.route = p
      /\ e.direct = w.direct /\ e.on = on
      /\ e.members = IF on THEN add_default(w.members, p) ELSE w.members
  BY <1>0 DEF Views
<1> HIDE DEF e
<1>3. e = V("proxy", TRUE, p, w.direct, on,
            IF on THEN add_default(w.members, p) ELSE w.members)
  BY <1>1, <1>2, ViewOf
<1> QED BY <1>3 DEF e

\* Each alternative of May is an action of AppModes.
LEMMA MayNext ==
    ASSUME NEW a \in Apps, NEW v \in States, NEW n,
           modes[a] = View(v), May(v, n), modes' = [modes EXCEPT ![a] = n]
    PROVE  Modes!Next
<1> DEFINE w == modes[a]
<1>1. /\ w = V(v.mode, v.attached, v.route, v.direct, v.on, v.members)
      /\ w.mode = v.mode /\ w.on = v.on /\ w.members = v.members /\ w.route = v.route
      /\ w.direct = v.direct /\ w.attached = v.attached
  BY DEF View, V
<1>0. w \in Views
  BY ViewType
<1>13. w = modes[a]
  OBVIOUS
<1> HIDE DEF w
<1>2. ASSUME NEW x, n = x PROVE Modes!Becomes(a, x)
  BY <1>2 DEF Modes!Becomes, modes
<1>3. CASE n = V("direct", FALSE, v.route, v.direct, v.on, v.members)
  <2>1. n = [w EXCEPT !.mode = "direct", !.attached = FALSE]
    BY <1>0, <1>1, <1>3, ExitView
  <2> QED BY <1>13, <1>2, <2>1 DEF Modes!Next, Modes!Exit, modes
<1>4. CASE n = V(v.mode, FALSE, v.route, v.direct, v.on, v.members)
  <2>1. n = [w EXCEPT !.attached = FALSE]
    <3>1. n = V(w.mode, FALSE, w.route, w.direct, w.on, w.members)
      BY <1>1, <1>4
    <3>2. [w EXCEPT !.attached = FALSE] = V(w.mode, FALSE, w.route, w.direct, w.on, w.members)
      BY <1>0, DetachView
    <3> QED BY <3>1, <3>2
  <2> QED BY <1>13, <1>2, <2>1 DEF Modes!Next, Modes!Detach, modes
<1>5. CASE \E p \in Providers, on \in BOOLEAN :
             n = V("proxy", TRUE, p, v.direct, on,
                   IF on THEN add_default(v.members, p) ELSE v.members)
  <2>1. PICK p \in Providers, on \in BOOLEAN :
             n = V("proxy", TRUE, p, v.direct, on,
                   IF on THEN add_default(v.members, p) ELSE v.members)
    BY <1>5
  <2>2. n = [w EXCEPT !.mode = "proxy", !.attached = TRUE, !.route = p, !.on = on,
                      !.members = IF on THEN Modes!Joins(@, p) ELSE @]
    <3>1. n = V("proxy", TRUE, p, w.direct, on,
                IF on THEN add_default(w.members, p) ELSE w.members)
      BY <1>1, <2>1
    <3>2. [w EXCEPT !.mode = "proxy", !.attached = TRUE, !.route = p, !.on = on,
                    !.members = IF on THEN Modes!Joins(@, p) ELSE @]
          = V("proxy", TRUE, p, w.direct, on,
              IF on THEN add_default(w.members, p) ELSE w.members)
      BY <1>0, EnterView
    <3> QED BY <3>1, <3>2
  <2>3. Modes!Enter(a, p, on)
    BY <1>13, <1>2, <2>2 DEF Modes!Enter, modes
  <2> QED BY <2>3 DEF Modes!Next
<1>6. ASSUME NEW p \in Providers, v.mode = "proxy",
             n = V("proxy", TRUE, p, v.direct, v.on, v.members)
      PROVE  Modes!Next
  <2>1. n = [w EXCEPT !.attached = TRUE, !.route = p]
    <3>1. n = V(w.mode, TRUE, p, w.direct, w.on, w.members)
      BY <1>1, <1>6
    <3>2. [w EXCEPT !.attached = TRUE, !.route = p]
          = V(w.mode, TRUE, p, w.direct, w.on, w.members)
      BY <1>0, AttachView
    <3> QED BY <3>1, <3>2
  <2> QED BY <1>13, <1>1, <1>2, <1>6, <2>1 DEF Modes!Next, Modes!Attach, modes
<1>7. ASSUME NEW p \in Providers, v.mode = "proxy",
             n = V("proxy", v.attached, p, v.direct, v.on,
                   IF v.on THEN add_default(v.members, p) ELSE v.members)
      PROVE  Modes!Next
  <2>1. n = [w EXCEPT !.route = p, !.members = IF w.on THEN Modes!Joins(@, p) ELSE @]
    <3>1. n = V(w.mode, w.attached, p, w.direct, w.on,
                IF w.on THEN add_default(w.members, p) ELSE w.members)
      BY <1>1, <1>7
    <3>2. [w EXCEPT !.route = p, !.members = IF w.on THEN Modes!Joins(@, p) ELSE @]
          = V(w.mode, w.attached, p, w.direct, w.on,
              IF w.on THEN add_default(w.members, p) ELSE w.members)
      BY <1>0, RouteView
    <3> QED BY <3>1, <3>2
  <2>2. Modes!Becomes(a, n)
    BY <1>2
  <2>3. n = [modes[a] EXCEPT !.route = p,
                             !.members = IF modes[a].on THEN Modes!Joins(@, p) ELSE @]
    BY <1>13, <2>1
  <2>4. Modes!Route(a, p)
    BY <1>1, <1>7, <1>13, <2>2, <2>3 DEF Modes!Route, modes
  <2> QED BY <2>4 DEF Modes!Next
<1>8. ASSUME NEW p \in Providers, v.mode = "proxy", ~ v.on,
             n = V("proxy", v.attached, p, v.direct, v.on, v.members)
      PROVE  Modes!Next
  <2>1. n = [w EXCEPT !.route = p]
    BY <1>1, <1>8 DEF V
  <2> QED BY <1>13, <1>1, <1>2, <1>8, <2>1 DEF Modes!Next, Modes!Failover, modes
<1>9. ASSUME NEW p \in Providers, v.mode = "direct",
             n = V("direct", v.attached, p, v.direct, v.on, v.members)
      PROVE  Modes!Next
  <2>1. n = [w EXCEPT !.route = p]
    BY <1>1, <1>9 DEF V
  <2> QED BY <1>13, <1>1, <1>2, <1>9, <2>1 DEF Modes!Next, Modes!Remember, modes
<1>10. ASSUME NEW p \in Providers, v.mode = "direct",
              n = V("direct", v.attached, v.route, p, v.on, v.members)
       PROVE  Modes!Next
  <2>1. n = [w EXCEPT !.direct = p]
    BY <1>1, <1>10 DEF V
  <2> QED BY <1>13, <1>1, <1>2, <1>10, <2>1 DEF Modes!Next, Modes!Switch, modes
<1>11. ASSUME NEW p \in Providers, p \in Joinable,
              n = V(v.mode, v.attached, v.route, v.direct, v.on, v.members \cup {p})
       PROVE  Modes!Next
  <2>1. n = [w EXCEPT !.members = @ \cup {p}]
    BY <1>1, <1>11 DEF V
  <2> QED BY <1>13, <1>2, <1>11, <2>1 DEF Modes!Next, Modes!Join, modes
<1>12. ASSUME NEW p \in Providers, ~ (v.mode = "proxy" /\ v.on /\ v.route = p),
              n = V(v.mode, v.attached, v.route, v.direct, v.on, v.members \ {p})
       PROVE  Modes!Next
  <2>1. n = [w EXCEPT !.members = @ \ {p}]
    BY <1>1, <1>12 DEF V
  <2> QED BY <1>13, <1>1, <1>2, <1>12, <2>1 DEF Modes!Next, Modes!Part, modes
<1> QED BY <1>3, <1>4, <1>5, <1>6, <1>7, <1>8, <1>9, <1>10, <1>11, <1>12 DEF May

\* A settlement, or one that fails, changes the mode of no application: what had
\* begun counted already.
LEMMA SettleModes ==
    ASSUME FileTypes, NEW S, NEW Stuck, S \cap Stuck = {}, settle(S, Stuck)
    PROVE  modes' = modes
<1> SUFFICES ASSUME NEW a \in Apps PROVE Mode(a)' = Mode(a)
  BY DEF modes
<1>1. CASE pending[a] # None /\ pending[a].begun /\ a \in S
  <2>1. pending'[a] = None /\ settled'[a] = pending[a].state
    BY <1>1 DEF settle
  <2> QED BY <1>1, <2>1 DEF Mode
<1>2. CASE ~ (pending[a] # None /\ pending[a].begun)
  <2>1. pending'[a] \in {None, pending[a]} /\ settled'[a] = settled[a]
    BY <1>2 DEF settle
  <2> QED BY <1>2, <2>1 DEF Mode
<1>3. CASE pending[a] # None /\ pending[a].begun /\ a \notin S
  <2>1. pending'[a] = pending[a]
    BY <1>3 DEF settle
  <2> QED BY <1>3, <2>1 DEF Mode
<1> QED BY <1>1, <1>2, <1>3

\* A write sets the mode to what it settles, or leaves it.
LEMMA WriteModes ==
    ASSUME NEW k \in Tasks, NEW s \in States, NEW c \in Clients, FileTypes,
           NEW a \in Apps, a = App(k),
           ~ (pending[a] # None /\ pending[a].begun), Write(k, s, c)
    PROVE  modes' = modes \/ modes' = [modes EXCEPT ![a] = View(s)]
<1>1. ASSUME NEW b \in Apps, b # a PROVE Mode(b)' = Mode(b)
  <2>1. settled'[b] = settled[b] /\ pending'[b] = pending[b]
    BY <1>1 DEF Write, FileTypes
  <2> QED BY <2>1 DEF Mode
<1>2. Mode(a)' \in {Mode(a), View(s)}
  <2>1. CASE pending'[a] = None /\ settled'[a] \in {settled[a], s}
    BY <2>1 DEF Mode, View, V
  <2>2. CASE /\ pending'[a] # None /\ ~ pending'[a].begun /\ settled'[a] = settled[a]
    BY <2>2 DEF Mode, View, V
  <2>3. CASE pending'[a] # None /\ pending'[a].begun /\ pending'[a].state = s
    BY <2>3 DEF Mode, View, V
  <2>4. \/ pending'[a] = None /\ settled'[a] \in {settled[a], s}
        \/ \E begun \in BOOLEAN :
              /\ pending'[a] = [state |-> s, client |-> c, begun |-> begun]
              /\ ~ begun => settled'[a] = settled[a]
    BY DEF Write, FileTypes
  <2>5. \A begun \in BOOLEAN : [state |-> s, client |-> c, begun |-> begun] # None
    BY NoneAssumption DEF Intents
  <2>6. ASSUME NEW begun \in BOOLEAN,
               pending'[a] = [state |-> s, client |-> c, begun |-> begun],
               ~ begun => settled'[a] = settled[a]
        PROVE  Mode(a)' \in {Mode(a), View(s)}
    <3>1. pending'[a] # None /\ pending'[a].begun = begun /\ pending'[a].state = s
      BY <2>5, <2>6
    <3>2. CASE begun
      BY <2>3, <3>1, <3>2
    <3>3. CASE ~ begun
      BY <2>2, <2>6, <3>1, <3>3
    <3> QED BY <3>2, <3>3
  <2> QED BY <2>1, <2>4, <2>6
<1>3. modes' = [b \in Apps |-> Mode(b)']
  BY DEF modes
<1> QED BY <1>1, <1>2, <1>3 DEF modes

LEMMA WrittenModes ==
    ASSUME NEW k \in Tasks, Inv, Holding(k), Written(k),
           at[k] # "retreat" \/ ~ (pending[App(k)] # None /\ pending[App(k)].begun)
    PROVE  Modes!Next \/ modes' = modes
<1> DEFINE a == App(k)
<1>1. a \in Apps /\ FreshAt(k) /\ settled[a] \in States
  BY Held DEF Inv
<1>2. ~ (pending[a] # None /\ pending[a].begun)
  BY <1>1 DEF FreshAt
<1>3. PICK s, c : Writes(k, s, c)
  BY DEF Written
<1>4. modes' = modes \/ modes' = [modes EXCEPT ![a] = View(s)]
  BY <1>1, <1>2, <1>3, WriteModes DEF Writes, Inv
<1>5. modes[a] = View(settled[a])
  BY <1>1, <1>2, ModeIsView
<1>6. May(settled[a], View(s))
  BY <1>3 DEF Writes
<1> QED BY <1>1, <1>4, <1>5, <1>6, MayNext

LEMMA FilesModes ==
    ASSUME UNCHANGED <<settled, pending>>
    PROVE  modes' = modes
BY DEF modes, Mode

LEMMA InitModes == Init => Modes!Init
<1> SUFFICES ASSUME Init, NEW a \in Apps PROVE ~ modes[a].attached
  BY DEF Modes!Init, modes
<1>1. settled[a] \in Detached(a) /\ pending[a] = None
  BY LeftAssumption DEF Init
<1>2. modes[a] = View(settled[a])
  BY <1>1, ModeIsView
<1> QED BY <1>1, <1>2 DEF Detached, View, V

LEMMA RetreatModes ==
    ASSUME NEW k \in Tasks, Inv, Retreat(k)
    PROVE  Modes!Next \/ modes' = modes
<1> DEFINE a == App(k)
<1>1. at[k] = "retreat" /\ Holding(k) /\ FileTypes
  BY DEF Retreat, Holding, Inv
<1>2. CASE pending[a] = None \/ ~ pending[a].begun
  <2>1. Written(k)
    BY <1>1, <1>2, WriteDirectWrites DEF Retreat
  <2> QED BY <1>1, <1>2, <2>1, WrittenModes
<1>3. CASE ~ (pending[a] = None \/ ~ pending[a].begun)
  <2>1. CASE \E S, Stuck : S \cap Stuck = {} /\ settle(S, Stuck)
    BY <1>1, <2>1, SettleModes
  <2>2. CASE /\ settled' = [settled EXCEPT ![a] = [@ EXCEPT !.mode = "direct", !.contract = None]]
             /\ UNCHANGED pending
    <3> SUFFICES ASSUME NEW b \in Apps PROVE Mode(b)' = Mode(b)
      BY DEF modes
    <3>1. pending'[b] = pending[b]
      BY <2>2
    <3>2. CASE b = a
      <4>1. pending[b] # None /\ pending[b].begun
        BY <1>3, <3>2
      <4> QED BY <3>1, <4>1 DEF Mode
    <3>3. CASE b # a
      <4>1. settled'[b] = settled[b]
        BY <1>1, <2>2, <3>3 DEF FileTypes
      <4> QED BY <3>1, <4>1 DEF Mode
    <3> QED BY <3>2, <3>3
  <2> QED BY <1>3, <2>1, <2>2 DEF Retreat, Unsettled
<1> QED BY <1>2, <1>3

LEMMA FreeModes ==
    ASSUME NEW k \in Tasks, Inv, Free(k)
    PROVE  Modes!Next \/ modes' = modes
<1>1. ASSUME Holding(k), at[k] # "retreat", Written(k) \/ Untouched(k)
      PROVE  Modes!Next \/ modes' = modes
  BY <1>1, WrittenModes, FilesModes DEF Untouched, files
<1>2. CASE enter_locked(k)
  BY <1>1, <1>2, EnterWrites DEF enter_locked
<1>3. CASE exit_locked(k)
  BY <1>1, <1>3, ExitWrites DEF exit_locked
<1>4. CASE switch_inner(k)
  BY <1>1, <1>4, SwitchWrites DEF switch_inner, Act
<1>5. CASE switch_route_checked(k)
  BY <1>1, <1>5, RouteWrites DEF switch_route_checked, Act
<1>6. CASE set_route(k)
  BY <1>1, <1>6, SetRouteWrites DEF set_route, Act
<1>7. CASE record_failover_route(k)
  BY <1>1, <1>7, FailoverWrites DEF record_failover_route, Act
<1>8. CASE set_stack_member_locked(k)
  BY <1>1, <1>8, MemberWrites DEF set_stack_member_locked, Act
<1>9. CASE resync_route(k)
  BY <1>1, <1>9, ResyncWrites DEF resync_route, Act
<1>10. CASE Retreat(k)
  BY <1>10, RetreatModes
<1>11. CASE \/ is_running(k) \/ BindServer(k) \/ StoreServer(k) \/ stop_server_if_unused(k)
            \/ stop_server(k) \/ Check(k) \/ delete_provider(k) \/ NextApp(k)
  <2>1. UNCHANGED <<settled, pending>>
    BY <1>11 DEF is_running, BindServer, StoreServer, stop_server_if_unused, stop_server, Check,
                 delete_provider, NextApp, files
  <2> QED BY <2>1, FilesModes
<1> QED BY <1>2, <1>3, <1>4, <1>5, <1>6, <1>7, <1>8, <1>9, <1>10, <1>11 DEF Free

LEMMA NextModes == Inv /\ [Next]_vars => [Modes!Next]_modes
<1> SUFFICES ASSUME Inv, [Next]_vars PROVE Modes!Next \/ modes' = modes
  OBVIOUS
<1>1. ASSUME NEW k \in Tasks, lock_settled(k)
      PROVE  modes' = modes
  <2>1. \E S, Stuck : S \cap Stuck = {} /\ settle(S, Stuck)
    BY <1>1 DEF lock_settled, Unsettled
  <2> QED BY <2>1, SettleModes DEF Inv
<1>2. ASSUME NEW k \in Tasks, Boot(k)
      PROVE  modes' = modes
  <2>1. \E S, Stuck : S \cap Stuck = {} /\ settle(S, Stuck)
    <3>1. PICK Failing \in SUBSET {a \in Apps : pending[a] # None} :
             \E Stuck \in SUBSET Failing : settle(Apps \ Failing, Stuck)
      BY <1>2 DEF Boot
    <3>2. PICK Stuck \in SUBSET Failing : settle(Apps \ Failing, Stuck)
      BY <3>1
    <3>3. (Apps \ Failing) \cap Stuck = {}
      OBVIOUS
    <3> QED BY <3>2, <3>3
  <2> QED BY <2>1, SettleModes DEF Inv
<1>3. CASE (\E k \in Tasks : Ask(k)) \/ Crash \/ UNCHANGED vars
  <2>1. UNCHANGED <<settled, pending>>
    BY <1>3 DEF Ask, Crash, vars, files
  <2> QED BY <2>1, FilesModes
<1> QED BY <1>1, <1>2, <1>3, FreeModes DEF Next

\* Whatever overlaps, fails half way or dies, the modes change as if the commands
\* came one at a time, each changing only what it is about: the tasks of the
\* controller, with their locks, intents and restarts, implement AppModes.
THEOREM Refinement == Spec => KeepsModes
<1>1. Init => Modes!Init
  BY InitModes
<1>2. Inv /\ [Next]_vars => [Modes!Next]_modes
  BY NextModes
<1> QED BY <1>1, <1>2, Invariance, PTL DEF Spec, KeepsModes, Modes!Spec, modes

-----------------------------------------------------------------------------
(* A server that runs is wanted *)

\* The task has still to look whether the server is in use, or is about to use it.
Cares(k) ==
    \/ at[k] \in {"unused", "halt"}
    \/ at[k] = "write" /\ job[k].op = "enter"
    \/ at[k] # "idle" /\ job[k].op \in {"exitAll", "detach", "startup"}
    \/ at[k] # "idle" /\ job[k].op = "exitMode" /\ job[k].did

InUse == \E a \in Apps : settled[a].mode = "proxy"
Wanted == manual \/ InUse \/ \E k \in Tasks : Cares(k)

\* Without a failure nothing is left half way, and a server that runs is wanted.
Serves == /\ faults = 0 => \A a \in Apps : pending[a] = None
          /\ booting => server = "down"
          /\ faults = 0 /\ server = "up" => Wanted

ServeInv == Inv /\ Serves

LEMMA StillWanted ==
    ASSUME NEW k \in Tasks, Wanted, UNCHANGED <<settled, manual>>,
           \A j \in Tasks \ {k} : at'[j] = at[j] /\ job'[j] = job[j],
           Cares(k) => Cares(k)' \/ InUse
    PROVE  Wanted'
BY DEF Wanted, InUse, Cares

LEMMA LeaveMoves ==
    ASSUME NEW k \in Tasks, NEW p, NEW did \in BOOLEAN, TaskTypes, Leave(k, p, did)
    PROVE  /\ at'[k] = p
           /\ p # "idle" => job'[k].op = job[k].op /\ job'[k].did = did
           /\ \A j \in Tasks \ {k} : at'[j] = at[j] /\ job'[j] = job[j]
BY DEF Leave, TaskTypes, Job

\* A command that succeeds goes on to what it cares for.
LEMMA SucceedsCares ==
    ASSUME NEW k \in Tasks, TaskTypes, at[k] \notin {"unused", "halt"}, job[k].op # "enter",
           Succeeds(k)
    PROVE  /\ Cares(k) => Cares(k)'
           /\ job[k].op \in Rounds \cup {"exit"} => Cares(k)'
           /\ \A j \in Tasks \ {k} : at'[j] = at[j] /\ job'[j] = job[j]
<1> DEFINE p == OnSuccess(job[k].op)
           did == job[k].did \/ Asks(k, {"exitMode"})
<1>1. did \in BOOLEAN
  BY DEF TaskTypes, Job, Asks
<1>2. /\ at'[k] = p
      /\ p # "idle" => job'[k].op = job[k].op /\ job'[k].did = did
      /\ \A j \in Tasks \ {k} : at'[j] = at[j] /\ job'[j] = job[j]
  BY <1>1, LeaveMoves DEF Succeeds
<1>3. CASE job[k].op = "exit"
  BY <1>2, <1>3 DEF OnSuccess, Cares, Rounds
<1>4. CASE job[k].op \in Rounds
  <2>1. p = "next"
    BY <1>4 DEF OnSuccess, Rounds
  <2>2. job[k].op = "exitMode" => did
    BY DEF Asks
  <2> QED BY <1>2, <1>4, <2>1, <2>2 DEF Cares, Rounds
<1>5. CASE job[k].op \notin Rounds \cup {"exit"}
  BY <1>2, <1>5 DEF Cares, Rounds
<1> QED BY <1>2, <1>3, <1>4, <1>5

\* So does one that is refused.
LEMMA FailsCares ==
    ASSUME NEW k \in Tasks, TaskTypes, at[k] \notin {"unused", "halt"}, job[k].op # "exitMode",
           Fails(k)
    PROVE  /\ Cares(k) => Cares(k)'
           /\ \A j \in Tasks \ {k} : at'[j] = at[j] /\ job'[j] = job[j]
<1>1. CASE at[k] \in {"bind", "write"} /\ Asks(k, {"startup"})
  <2>1. at' = [at EXCEPT ![k] = "retreat"] /\ job' = job
    BY <1>1 DEF Fails, Goto
  <2> QED BY <1>1, <2>1 DEF TaskTypes, Asks, Cares
<1>2. CASE ~ (at[k] \in {"bind", "write"} /\ Asks(k, {"startup"}))
  <2>1. job[k].did \in BOOLEAN /\ Leave(k, OnError(job[k].op), job[k].did)
    BY <1>2 DEF Fails, TaskTypes, Job
  <2>2. /\ at'[k] = OnError(job[k].op)
        /\ at'[k] # "idle" => job'[k].op = job[k].op /\ job'[k].did = job[k].did
        /\ \A j \in Tasks \ {k} : at'[j] = at[j] /\ job'[j] = job[j]
    BY <2>1, LeaveMoves
  <2> QED BY <2>2 DEF OnError, Cares, Rounds
<1> QED BY <1>1, <1>2

\* A write without a failure: only a command that will look at the server ends a
\* proxy mode.
LEMMA WriteServes ==
    ASSUME NEW k \in Tasks, ServeInv, Holding(k), NEW s, NEW c, Write(k, s, c),
           UNCHANGED TheRest,
           \/ s.mode = "proxy"
           \/ s.mode = settled[App(k)].mode /\ job[k].op # "enter"
           \/ job[k].op \in Rounds \cup {"exit"}
    PROVE  Serves'
<1> DEFINE a == App(k)
<1>1. /\ TaskTypes /\ FileTypes /\ faults \in Nat /\ a \in Apps
      /\ at[k] \notin {"idle", "unused", "halt"} /\ settled[a] \in States
  BY Held DEF ServeInv, Inv, RestTypes, Holding
<1>2. server' = server /\ manual' = manual /\ booting' = booting
  BY DEF TheRest
<1>3. CASE faults' # 0
  BY <1>2, <1>3 DEF Serves, ServeInv
<1>4. CASE faults' = 0
  <2>1. /\ settled' = [settled EXCEPT ![a] = s] /\ pending' = [pending EXCEPT ![a] = None]
        /\ Succeeds(k) /\ faults = 0
    BY <1>1, <1>4 DEF Write, Fault
  <2>2. \A b \in Apps : pending'[b] = None
    BY <1>1, <2>1 DEF FileTypes, ServeInv, Serves
  <2>3. settled'[a] = s /\ \A b \in Apps \ {a} : settled'[b] = settled[b]
    BY <1>1, <2>1 DEF FileTypes
  <2>4. ASSUME server = "up" PROVE Wanted'
    <3>1. CASE s.mode = "proxy"
      BY <1>1, <2>3, <3>1 DEF Wanted, InUse
    <3>2. CASE s.mode # "proxy"
      <4>1. job[k].op # "enter"
        BY <3>2 DEF Rounds
      <4>2. /\ Cares(k) => Cares(k)'
            /\ job[k].op \in Rounds \cup {"exit"} => Cares(k)'
            /\ \A j \in Tasks \ {k} : at'[j] = at[j] /\ job'[j] = job[j]
        BY <1>1, <2>1, <4>1, SucceedsCares
      <4>3. CASE job[k].op \in Rounds \cup {"exit"}
        BY <4>2, <4>3 DEF Wanted
      <4>4. CASE job[k].op \notin Rounds \cup {"exit"}
        <5>1. s.mode = settled[a].mode
          BY <3>2, <4>4
        <5>2. InUse => InUse'
          BY <2>3, <5>1 DEF InUse
        <5>3. Wanted
          BY <2>1, <2>4 DEF ServeInv, Serves
        <5>4. (\E j \in Tasks : Cares(j)) => \E j \in Tasks : Cares(j)'
          BY <4>2 DEF Cares
        <5> QED BY <1>2, <5>2, <5>3, <5>4 DEF Wanted
      <4> QED BY <4>3, <4>4
    <3> QED BY <3>1, <3>2
  <2> QED BY <1>2, <2>1, <2>2, <2>4 DEF ServeInv, Serves
<1> QED BY <1>3, <1>4

\* A step that writes no file and leaves the server as it is.
LEMMA StayServes ==
    ASSUME NEW k \in Tasks, ServeInv, UNCHANGED <<settled, pending, server, manual, booting, faults>>,
           \A j \in Tasks \ {k} : at'[j] = at[j] /\ job'[j] = job[j],
           server = "up" /\ Cares(k) => Cares(k)' \/ InUse
    PROVE  Serves'
<1>1. ASSUME faults = 0, server = "up" PROVE Wanted'
  BY <1>1, StillWanted DEF ServeInv, Serves
<1> QED BY <1>1 DEF ServeInv, Serves

\* A command that finds nothing to do, or is rejected.
LEMMA IdlyServes ==
    ASSUME NEW k \in Tasks, ServeInv, Holding(k), UNCHANGED <<files, faults, TheRest>>,
           \/ Succeeds(k) /\ job[k].op # "enter"
           \/ Fails(k) /\ job[k].op # "exitMode"
    PROVE  Serves'
<1>1. TaskTypes /\ at[k] \notin {"unused", "halt"}
  BY DEF ServeInv, Inv, Holding
<1>2. /\ \A j \in Tasks \ {k} : at'[j] = at[j] /\ job'[j] = job[j]
      /\ Cares(k) => Cares(k)'
  BY <1>1, SucceedsCares, FailsCares
<1> QED BY <1>2, StayServes DEF files, TheRest

\* The operations that move the route or the list keep the mode.
LEMMA RouteToServes ==
    ASSUME NEW k \in Tasks, ServeInv, Holding(k), NEW p, RouteTo(k, p), job[k].op # "enter",
           UNCHANGED TheRest
    PROVE  Serves'
<1> DEFINE m == settled[App(k)]
           members == IF m.on THEN add_default(m.members, p) ELSE m.members
           s == [m EXCEPT !.route = p, !.members = members]
           d == Contract(p, published_members(App(k), m.on, members))
<1>1. m \in States
  BY Held DEF ServeInv, Inv
<1>2. s.mode = m.mode /\ [s EXCEPT !.contract = d].mode = m.mode
  BY <1>1 DEF States
<1>3. PICK n, c : Write(k, n, c) /\ n.mode = m.mode
  BY <1>2 DEF RouteTo
<1> QED BY <1>3, WriteServes

LEMMA WriteDirectServes ==
    ASSUME NEW k \in Tasks, ServeInv, Holding(k), NEW mode, WriteDirect(k, mode),
           job[k].op \in Rounds \cup {"exit"}, UNCHANGED TheRest
    PROVE  Serves'
BY WriteServes DEF WriteDirect

LEMMA ActServes ==
    ASSUME NEW k \in Tasks, ServeInv,
           \/ switch_inner(k) \/ switch_route_checked(k) \/ set_route(k)
           \/ record_failover_route(k) \/ set_stack_member_locked(k) \/ resync_route(k)
    PROVE  Serves'
<1> DEFINE a == App(k)
           m == settled[a]
           p == job[k].who
<1>1. /\ at[k] = "act" /\ Holding(k) /\ UNCHANGED TheRest
      /\ job[k].op \notin Rounds \cup {"enter", "exit"}
  BY DEF switch_inner, switch_route_checked, set_route, record_failover_route,
         set_stack_member_locked, resync_route, Act, Asks, Holding, Rounds
<1>2. m \in States
  BY <1>1, Held DEF ServeInv, Inv
<1>3. CASE NothingToDo(k) \/ Rejected(k)
  BY <1>1, <1>3, IdlyServes DEF NothingToDo, Rejected, Rounds
<1>4. CASE \E q : RouteTo(k, q)
  BY <1>1, <1>4, RouteToServes
<1>5. ASSUME NEW s, NEW c, Write(k, s, c), s.mode = m.mode
      PROVE  Serves'
  BY <1>1, <1>5, WriteServes
<1>6. CASE switch_inner(k)
  <2>1. [m EXCEPT !.direct = p].mode = m.mode
    BY <1>2 DEF States
  <2> QED BY <1>3, <1>4, <1>5, <1>6, <2>1 DEF switch_inner
<1>7. CASE switch_route_checked(k)
  BY <1>3, <1>4, <1>7 DEF switch_route_checked
<1>8. CASE set_route(k) \/ record_failover_route(k)
  <2>1. [m EXCEPT !.route = p].mode = m.mode
    BY <1>2 DEF States
  <2> QED BY <1>3, <1>4, <1>5, <1>8, <2>1 DEF set_route, record_failover_route
<1>9. CASE set_stack_member_locked(k)
  <2> DEFINE members == IF job[k].on THEN m.members \cup {p} ELSE m.members \ {p}
             s == [m EXCEPT !.members = members]
             c == Contract(m.route, published_members(a, m.on, members))
  <2>1. s.mode = m.mode /\ [s EXCEPT !.contract = c].mode = m.mode
    BY <1>2 DEF States
  <2>2. \/ NothingToDo(k) \/ Rejected(k)
        \/ Write(k, [s EXCEPT !.contract = c], c) \/ Write(k, s, client[a])
    BY <1>9 DEF set_stack_member_locked
  <2> HIDE DEF s, c
  <2> QED BY <1>3, <1>5, <2>1, <2>2
<1>10. CASE resync_route(k)
  BY <1>3, <1>4, <1>10 DEF resync_route
<1> QED BY <1>6, <1>7, <1>8, <1>9, <1>10

LEMMA EnterServes ==
    ASSUME NEW k \in Tasks, ServeInv, enter_locked(k)
    PROVE  Serves'
<1>1. /\ at[k] = "write" /\ Holding(k) /\ UNCHANGED TheRest
      /\ job[k].op \in {"enter", "startup"}
  BY DEF enter_locked, TheRest, Holding, ServeInv, Inv, Control, Equipped, Comes
<1>2. settled[App(k)] \in States
  BY <1>1, Held DEF ServeInv, Inv
<1>3. CASE Fails(k) /\ UNCHANGED <<files, faults>>
  BY <1>1, <1>3, IdlyServes
<1>4. CASE ~ (Fails(k) /\ UNCHANGED <<files, faults>>)
  <2> DEFINE a == App(k)
             m == settled[a]
             r == NewRoute(k)
             on == IF Asks(k, {"startup"}) THEN m.on ELSE job[k].on
             members == IF on /\ ~ Asks(k, {"startup"}) THEN add_default(m.members, r)
                        ELSE m.members
             c == Contract(r, published_members(a, on, members))
             s == [m EXCEPT !.mode = "proxy", !.attached = TRUE, !.route = r, !.contract = c,
                            !.on = on, !.members = members]
  <2>1. s.mode = "proxy"
    BY <1>2 DEF States
  <2>2. Write(k, s, c)
    BY <1>4 DEF enter_locked
  <2> HIDE DEF s, c
  <2> QED BY <1>1, <2>1, <2>2, WriteServes
<1> QED BY <1>3, <1>4

LEMMA ExitServes ==
    ASSUME NEW k \in Tasks, ServeInv, exit_locked(k)
    PROVE  Serves'
<1>1. /\ at[k] = "act" /\ Holding(k) /\ UNCHANGED TheRest
      /\ job[k].op \in Rounds \cup {"exit"}
  BY DEF exit_locked, TheRest, Holding, Asks
<1>2. CASE \E mode : WriteDirect(k, mode)
  BY <1>1, <1>2, WriteDirectServes
<1>3. CASE Leave(k, OnSuccess(job[k].op), job[k].did) /\ UNCHANGED <<files, faults>>
  <2>1. TaskTypes /\ job[k].did \in BOOLEAN
    BY DEF ServeInv, Inv, TaskTypes, Job
  <2>2. /\ at'[k] \in {"next", "unused"}
        /\ job'[k].op = job[k].op /\ job'[k].did = job[k].did
        /\ \A j \in Tasks \ {k} : at'[j] = at[j] /\ job'[j] = job[j]
    BY <1>1, <1>3, <2>1, LeaveMoves DEF OnSuccess, Rounds
  <2>3. Cares(k) => Cares(k)'
    BY <1>1, <2>2 DEF Cares
  <2> QED BY <1>1, <1>3, <2>2, <2>3, StayServes DEF files, TheRest
<1> QED BY <1>2, <1>3 DEF exit_locked

LEMMA LockServes ==
    ASSUME NEW k \in Tasks, ServeInv, lock_settled(k)
    PROVE  Serves'
<1>1. /\ at[k] = "lock" /\ TaskTypes /\ FileTypes /\ faults \in Nat
      /\ UNCHANGED <<server, manual, booting>>
  BY DEF lock_settled, ServeInv, Inv, RestTypes
<1>2. CASE faults' # 0
  BY <1>1, <1>2 DEF ServeInv, Serves
<1>3. CASE faults' = 0
  <2>1. /\ settle({App(k)}, {}) /\ job' = job /\ faults = 0
        /\ at' = [at EXCEPT ![k] = Begin(k)]
    BY <1>1, <1>3 DEF lock_settled, Fault
  <2>2. settled' = settled /\ pending' = pending
    BY <2>1, <1>1 DEF settle, ServeInv, Serves, FileTypes
  <2>3. Begin(k) # "idle"
    BY DEF Begin
  <2>4. Cares(k) => Cares(k)'
    BY <1>1, <2>1, <2>3 DEF Cares, TaskTypes
  <2>5. \A j \in Tasks \ {k} : at'[j] = at[j] /\ job'[j] = job[j]
    BY <2>1, <1>1 DEF TaskTypes
  <2> QED BY <1>1, <1>3, <2>1, <2>2, <2>4, <2>5, StayServes
<1> QED BY <1>2, <1>3

LEMMA RetreatServes ==
    ASSUME NEW k \in Tasks, ServeInv, Retreat(k)
    PROVE  Serves'
<1>1. /\ at[k] = "retreat" /\ Holding(k) /\ UNCHANGED TheRest /\ faults \in Nat
      /\ job[k].op = "startup" /\ App(k) \in Apps
  BY Held DEF Retreat, TheRest, Holding, ServeInv, Inv, RestTypes, Control, Equipped, Comes
<1>2. CASE WriteDirect(k, "direct")
  BY <1>1, <1>2, WriteDirectServes DEF Rounds
<1>3. CASE ~ WriteDirect(k, "direct")
  <2>1. pending[App(k)] # None
    BY <1>3 DEF Retreat
  <2>2. faults # 0
    BY <1>1, <2>1 DEF ServeInv, Serves
  <2>3. UNCHANGED faults \/ Fault
    BY <1>3 DEF Retreat
  <2>4. faults' # 0
    BY <1>1, <2>2, <2>3 DEF Fault
  <2> QED BY <1>1, <2>4 DEF ServeInv, Serves, TheRest
<1> QED BY <1>2, <1>3

\* A server that is about to be used is cared for.
LEMMA ServerServes ==
    ASSUME NEW k \in Tasks, ServeInv, is_running(k) \/ BindServer(k) \/ StoreServer(k)
    PROVE  Serves'
<1>1. /\ at[k] \in {"serve", "bind", "store"} /\ TaskTypes /\ faults \in Nat
      /\ UNCHANGED <<settled, pending, booting>>
      /\ job[k].op \in {"enter", "startup", "start"} /\ job[k].did \in BOOLEAN
  BY DEF is_running, BindServer, StoreServer, ServeInv, Inv, RestTypes, Control, Equipped, Comes,
         files, TaskTypes, Job
<1>2. booting => FALSE
  BY <1>1 DEF ServeInv, Inv, Quiet
<1>3. faults' = 0 => faults = 0
  <2>1. CASE is_running(k) \/ StoreServer(k)
    BY <2>1 DEF is_running, StoreServer, counts
  <2>2. CASE BindServer(k)
    <3>1. UNCHANGED faults \/ Fault
      BY <2>2 DEF BindServer
    <3> QED BY <1>1, <3>1 DEF Fault
  <2> QED BY <2>1, <2>2
<1>4. CASE server' # "up" \/ faults' # 0
  <2> QED BY <1>1, <1>2, <1>4, <1>3 DEF ServeInv, Serves
<1>5. CASE server' = "up" /\ faults' = 0
  <2>1. faults = 0
    BY <1>5, <1>3
  <2>2. CASE job[k].op = "start"
    <3>1. manual'
      BY <1>1, <1>5, <2>2 DEF is_running, BindServer, StoreServer, Asks, ServeInv, Inv, Control,
                              Equipped, Comes
    <3> QED BY <1>1, <1>2, <2>1, <3>1 DEF ServeInv, Serves, Wanted
  <2>3. CASE job[k].op # "start"
    <3>1. Goto(k, "write")
      BY <1>1, <1>5, <2>3 DEF is_running, BindServer, StoreServer, Asks
    <3>2. at'[k] = "write" /\ job' = job
      BY <3>1, <1>1 DEF Goto, TaskTypes
    <3>3. Cares(k)'
      BY <1>1, <2>3, <3>2 DEF Cares
    <3> QED BY <1>1, <1>2, <2>1, <3>3 DEF ServeInv, Serves, Wanted
  <2> QED BY <2>2, <2>3
<1> QED BY <1>4, <1>5

\* Whoever looks stops a server nobody uses.
LEMMA StopServes ==
    ASSUME NEW k \in Tasks, ServeInv, stop_server_if_unused(k) \/ stop_server(k)
    PROVE  Serves'
<1>1. TaskTypes
  BY DEF ServeInv, Inv
<1>2. CASE stop_server_if_unused(k)
  <2>1. CASE InUse
    <3>1. Leave(k, "idle", FALSE)
      BY <1>2, <2>1 DEF stop_server_if_unused, InUse
    <3>2. \A j \in Tasks \ {k} : at'[j] = at[j] /\ job'[j] = job[j]
      BY <1>1, <3>1, LeaveMoves
    <3> QED BY <1>2, <2>1, <3>2, StayServes DEF stop_server_if_unused, files, counts
  <2>2. CASE ~ InUse
    <3>1. at' = [at EXCEPT ![k] = "halt"] /\ job' = job
      BY <1>2, <2>2 DEF stop_server_if_unused, InUse, Goto
    <3>2. Cares(k)' /\ \A j \in Tasks \ {k} : at'[j] = at[j] /\ job'[j] = job[j]
      BY <1>1, <3>1 DEF Cares, TaskTypes
    <3> QED BY <1>2, <3>2, StayServes DEF stop_server_if_unused, files, counts
  <2> QED BY <2>1, <2>2
<1>3. CASE stop_server(k)
  <2>1. UNCHANGED <<settled, pending, faults>>
    BY <1>3 DEF stop_server, files, counts
  <2>2. server' # "up"
    BY <1>3 DEF stop_server, ProcessEnds
  <2>3. booting' => server' = "down"
    BY <1>3 DEF stop_server, ProcessEnds, ServeInv, Serves, Inv, Quiet
  <2> QED BY <2>1, <2>2, <2>3 DEF ServeInv, Serves
<1> QED BY <1>2, <1>3

LEMMA OtherServes ==
    ASSUME NEW k \in Tasks, ServeInv, Check(k) \/ delete_provider(k) \/ NextApp(k) \/ Ask(k)
    PROVE  Serves'
<1>1. /\ TaskTypes /\ job[k].did \in BOOLEAN
      /\ UNCHANGED <<settled, pending, server, manual, booting, faults>>
  BY DEF ServeInv, Inv, TaskTypes, Job, Check, delete_provider, NextApp, Ask, files, TheRest, counts
<1>2. \A j \in Tasks \ {k} : at'[j] = at[j] /\ job'[j] = job[j]
  BY <1>1 DEF Check, delete_provider, NextApp, Ask, Leave, TaskTypes
<1>3. Cares(k) => Cares(k)'
  <2>1. CASE Check(k)
    BY <2>1 DEF Check, Asks, Cares, Rounds
  <2>2. CASE delete_provider(k)
    BY <2>2 DEF delete_provider, Cares, ServeInv, Inv, Control, Equipped, Comes
  <2>3. CASE NextApp(k) /\ job[k].left # <<>>
    <3>1. /\ at'[k] = "lock" /\ job'[k].op = job[k].op /\ job'[k].did = job[k].did
      BY <1>1, <2>3 DEF NextApp, TaskTypes, Job
    <3> QED BY <2>3, <3>1 DEF NextApp, Cares
  <2>4. CASE NextApp(k) /\ job[k].left = <<>>
    <3>1. Leave(k, IF Asks(k, {"exitAll", "detach"}) THEN "halt"
                   ELSE IF Asks(k, {"exitMode"}) /\ ~ job[k].did THEN "idle" ELSE "unused",
                job[k].did)
      BY <2>4 DEF NextApp
    <3>2. at'[k] = IF Asks(k, {"exitAll", "detach"}) THEN "halt"
                   ELSE IF Asks(k, {"exitMode"}) /\ ~ job[k].did THEN "idle" ELSE "unused"
      BY <1>1, <3>1, LeaveMoves
    <3> QED BY <2>4, <3>2 DEF NextApp, Cares, Asks
  <2>5. CASE Ask(k)
    BY <2>5 DEF Ask, Cares
  <2> QED BY <2>1, <2>2, <2>3, <2>4, <2>5
<1> QED BY <1>1, <1>2, <1>3, StayServes

LEMMA NextServes == ServeInv /\ [Next]_vars => ServeInv'
<1> SUFFICES ASSUME ServeInv, [Next]_vars PROVE Serves'
  BY NextKeeps DEF ServeInv
<1>1. ASSUME NEW k \in Tasks, Free(k) PROVE Serves'
  BY <1>1, ServerServes, StopServes, EnterServes, ExitServes, RetreatServes, ActServes,
     OtherServes DEF Free
<1>2. ASSUME NEW k \in Tasks, Boot(k) PROVE Serves'
  <2>1. server' = "down" /\ faults \in Nat /\ FileTypes
    BY <1>2 DEF Boot, ServeInv, Serves, Inv, RestTypes
  <2>2. faults' = 0 => \A a \in Apps : pending'[a] = None
    <3> SUFFICES ASSUME faults' = 0 PROVE \A a \in Apps : pending'[a] = None
      OBVIOUS
    <3>1. PICK Failing \in SUBSET {a \in Apps : pending[a] # None} :
             /\ faults' = faults + Cardinality(Failing)
             /\ \E Stuck \in SUBSET Failing : settle(Apps \ Failing, Stuck)
      BY <1>2 DEF Boot
    <3>2. IsFiniteSet(Failing)
      BY AppAssumption, FS_Subset
    <3>3. Cardinality(Failing) \in Nat
      BY <3>2, FS_CardinalityType
    <3>4. faults = 0
      BY <2>1, <3>1, <3>3
    <3> QED BY <3>1, <3>4 DEF settle, ServeInv, Serves
  <2> QED BY <2>1, <2>2 DEF Serves
<1>3. CASE Crash
  BY <1>3 DEF Crash, ProcessEnds, files, ServeInv, Serves
<1>4. CASE UNCHANGED vars
  BY <1>4 DEF vars, files, counts, ServeInv, Serves, Wanted, InUse, Cares
<1> QED BY <1>1, <1>2, <1>3, <1>4, LockServes, OtherServes DEF Next

\* When all commands have returned and nothing has failed, a server runs only for
\* an application in proxy mode or for the user who started it (NoIdleServer): an
\* exit or an attempt to enter leaves somebody who still looks at the server.
THEOREM ServersAreUsed == Spec => []NoIdleServer
<1>1. Init => ServeInv
  BY InitKeeps DEF Init, ServeInv, Serves
<1>2. ServeInv /\ [Next]_vars => ServeInv'
  BY NextServes
<1>3. ServeInv => NoIdleServer
  BY DEF ServeInv, Serves, Wanted, InUse, Cares, NoIdleServer
<1> QED BY <1>1, <1>2, <1>3, PTL DEF Spec

-----------------------------------------------------------------------------
(* Every command ends *)

\* The step of k brings it nearer to its return, and leaves the others where they are.
Nearer(k) ==
    /\ StepsLeft(k)' < StepsLeft(k)
    /\ \A j \in Tasks \ {k} : at'[j] = at[j] /\ job'[j] = job[j]

\* The arithmetic of the steps left: an application more weighs more than every turn.
LEMMA Weights ==
    /\ \A l \in Nat, t \in 0..10 : 10 * l + t \in Nat
    /\ \A l, m \in Nat, t, u \in 0..10 : l <= m /\ t < u => 10 * l + t < 10 * m + u
    /\ \A l, m \in Nat, t, u \in 0..10 : l < m /\ t = 9 /\ u = 3 => 10 * l + t < 10 * m + u
OBVIOUS

\* The steps left are a number, at least as many as the point asks for.
LEMMA StepsLeftType ==
    ASSUME TaskTypes, NEW k \in Tasks
    PROVE  /\ StepsLeft(k) \in Nat /\ Len(job[k].left) \in Nat
           /\ Turn[at[k]] \in 0..10
<1>1. job[k].left \in Seq(Apps) /\ at[k] \in Points
  BY DEF TaskTypes, Job
<1>2. Len(job[k].left) \in Nat
  BY <1>1
<1>3. Turn[at[k]] \in 0..10
  BY <1>1 DEF Turn, Points
<1>4. 10 * Len(job[k].left) + Turn[at[k]] \in Nat
  BY <1>2, <1>3, Weights
<1> QED BY <1>2, <1>3, <1>4 DEF StepsLeft

StepsCount == \A k \in Tasks : StepsLeft(k) \in Nat

LEMMA StepsLeftNat == TaskTypes => StepsCount
BY StepsLeftType DEF StepsCount

\* Leaving an application for a point further on.
LEMMA LeaveNearer ==
    ASSUME TaskTypes, NEW k \in Tasks, NEW p \in Points, NEW did, Leave(k, p, did),
           Turn[p] < Turn[at[k]]
    PROVE  Nearer(k)
<1>1. at'[k] = p /\ job'[k].left = IF p = "idle" THEN <<>> ELSE job[k].left
  BY DEF Leave, TaskTypes, Job, NoJob
<1>2. Len(job[k].left) \in Nat /\ Turn[at[k]] \in 0..10 /\ StepsLeft(k) \in Nat
  BY StepsLeftType
<1>3. Turn[p] \in 0..10
  BY DEF Turn, Points
<1>4. Len(job'[k].left) \in Nat /\ Len(job'[k].left) <= Len(job[k].left)
  BY <1>1, <1>2
<1>5. StepsLeft(k)' < StepsLeft(k)
  BY <1>1, <1>2, <1>3, <1>4, Weights DEF StepsLeft
<1> QED BY <1>5 DEF Nearer, Leave, TaskTypes

\* Going on to a point further on.
LEMMA GotoNearer ==
    ASSUME TaskTypes, NEW k \in Tasks, NEW p \in Points,
           at' = [at EXCEPT ![k] = p], job' = job, Turn[p] < Turn[at[k]]
    PROVE  Nearer(k)
<1>1. at'[k] = p /\ \A j \in Tasks \ {k} : at'[j] = at[j]
  BY DEF TaskTypes
<1>2. Len(job[k].left) \in Nat /\ Turn[at[k]] \in 0..10
  BY StepsLeftType
<1>3. Turn[p] \in 0..10
  BY DEF Turn, Points
<1>4. 10 * Len(job[k].left) + Turn[p] < 10 * Len(job[k].left) + Turn[at[k]]
  <2>1. \A l \in Nat : l <= l
    OBVIOUS
  <2>2. Len(job[k].left) <= Len(job[k].left)
    BY <1>2, <2>1
  <2> QED BY <1>2, <1>3, <2>2, Weights
<1> QED BY <1>1, <1>4 DEF StepsLeft, Nearer

\* A command that is done with its application has come nearer to its return,
\* and so has one that failed.
LEMMA DoneNearer ==
    ASSUME TaskTypes, NEW k \in Tasks,
           at[k] \in {"act", "write", "retreat", "store", "bind", "serve", "lock"},
           Succeeds(k) \/ Fails(k)
    PROVE  Nearer(k)
<1>1. CASE Succeeds(k)
  <2>1. OnSuccess(job[k].op) \in Points /\ Turn[OnSuccess(job[k].op)] < Turn[at[k]]
    BY DEF OnSuccess, Points, Turn
  <2> QED BY <1>1, <2>1, LeaveNearer DEF Succeeds
<1>2. CASE Fails(k) /\ at[k] \in {"bind", "write"} /\ Asks(k, {"startup"})
  <2>1. "retreat" \in Points /\ Turn["retreat"] < Turn[at[k]]
    BY <1>2 DEF Points, Turn
  <2> QED BY <1>2, <2>1, GotoNearer DEF Fails, Goto
<1>3. CASE Fails(k) /\ ~ (at[k] \in {"bind", "write"} /\ Asks(k, {"startup"}))
  <2>1. OnError(job[k].op) \in Points /\ Turn[OnError(job[k].op)] < Turn[at[k]]
    BY DEF OnError, Points, Turn
  <2> QED BY <1>3, <2>1, LeaveNearer DEF Fails
<1> QED BY <1>1, <1>2, <1>3

\* A write ends one way or the other.
LEMMA WriteNearer ==
    ASSUME TaskTypes, NEW k \in Tasks, at[k] \in {"act", "write", "retreat"},
           NEW s, NEW c, Write(k, s, c)
    PROVE  Nearer(k)
BY DoneNearer DEF Write

\* What is done under the lock of one application.
LEMMA ActNearer ==
    ASSUME TaskTypes, NEW k \in Tasks,
           \/ enter_locked(k) \/ exit_locked(k) \/ switch_inner(k) \/ switch_route_checked(k)
           \/ set_route(k) \/ record_failover_route(k) \/ set_stack_member_locked(k)
           \/ resync_route(k)
    PROVE  Nearer(k)
<1>1. at[k] \in {"act", "write"}
  BY DEF enter_locked, exit_locked, switch_inner, switch_route_checked, set_route,
         record_failover_route, set_stack_member_locked, resync_route, Act
<1>2. ASSUME NEW p, RouteTo(k, p)
      PROVE  Nearer(k)
  BY <1>1, <1>2, WriteNearer DEF RouteTo
<1>3. CASE exit_locked(k) /\ NothingToExit(k)
  <2>1. OnSuccess(job[k].op) \in Points /\ Turn[OnSuccess(job[k].op)] < Turn[at[k]]
    BY <1>1 DEF OnSuccess, Points, Turn
  <2>2. Leave(k, OnSuccess(job[k].op), job[k].did)
    BY <1>3 DEF exit_locked
  <2> QED BY <2>1, <2>2, LeaveNearer
<1>4. CASE exit_locked(k) /\ ~ NothingToExit(k)
  BY <1>1, <1>4, WriteNearer DEF exit_locked, WriteDirect
<1>5. CASE enter_locked(k)
  BY <1>1, <1>5, WriteNearer, DoneNearer DEF enter_locked
<1>6. CASE switch_inner(k) \/ switch_route_checked(k) \/ set_route(k)
  BY <1>1, <1>2, <1>6, WriteNearer, DoneNearer
  DEF switch_inner, switch_route_checked, set_route, Rejected, NothingToDo
<1>7. CASE record_failover_route(k) \/ set_stack_member_locked(k) \/ resync_route(k)
  BY <1>1, <1>2, <1>7, WriteNearer, DoneNearer
  DEF record_failover_route, set_stack_member_locked, resync_route, Rejected, NothingToDo
<1> QED BY <1>3, <1>4, <1>5, <1>6, <1>7

\* The lock, the server and the fallback.
LEMMA ServeNearer ==
    ASSUME TaskTypes, NEW k \in Tasks,
           lock_settled(k) \/ is_running(k) \/ BindServer(k) \/ StoreServer(k) \/ Retreat(k)
    PROVE  Nearer(k)
<1>1. CASE lock_settled(k)
  <2>1. Begin(k) \in Points /\ Turn[Begin(k)] < Turn["lock"]
    BY DEF Begin, Points, Turn
  <2>2. CASE at' = [at EXCEPT ![k] = Begin(k)] /\ job' = job
    BY <1>1, <2>1, <2>2, GotoNearer DEF lock_settled
  <2>3. CASE Fails(k)
    BY <1>1, <2>3, DoneNearer DEF lock_settled
  <2> QED BY <1>1, <2>2, <2>3 DEF lock_settled
<1>2. CASE is_running(k)
  <2>1. /\ "write" \in Points /\ "bind" \in Points
        /\ Turn["write"] < Turn["serve"] /\ Turn["bind"] < Turn["serve"]
    BY DEF Points, Turn
  <2> QED BY <1>2, <2>1, GotoNearer DEF is_running, Goto
<1>3. /\ {"write", "store", "idle", "next"} \subseteq Points
      /\ Turn["write"] < Turn["store"] /\ Turn["store"] < Turn["bind"]
      /\ Turn["write"] < Turn["bind"] /\ Turn["idle"] < Turn["store"]
      /\ Turn["idle"] < Turn["bind"] /\ Turn["next"] < Turn["retreat"]
  BY DEF Points, Turn
<1>4. CASE BindServer(k)
  BY <1>3, <1>4, GotoNearer, LeaveNearer, DoneNearer DEF BindServer, Goto
<1>5. CASE StoreServer(k)
  BY <1>3, <1>5, GotoNearer, LeaveNearer DEF StoreServer, Goto
<1>6. CASE Retreat(k)
  BY <1>3, <1>6, LeaveNearer, WriteNearer DEF Retreat, WriteDirect
<1> QED BY <1>1, <1>2, <1>4, <1>5, <1>6

\* The rounds, the looks without the lock, and the ends of the commands.
LEMMA OtherNearer ==
    ASSUME TaskTypes, NEW k \in Tasks,
           \/ Check(k) \/ delete_provider(k) \/ NextApp(k) \/ stop_server_if_unused(k)
           \/ stop_server(k) /\ ~ Asks(k, {"detach"})
    PROVE  Nearer(k)
<1>1. /\ {"idle", "halt", "unused", "erase", "lock"} \subseteq Points
      /\ Turn["idle"] < Turn["halt"] /\ Turn["halt"] < Turn["unused"]
      /\ Turn["idle"] < Turn["unused"] /\ Turn["idle"] < Turn["erase"]
      /\ \A p \in {"idle", "erase", "lock"} : Turn[p] < Turn["check"]
      /\ \A p \in {"idle", "halt", "unused"} : Turn[p] < Turn["next"]
  BY DEF Points, Turn
<1>2. CASE Check(k)
  <2>1. PICK p \in {"idle", "erase", "lock"} : Leave(k, p, FALSE)
    BY <1>2 DEF Check
  <2> QED BY <1>1, <1>2, <2>1, LeaveNearer DEF Check
<1>3. CASE delete_provider(k)
  BY <1>1, <1>3, LeaveNearer DEF delete_provider
<1>4. CASE NextApp(k) /\ job[k].left = <<>>
  <2>1. PICK p \in {"idle", "halt", "unused"} : Leave(k, p, job[k].did)
    BY <1>4 DEF NextApp
  <2> QED BY <1>1, <1>4, <2>1, LeaveNearer DEF NextApp
<1>5. CASE NextApp(k) /\ job[k].left # <<>>
  <2>1. job[k].left \in Seq(Apps) /\ job[k].left # <<>> /\ job[k] \in Job
    BY <1>5 DEF TaskTypes, Job
  <2>2. /\ at' = [at EXCEPT ![k] = "lock"] /\ at[k] = "next"
        /\ job' = [job EXCEPT ![k].app = Head(job[k].left), ![k].left = Tail(@)]
    BY <1>5 DEF NextApp
  <2>3. /\ at'[k] = "lock" /\ job'[k].left = Tail(job[k].left)
        /\ \A j \in Tasks \ {k} : at'[j] = at[j] /\ job'[j] = job[j]
    BY <2>1, <2>2 DEF TaskTypes, Job
  <2>4. Len(job[k].left) \in Nat /\ Len(Tail(job[k].left)) = Len(job[k].left) - 1
    BY <2>1
  <2>5. Turn["lock"] = 9 /\ Turn["next"] = 3
    BY DEF Turn
  <2>6. 10 * Len(Tail(job[k].left)) + Turn["lock"] < 10 * Len(job[k].left) + Turn["next"]
    BY <2>1, <2>4, <2>5, Weights
  <2> QED BY <2>2, <2>3, <2>6 DEF Nearer, StepsLeft
<1>6. CASE stop_server_if_unused(k)
  BY <1>1, <1>6, LeaveNearer, GotoNearer DEF stop_server_if_unused, Goto
<1>7. CASE stop_server(k) /\ ~ Asks(k, {"detach"})
  BY <1>1, <1>7, LeaveNearer DEF stop_server
<1> QED BY <1>2, <1>3, <1>4, <1>5, <1>6, <1>7

\* Every command ends: with any number of tasks, applications and failures, a step
\* that neither asks for a command nor kills the process lowers the steps one
\* command has left, and raises nobody's.
THEOREM CommandsReturn == Spec => CommandsGetOn
<1> DEFINE Progress ==
      asked' = asked /\ crashes' = crashes /\ ~ booting =>
         /\ \E k \in Tasks : StepsLeft(k)' < StepsLeft(k)
         /\ \A k \in Tasks : StepsLeft(k)' <= StepsLeft(k)
<1>1. Inv /\ [Next]_vars => [Progress]_vars
  <2> SUFFICES ASSUME Inv, Next, asked' = asked, crashes' = crashes, ~ booting
               PROVE  /\ \E k \in Tasks : StepsLeft(k)' < StepsLeft(k)
                      /\ \A k \in Tasks : StepsLeft(k)' <= StepsLeft(k)
    OBVIOUS
  <2>0. TaskTypes /\ asked \in Nat /\ crashes \in Nat
    BY DEF Inv, RestTypes
  <2>1. ASSUME NEW k \in Tasks, Nearer(k)
        PROVE  /\ \E i \in Tasks : StepsLeft(i)' < StepsLeft(i)
               /\ \A i \in Tasks : StepsLeft(i)' <= StepsLeft(i)
    <3>1. \A j \in Tasks \ {k} : StepsLeft(j)' = StepsLeft(j)
      BY <2>1 DEF Nearer, StepsLeft
    <3>2. \A j \in Tasks : StepsLeft(j) \in Nat
      BY <2>0, StepsLeftType
    <3>3. StepsLeft(k)' < StepsLeft(k) /\ StepsLeft(k)' <= StepsLeft(k)
      <4>1. (TaskTypes => StepsCount)'
        BY StepsLeftNat, PTL
      <4>2. StepsLeft(k)' \in Nat
        BY <4>1, NextKeeps DEF Inv, StepsCount
      <4> QED BY <2>1, <3>2, <4>2 DEF Nearer
    <3> QED BY <3>1, <3>2, <3>3
  <2>2. ASSUME NEW k \in Tasks, stop_server(k), Asks(k, {"detach"})
        PROVE  /\ \E i \in Tasks : StepsLeft(i)' < StepsLeft(i)
               /\ \A i \in Tasks : StepsLeft(i)' <= StepsLeft(i)
    <3>1. \A j \in Tasks : StepsLeft(j)' = 0
      BY <2>2 DEF stop_server, ProcessEnds, StepsLeft, Turn, NoJob
    <3>2. StepsLeft(k) > 0
      BY <2>0, <2>2, StepsLeftType DEF stop_server, StepsLeft, Turn
    <3>3. \A j \in Tasks : StepsLeft(j) \in Nat
      BY <2>0, StepsLeftType
    <3> QED BY <3>1, <3>2, <3>3
  <2>3. ~ Crash /\ \A k \in Tasks : ~ Ask(k) /\ ~ Boot(k)
    BY <2>0 DEF Crash, Ask, Boot
  <2>4. ASSUME NEW k \in Tasks, lock_settled(k) \/ Free(k)
        PROVE  Nearer(k) \/ (stop_server(k) /\ Asks(k, {"detach"}))
    BY <2>0, <2>4, ActNearer, ServeNearer, OtherNearer DEF Free
  <2> QED BY <2>1, <2>2, <2>3, <2>4 DEF Next
<1> QED BY <1>1, Invariance, PTL DEF Spec, CommandsGetOn
=============================================================================
