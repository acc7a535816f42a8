---------------------------- MODULE ModeFilesProofs ----------------------------
(***************************************************************************)
(* Proofs that the files of every client agree with the record of its      *)
(* application and that its default is on its list, for any applications,  *)
(* providers, tasks and bounds, whatever overlaps, fails, dies or is       *)
(* deleted.                                                                *)
(***************************************************************************)
EXTENDS ModeControllerProofs

\* What an application is, or will be once its intent is settled, is right.
Begun(a) == pending[a] # None /\ pending[a].begun
Kept(a) == /\ Begun(a) => Right(a, pending[a].state, pending[a].client)
           /\ ~ Begun(a) => Right(a, settled[a], client[a])
           /\ Listed(settled[a])
Keeping == \A a \in Apps : Kept(a)

FilesInv == Inv /\ Keeping

-----------------------------------------------------------------------------
(* The files *)

LEMMA SameKept ==
    ASSUME Keeping, UNCHANGED <<files, rows>>
    PROVE  Keeping'
BY DEF Keeping, Kept, Begun, Right, Listed, Agrees, published_members, files

\* What had begun was right, so its completion is.
LEMMA SettleKept ==
    ASSUME FileTypes, Keeping, NEW S, NEW Stuck, S \cap Stuck = {}, settle(S, Stuck), rows' = rows
    PROVE  Keeping'
<1> SUFFICES ASSUME NEW a \in Apps PROVE Kept(a)'
  BY DEF Keeping
<1>1. Kept(a)
  BY DEF Keeping
<1>2. \A m, c : Right(a, m, c) => Right(a, m, c)'
  BY DEF Right, Agrees, published_members
<1>3. CASE ~ Begun(a)
  <2>1. settled'[a] = settled[a] /\ client'[a] = client[a] /\ pending'[a] \in {None, pending[a]}
    BY <1>3 DEF settle, Begun
  <2>2. ~ Begun(a)'
    BY <1>3, <2>1 DEF Begun
  <2> QED BY <1>1, <1>2, <1>3, <2>1, <2>2 DEF Kept
<1>4. CASE Begun(a) /\ a \in S
  <2>1. /\ settled'[a] = pending[a].state /\ client'[a] = pending[a].client /\ pending'[a] = None
    BY <1>4 DEF settle, Begun
  <2>2. ~ Begun(a)'
    BY <2>1 DEF Begun
  <2>3. Right(a, pending[a].state, pending[a].client)
    BY <1>1, <1>4 DEF Kept
  <2> QED BY <1>2, <2>1, <2>2, <2>3 DEF Kept, Right
<1>5. CASE Begun(a) /\ a \notin S
  <2>1. pending'[a] = pending[a] /\ settled'[a] \in {settled[a], pending[a].state}
    BY <1>5 DEF settle, Begun
  <2>2. Begun(a)'
    BY <1>5, <2>1 DEF Begun
  <2>3. Right(a, pending[a].state, pending[a].client)
    BY <1>1, <1>5 DEF Kept
  <2> QED BY <1>1, <1>2, <2>1, <2>2, <2>3 DEF Kept, Right
<1> QED BY <1>3, <1>4, <1>5

\* What a task writes is right, because what it read was.
LEMMA WriteKept ==
    ASSUME NEW k \in Tasks, FilesInv, Holding(k), Written(k), rows' = rows, ~ Begun(App(k))
    PROVE  Keeping'
<1>1. App(k) \in Apps /\ at[k] # "idle" /\ FileTypes
  BY Held DEF FilesInv, Inv
<1>2. Kept(App(k)) /\ Ready(k)
  BY <1>1 DEF FilesInv, Keeping, Kept, Ready
<1>3. PICK s, c : Writes(k, s, c)
  BY DEF Written
<1>4. s \in States /\ c \in Clients /\ Write(k, s, c) /\ Right(App(k), s, c)
  BY <1>2, <1>3 DEF Writes
<1> SUFFICES ASSUME NEW a \in Apps PROVE Kept(a)'
  BY DEF Keeping
<1>5. \A m, d : Right(a, m, d) => Right(a, m, d)'
  BY DEF Right, Agrees, published_members
<1>6. CASE a # App(k)
  <2>1. settled'[a] = settled[a] /\ pending'[a] = pending[a] /\ client'[a] = client[a]
    BY <1>1, <1>4, <1>6 DEF Write, FileTypes
  <2>2. Kept(a) /\ (Begun(a)' <=> Begun(a))
    BY <2>1 DEF FilesInv, Keeping, Begun
  <2> QED BY <1>5, <2>1, <2>2 DEF Kept
<1>7. CASE a = App(k)
  <2>0. PICK m, d : m = settled[a] /\ d = client[a]
    OBVIOUS
  <2>1. Right(a, s, c)' /\ Right(a, m, d)'
    BY <1>2, <1>4, <1>5, <1>7, <2>0 DEF Kept
  <2>2. \/ /\ pending'[a] = None
           /\ \/ settled'[a] = s /\ client'[a] = c
              \/ settled'[a] = m /\ client'[a] = d
        \/ \E begun \in BOOLEAN :
              /\ pending'[a] = [state |-> s, client |-> c, begun |-> begun]
              /\ settled'[a] \in {m, s}
              /\ ~ begun => settled'[a] = m /\ client'[a] = d
    <3>1. CASE c = client[a] /\ settled' = [settled EXCEPT ![a] = s]
               /\ pending' = [pending EXCEPT ![a] = None] /\ UNCHANGED client
      BY <1>1, <2>0, <3>1 DEF FileTypes
    <3>2. CASE ~ (c = client[a] /\ settled' = [settled EXCEPT ![a] = s]
                  /\ pending' = [pending EXCEPT ![a] = None] /\ UNCHANGED client)
      BY <1>1, <1>4, <1>7, <2>0, <3>2 DEF Write, FileTypes
    <3> QED BY <3>1, <3>2
  <2>3. CASE pending'[a] = None /\ (\/ settled'[a] = s /\ client'[a] = c
                                    \/ settled'[a] = m /\ client'[a] = d)
    BY <2>1, <2>3 DEF Kept, Begun, Right
  <2>4. ASSUME NEW begun \in BOOLEAN,
               pending'[a] = [state |-> s, client |-> c, begun |-> begun],
               settled'[a] \in {m, s},
               ~ begun => settled'[a] = m /\ client'[a] = d
        PROVE  Kept(a)'
    <3>1. pending'[a] # None
      BY <1>4, <2>4, NoneAssumption DEF Intents
    <3>2. pending'[a].begun = begun /\ pending'[a].state = s /\ pending'[a].client = c
      BY <2>4
    <3>3. Listed(m) /\ Listed(s)
      BY <2>1 DEF Right
    <3>4. CASE begun
      BY <2>1, <2>4, <3>1, <3>2, <3>3, <3>4 DEF Kept, Begun
    <3>5. CASE ~ begun
      BY <2>1, <2>4, <3>2, <3>3, <3>5 DEF Kept, Begun
    <3> QED BY <3>4, <3>5
  <2> QED BY <2>2, <2>3, <2>4
<1> QED BY <1>6, <1>7

LEMMA RetreatKept ==
    ASSUME NEW k \in Tasks, FilesInv, Retreat(k)
    PROVE  Keeping'
<1> DEFINE a == App(k)
<1>1. Holding(k) /\ FileTypes /\ rows' = rows
  BY DEF Retreat, Holding, FilesInv, Inv
<1>2. CASE ~ Begun(a)
  <2>1. WriteDirect(k, "direct")
    BY <1>2 DEF Retreat, Begun
  <2>2. Written(k)
    BY <1>1, <2>1, WriteDirectWrites DEF FilesInv
  <2> QED BY <1>1, <1>2, <2>2, WriteKept
<1>3. CASE Begun(a)
  <2>1. CASE \E S, Stuck : S \cap Stuck = {} /\ settle(S, Stuck)
    BY <1>1, <2>1, SettleKept DEF FilesInv
  <2>2. CASE /\ settled' = [settled EXCEPT ![a] = [@ EXCEPT !.mode = "direct", !.contract = None]]
             /\ UNCHANGED <<client, pending>>
    <3> SUFFICES ASSUME NEW b \in Apps PROVE Kept(b)'
      BY DEF Keeping
    <3>1. Kept(b) /\ settled[b] \in States
      BY <1>1 DEF FilesInv, Keeping, FileTypes
    <3>2. \A m, d : Right(b, m, d) => Right(b, m, d)'
      BY <1>1 DEF Right, Agrees, published_members
    <3>3. Begun(b)' <=> Begun(b)
      BY <2>2 DEF Begun
    <3>4. CASE b # a
      <4>1. settled'[b] = settled[b]
        BY <1>1, <2>2, <3>4 DEF FileTypes
      <4> QED BY <2>2, <3>1, <3>2, <3>3, <4>1 DEF Kept
    <3>5. CASE b = a
      <4>1. /\ settled'[b] = [settled[b] EXCEPT !.mode = "direct", !.contract = None]
        BY <1>1, <2>2, <3>5 DEF FileTypes
      <4>2. settled'[b].mode = "direct"
        BY <3>1, <4>1 DEF States
      <4>3. Listed(settled[b])'
        BY <4>2 DEF Listed
      <4>4. Right(b, pending[b].state, pending[b].client)
        BY <1>3, <3>1, <3>5 DEF Kept
      <4> QED BY <1>3, <2>2, <3>2, <3>3, <3>5, <4>3, <4>4 DEF Kept
    <3> QED BY <3>4, <3>5
  <2> QED BY <1>3, <2>1, <2>2 DEF Retreat, Unsettled, Begun
<1> QED BY <1>2, <1>3

\* What the client is offered loses the row that the list loses.
LEMMA EraseKept ==
    ASSUME NEW k \in Tasks, FilesInv, delete_provider(k)
    PROVE  Keeping'
<1>1. UNCHANGED files /\ \A a \in Apps : rows'[a] \subseteq rows[a]
  BY DEF delete_provider, FilesInv, Inv, RestTypes
<1> SUFFICES ASSUME NEW a \in Apps PROVE Kept(a)'
  BY DEF Keeping
<1>2. Kept(a) /\ settled' = settled /\ pending' = pending /\ client' = client
  BY <1>1 DEF FilesInv, Keeping, files
<1>3. \A m, d : Right(a, m, d) => Right(a, m, d)'
  BY <1>1 DEF Right, Agrees, published_members
<1> QED BY <1>2, <1>3 DEF Kept, Begun

-----------------------------------------------------------------------------
(* Every step keeps them *)

LEMMA ActKept ==
    ASSUME NEW k \in Tasks, FilesInv,
           \/ enter_locked(k) \/ exit_locked(k) \/ switch_inner(k) \/ switch_route_checked(k)
           \/ set_route(k) \/ record_failover_route(k) \/ set_stack_member_locked(k)
           \/ resync_route(k)
    PROVE  Keeping'
<1>1. at[k] \in {"write", "act"} /\ rows' = rows
  BY DEF enter_locked, exit_locked, switch_inner, switch_route_checked, set_route,
         record_failover_route, set_stack_member_locked, resync_route, Act, TheRest
<1>2. Holding(k) /\ (Written(k) \/ Untouched(k))
  BY EnterWrites, ExitWrites, SwitchWrites, RouteWrites, SetRouteWrites, FailoverWrites,
     MemberWrites, ResyncWrites DEF FilesInv
<1>3. CASE Written(k)
  <2>1. ~ Begun(App(k))
    BY <1>1, <1>2, Held DEF FilesInv, Inv, FreshAt, Begun
  <2> QED BY <1>1, <1>2, <1>3, <2>1, WriteKept
<1>4. CASE Untouched(k)
  BY <1>1, <1>4, SameKept DEF FilesInv, Untouched, files
<1> QED BY <1>2, <1>3, <1>4

LEMMA SettledKept ==
    ASSUME NEW k \in Tasks, FilesInv, lock_settled(k)
    PROVE  Keeping'
<1>1. FileTypes /\ rows' = rows
  BY DEF lock_settled, FilesInv, Inv
<1>2. \E S, Stuck : S \cap Stuck = {} /\ settle(S, Stuck)
  BY DEF lock_settled, Unsettled
<1> QED BY <1>1, <1>2, SettleKept DEF FilesInv

LEMMA ServerKept ==
    ASSUME NEW k \in Tasks, FilesInv,
           \/ is_running(k) \/ BindServer(k) \/ StoreServer(k) \/ stop_server_if_unused(k)
           \/ stop_server(k) \/ NextApp(k) \/ Check(k) \/ Ask(k)
    PROVE  Keeping'
<1>1. UNCHANGED <<files, rows>>
  BY DEF is_running, BindServer, StoreServer, stop_server_if_unused, stop_server, NextApp,
         Check, Ask, TheRest, counts
<1> QED BY <1>1, SameKept DEF FilesInv

LEMMA BootKept ==
    ASSUME NEW k \in Tasks, FilesInv, Boot(k)
    PROVE  Keeping'
<1>1. PICK Failing \in SUBSET {a \in Apps : pending[a] # None} :
         \E Stuck \in SUBSET Failing : settle(Apps \ Failing, Stuck)
  BY DEF Boot
<1>2. PICK Stuck \in SUBSET Failing : settle(Apps \ Failing, Stuck)
  BY <1>1
<1>3. (Apps \ Failing) \cap Stuck = {} /\ rows' = rows
  BY DEF Boot
<1> QED BY <1>2, <1>3, SettleKept DEF FilesInv, Inv

LEMMA InitKept == Init => FilesInv
<1> SUFFICES ASSUME Init PROVE FilesInv
  OBVIOUS
<1>1. Inv
  BY InitKeeps
<1>2. ASSUME NEW a \in Apps PROVE Kept(a)
  <2>1. settled[a] \in Detached(a) /\ pending[a] = None
    BY LeftAssumption DEF Init
  <2>2. client[a] = Direct(settled[a].direct)
    BY DEF Init
  <2>3. Listed(settled[a])
    BY <2>1 DEF Detached, Listed
  <2>4. Agrees(a, settled[a], client[a])
    BY <2>1, <2>2 DEF Detached, Agrees, Direct
  <2> QED BY <2>1, <2>3, <2>4 DEF Kept, Begun, Right
<1> QED BY <1>1, <1>2 DEF FilesInv, Keeping

LEMMA NextKept == FilesInv /\ [Next]_vars => FilesInv'
<1> SUFFICES ASSUME FilesInv, [Next]_vars PROVE Keeping'
  BY NextKeeps DEF FilesInv
<1>1. ASSUME NEW k \in Tasks, Free(k) PROVE Keeping'
  BY <1>1, ActKept, RetreatKept, EraseKept, ServerKept DEF Free
<1>2. ASSUME NEW k \in Tasks, Ask(k) \/ Boot(k) \/ lock_settled(k) PROVE Keeping'
  BY <1>2, ServerKept, BootKept, SettledKept
<1>3. CASE Crash \/ UNCHANGED vars
  BY <1>3, SameKept DEF Crash, vars, files, FilesInv
<1> QED BY <1>1, <1>2, <1>3 DEF Next

\* An application at rest has the files its record speaks of (ContractOnFile): what
\* every operation reads under its lock is right, so is what it writes, and what it
\* leaves half written is completed to.
THEOREM FilesAgree == Spec => []ContractOnFile
<1>1. FilesInv => ContractOnFile
  BY DEF FilesInv, Keeping, Kept, Begun, Right, Agrees, Current, ContractOnFile
<1> QED BY <1>1, InitKept, NextKept, PTL DEF Spec

\* The default of the aggregation mode is on its list (DefaultIsMember), also while
\* a deletion overtakes a change of the route.
THEOREM DefaultListed == Spec => []DefaultIsMember
<1>1. FilesInv => DefaultIsMember
  BY DEF FilesInv, Keeping, Kept, Listed, DefaultIsMember
<1> QED BY <1>1, InitKept, NextKept, PTL DEF Spec
=============================================================================
