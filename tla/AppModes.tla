------------------------------- MODULE AppModes -------------------------------
(***************************************************************************)
(* What the mode commands promise about each application, whatever         *)
(* overlaps or dies: its mode, its route, its direct pointer and its list  *)
(* of aggregated providers change as if the commands came one at a time,   *)
(* each changing only what it is about.  The default of the aggregation    *)
(* mode joins the list when it becomes the default and is never taken out; *)
(* a failover never moves it; the direct pointer moves in direct mode only.*)
(***************************************************************************)
CONSTANTS Apps,       \* the applications that support the local proxy
          Providers,
          Joinable    \* the providers that may join the aggregation

VARIABLE modes

\* The list after p became the default.
Joins(members, p) == members \cup ({p} \cap Joinable)

Becomes(a, m) == modes' = [modes EXCEPT ![a] = m]

\* A process starts with every client detached.
Init == \A a \in Apps : ~ modes[a].attached

Enter(a, p, on) ==
    Becomes(a, [modes[a] EXCEPT !.mode = "proxy", !.attached = TRUE, !.route = p, !.on = on,
                                !.members = IF on THEN Joins(@, p) ELSE @])

\* The next start attaches an application that was left in proxy mode.
Attach(a, p) ==
    /\ modes[a].mode = "proxy"
    /\ Becomes(a, [modes[a] EXCEPT !.attached = TRUE, !.route = p])

Exit(a) == Becomes(a, [modes[a] EXCEPT !.mode = "direct", !.attached = FALSE])

Detach(a) == Becomes(a, [modes[a] EXCEPT !.attached = FALSE])

Route(a, p) ==
    /\ modes[a].mode = "proxy"
    /\ Becomes(a, [modes[a] EXCEPT !.route = p,
                                   !.members = IF modes[a].on THEN Joins(@, p) ELSE @])

Failover(a, p) ==
    /\ modes[a].mode = "proxy" /\ ~ modes[a].on
    /\ Becomes(a, [modes[a] EXCEPT !.route = p])

Remember(a, p) ==
    /\ modes[a].mode = "direct"
    /\ Becomes(a, [modes[a] EXCEPT !.route = p])

Switch(a, p) ==
    /\ modes[a].mode = "direct"
    /\ Becomes(a, [modes[a] EXCEPT !.direct = p])

Join(a, p) ==
    /\ p \in Joinable
    /\ Becomes(a, [modes[a] EXCEPT !.members = @ \cup {p}])

Part(a, p) ==
    /\ ~ (modes[a].mode = "proxy" /\ modes[a].on /\ modes[a].route = p)
    /\ Becomes(a, [modes[a] EXCEPT !.members = @ \ {p}])

Next ==
    \E a \in Apps :
       \/ Exit(a) \/ Detach(a)
       \/ \E p \in Providers :
             \/ \E on \in BOOLEAN : Enter(a, p, on)
             \/ Attach(a, p) \/ Route(a, p) \/ Failover(a, p) \/ Remember(a, p)
             \/ Switch(a, p) \/ Join(a, p) \/ Part(a, p)

Spec == Init /\ [][Next]_modes
=============================================================================
