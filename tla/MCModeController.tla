--------------------------- MODULE MCModeController ---------------------------
(* An application with the aggregation mode and three providers, one of which *)
(* can only be direct, beside an application with one provider.               *)
EXTENDS ModeController, TLC

CONSTANTS claude, gemini, p1, p2, p3, t1, t2

Order == <<claude, gemini>>
Stacked == <<claude>>
Rows == (claude :> {p1, p2, p3}) @@ (gemini :> {p1})
State(direct, mode, route, on, members) ==
    [mode |-> mode, attached |-> FALSE, route |-> route, contract |-> None,
     direct |-> direct, on |-> on, members |-> members]
Before == (claude :> {State(p3, "direct", None, FALSE, {}),
                      State(p3, "proxy", p1, FALSE, {p2}),
                      State(p3, "proxy", p1, TRUE, {p1, p2})})
          @@ (gemini :> {State(None, "direct", None, FALSE, {})})
TwoTasks == Permutations({t1, t2})
=============================================================================
