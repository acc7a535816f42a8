---------------------------- MODULE MCRemoteRuntime ----------------------------
(* Two targets and two tasks against one runtime.                              *)
EXTENDS RemoteRuntime

CONSTANT k1      \* one of the tasks

\* The tasks are alike, so that it is enough to follow one of them: if it waits for
\* the operation lock, it gets it and returns (remote_set_active_target,
\* remote_invoke).
FirstServed == Served(k1)
=============================================================================
