------------------------------ MODULE MCRemoteRpc ------------------------------
(* A rebuild and a synchronisation that share an operation id, or a rebuild   *)
(* and a command that share one and a synchronisation beside them.            *)
EXTENDS RemoteRpc, TLC

CONSTANTS r1, r2, r3, o1, o2

Pair == {r1, r3}
SameId == (r1 :> o1) @@ (r3 :> o1)
LongPair == (r1 :> "rebuild") @@ (r3 :> "sync")

Three == {r1, r2, r3}
SharedId == (r1 :> o1) @@ (r2 :> o1) @@ (r3 :> o2)
LongThree == (r1 :> "rebuild") @@ (r2 :> "command") @@ (r3 :> "sync")
=============================================================================
