--------------------------- MODULE MCCircuitBreaker ---------------------------
(* Two requests against one breaker, with a low and a higher                *)
(* threshold the user can switch between.                                    *)
EXTENDS CircuitBreaker, TLC

MCConfigs == { [failure_threshold |-> 1, success_threshold |-> 1],
               [failure_threshold |-> 2, success_threshold |-> 2] }

OneConfig == { [failure_threshold |-> 1, success_threshold |-> 1] }

Interchangeable == Permutations(Requests)
=============================================================================
