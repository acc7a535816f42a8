--------------------------- MODULE WriteAheadIntent ---------------------------
(***************************************************************************)
(* What a multi-file operation promises (the header of mode/operation.rs): *)
(* an intent is recorded, then marked, and only then is any client file    *)
(* swapped; from the first swap on the one way out is to settle the target *)
(* completely, and before it the intent may be withdrawn.                  *)
(***************************************************************************)
CONSTANTS Owners, Targets, None

VARIABLES intent,   \* the intent on record, and whether it is marked, or None
          swapped,  \* whether the operation has swapped a client file
          store     \* what targets settle: two pointers, the mode and its mirror

vars == <<intent, swapped, store>>

\* The stores hold everything the target t says.
Settled(t) ==
    /\ t.pointer # None => store.settings = t.pointer /\ store.db = t.pointer
    /\ t.mode # None => store.mode = t.mode /\ store.mirror = (t.mode = "proxy")

Init ==
    /\ intent = None
    /\ swapped = FALSE
    /\ \E o \in Owners :
         store = [settings |-> o, db |-> o, mode |-> "direct", mirror |-> FALSE]

Record(t) ==
    /\ intent = None
    /\ intent' = [target |-> t, marked |-> FALSE]
    /\ UNCHANGED <<swapped, store>>

Mark ==
    /\ intent # None
    /\ intent' = [target |-> intent.target, marked |-> TRUE]
    /\ UNCHANGED <<swapped, store>>

Swap ==
    /\ intent # None /\ intent.marked
    /\ swapped' = TRUE
    /\ UNCHANGED <<intent, store>>

\* One of the durable writes that settle t: of the intent on record, or of an
\* operation that changes no file and records none.
SettleOne(t) ==
    /\ intent # None => t = intent.target
    /\ \/ /\ t.pointer # None
          /\ \/ store' = [store EXCEPT !.settings = t.pointer]
             \/ store' = [store EXCEPT !.db = t.pointer]
       \/ /\ t.mode # None
          /\ \/ store' = [store EXCEPT !.mode = t.mode]
             \/ store' = [store EXCEPT !.mirror = (t.mode = "proxy")]
    /\ UNCHANGED <<intent, swapped>>

Complete ==
    /\ intent # None /\ Settled(intent.target)
    /\ intent' = None /\ swapped' = FALSE
    /\ UNCHANGED store

Withdraw ==
    /\ intent # None /\ ~ swapped
    /\ intent' = None
    /\ UNCHANGED <<swapped, store>>

Next ==
    \/ \E t \in Targets : Record(t) \/ SettleOne(t)
    \/ Mark \/ Swap \/ Complete \/ Withdraw

Spec == Init /\ [][Next]_vars
=============================================================================
