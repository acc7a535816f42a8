--------------------------- MODULE MCLiveOperation ---------------------------
(* The targets the operations of the runs are asked to settle.               *)
EXTENDS LiveOperation

\* Two switches back and forth: one settles a pointer, the other a mode.
TwoTargets ==
    { [own |-> "b", deletes |-> {}, pointer |-> "b", mode |-> None],
      [own |-> "a", deletes |-> {}, pointer |-> None, mode |-> "proxy"] }

\* A small instance: one switch, which rewrites both files.
OneTarget == { [own |-> "b", deletes |-> {}, pointer |-> "b", mode |-> "direct"] }

\* A switch that rewrites the first file and deletes the last one, and settles
\* the pointer and the mode together.
DeletingTarget ==
    { [own |-> "b", deletes |-> {NumFiles}, pointer |-> "b", mode |-> "proxy"] }
=============================================================================
