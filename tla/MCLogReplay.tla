------------------------------ MODULE MCLogReplay ------------------------------
(* Small instances of LogReplay for TLC. *)
EXTENDS LogReplay

CONSTANTS k1, k2

Keys == {k1, k2}

\* The least C int, and the greatest value that MaxLog increments do not overflow.
EdgeValues == {-(IntMax + 1), IntMax - MaxLog}

===============================================================================
