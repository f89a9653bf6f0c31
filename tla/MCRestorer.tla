------------------------------ MODULE MCRestorer ------------------------------
(* Small instances of Restorer for TLC. *)
EXTENDS Restorer

TwoKeys == {1, 2}

===============================================================================
