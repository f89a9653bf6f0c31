----------------------------- MODULE InstantStore -----------------------------
(***************************************************************************)
(* What instant recovery promises to the clients: from the first command   *)
(* on, the server behaves as a key-value store that holds the whole logged *)
(* database, though most of it is not in memory yet.                       *)
(***************************************************************************)
EXTENDS Integers

CONSTANTS Key, NoValue, NotANumber, SetValues

VARIABLES
  db,    \* the database
  reply  \* the last command with its reply

\* A reply to an operation on a key.
Answer(cmd, k, result) == [cmd |-> cmd, key |-> k, result |-> result]

Init ==
  /\ db \in [Key -> Int \cup {NoValue, NotANumber}]
  /\ reply = NoValue

Set(k, v) ==
  /\ db' = [db EXCEPT ![k] = v]
  /\ reply' = Answer("SET", k, v)

Get(k) ==
  /\ reply' = Answer("GET", k, db[k])
  /\ UNCHANGED db

\* An INCR of a string that is no number fails and changes nothing.
Incr(k) ==
  /\ db' = [db EXCEPT ![k] = IF @ = NotANumber THEN @ ELSE IF @ = NoValue THEN 1 ELSE @ + 1]
  /\ reply' = Answer("INCR", k, db'[k])

Del(k) ==
  /\ db' = [db EXCEPT ![k] = NoValue]
  /\ reply' = Answer("DEL", k, IF db[k] = NoValue THEN 0 ELSE 1)

Next ==
  \E k \in Key :
    \/ \E v \in SetValues : Set(k, v)
    \/ Get(k)
    \/ Incr(k)
    \/ Del(k)

Spec == Init /\ [][Next]_<<db, reply>>

===============================================================================
