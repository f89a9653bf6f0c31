------------------------------- MODULE LogReplay -------------------------------
(***************************************************************************)
(* The loops behind the closed forms of module IndexedLog: the replay of   *)
(* the sequential log by Redis, record by record, the initial indexing of  *)
(* a log, and the fold by which the restorer rebuilds a tuple.  The state  *)
(* is a log that grows and the indexed log that follows it.                *)
(***************************************************************************)
EXTENDS IndexedLog

CONSTANTS
  SetValues,  \* the values that are SET
  IntMax,     \* INT_MAX: the restorer computes with C ints
  MaxLog      \* bound: records of the log

ASSUME LogReplayAssumption == SetValues \subseteq Int /\ IntMax \in Nat /\ MaxLog \in Nat

VARIABLES replayLog, replayIndex

\* A sum of C ints, which wraps around.
Int32(n) == ((n + IntMax + 1) % (2 * (IntMax + 1))) - (IntMax + 1)

\* Mutant of ReplayRecord: an INCR of an absent key has no effect.
ReplayRecordPresent(k, v, r) ==
  IF r.key # k THEN v
  ELSE CASE r.cmd = "SET" -> r.val
         [] r.cmd = "INCR" -> IF v = NoValue THEN NoValue ELSE v + 1
         [] r.cmd = "DEL" -> NoValue

\* One record of the sequential log, executed by Redis on the value of k.
ReplayRecord(k, v, r) ==
  IF r.key # k THEN v
  ELSE CASE r.cmd = "SET" -> r.val
         [] r.cmd = "INCR" -> IF v = NoValue THEN 1 ELSE v + 1
         [] r.cmd = "DEL" -> NoValue

\* loadAppendOnlyFile, for one key: its value after each record of the log.
Replay(log, k) ==
  LET v[n \in 0..Len(log)] == IF n = 0 THEN NoValue ELSE ReplayRecord(k, v[n - 1], log[n])
  IN  v[Len(log)]

\* Mutant of RestoreRecord: an INCR replaces the value too.
RestoreRecordOne(v, r) == IF r.cmd = "SET" THEN r.val ELSE 1

\* One record of a tuple, as the restorer folds it.
RestoreRecord(v, r) == IF r.cmd = "SET" THEN r.val ELSE Int32(Int32(atoi(v)) + 1)

\* The value that the restorer's loop leaves for the records of a key.
Restore(recs) ==
  LET v[n \in 0..Len(recs)] == IF n = 0 THEN 0 ELSE RestoreRecord(v[n - 1], recs[n])
  IN  IF recs = <<>> THEN NoValue ELSE v[Len(recs)]

\* Mutant of IndexInitially: a DEL is not indexed.
IndexInitiallyKeeps(x, r) ==
  CASE r.cmd = "SET" -> addRecordIndexedLog(delRecordIndexdLog(x, r.key), r.key, SetRecord(r.val))
    [] r.cmd = "INCR" -> addRecordIndexedLog(x, r.key, IncrRecord)
    [] r.cmd = "DEL" -> x

\* The initial indexing of one more record.
IndexInitially(x, r) ==
  CASE r.cmd = "SET" -> addRecordIndexedLog(delRecordIndexdLog(x, r.key), r.key, SetRecord(r.val))
    [] r.cmd = "INCR" -> addRecordIndexedLog(x, r.key, IncrRecord)
    [] r.cmd = "DEL" -> delRecordIndexdLog(x, r.key)

ReplayInit ==
  /\ replayLog = <<>>
  /\ replayIndex = EmptyIndex

Logs(r) ==
  /\ Len(replayLog) < MaxLog
  /\ replayLog' = Append(replayLog, r)
  /\ replayIndex' = IndexInitially(replayIndex, r)

ReplayNext ==
  \E k \in Key :
    \/ \E v \in SetValues : Logs([cmd |-> "SET", key |-> k, val |-> v])
    \/ Logs([cmd |-> "INCR", key |-> k, val |-> NoValue])
    \/ Logs([cmd |-> "DEL", key |-> k, val |-> NoValue])

replayVars == <<replayLog, replayIndex>>

ReplaySpec == ReplayInit /\ [][ReplayNext]_replayVars

-------------------------------------------------------------------------------
(* Properties. *)

\* Replaying the log record by record gives the closed form of every prefix's
\* end (loadAppendOnlyFile against LogValue).
ReplayIsLogValue == \A k \in Key : Replay(replayLog, k) = LogValue(replayLog, Len(replayLog), k)

\* The restorer's loop over the records of a tuple computes the closed form
\* (loadRecordFromIndexedLog, loadDBFromIndexedLog against TupleValue).
RestoreIsTupleValue == \A k \in Key : Restore(replayIndex[k]) = TupleValue(replayIndex[k])

\* Indexing a log and restoring a tuple from the indexed log gives what
\* replaying the log gives: instant recovery equals sequential recovery.
InstantIsSequential == \A k \in Key : Restore(replayIndex[k]) = Replay(replayLog, k)

===============================================================================
