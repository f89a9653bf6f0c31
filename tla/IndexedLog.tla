------------------------------ MODULE IndexedLog ------------------------------
(***************************************************************************)
(* The two logs of Redis-IR and what their records mean.                   *)
(*                                                                         *)
(* The sequential log (the append-only file) is a sequence of records      *)
(* [cmd, key, val]; val is NoValue for the commands that carry no third    *)
(* argument.  The indexed log is a Berkeley DB B-tree with duplicates:     *)
(* for every key a sequence of records, each a SET with a value or an      *)
(* INCR.                                                                   *)
(*                                                                         *)
(* Values are the integers that the strings stored by Redis denote, within *)
(* the range of a C int (the restorer computes with atoi).                 *)
(***************************************************************************)
EXTENDS Integers, Sequences, SequencesExt

CONSTANTS
  Key,          \* the keys of the database
  NoValue,      \* no value: an absent key, or a record without a third argument
  NotANumber    \* a string that is no number: the empty string, or "NULL"

ASSUME ValueAssumption ==
  /\ NoValue \notin Int
  /\ NotANumber \notin Int
  /\ NoValue # NotANumber
  /\ NoValue \notin Key

-------------------------------------------------------------------------------
(* The sequential log. *)

LogRecord ==
  [cmd : {"SET"}, key : Key, val : Int]
    \cup [cmd : {"SETCHECKPOINT"}, key : Key, val : Int \cup {NotANumber}]
    \cup [cmd : {"INCR", "DEL"}, key : Key, val : {NoValue}]
    \cup [cmd : {"CHECKPOINTEND"}, key : {NoValue}, val : {NotANumber}]

ASSUME RecordAssumption == NoValue \notin LogRecord

\* Position of the last record among the first n that overwrites k, 0 if none.
LastOverwrite(log, n, k) ==
  SelectLastInSubSeq(log, 1, n, LAMBDA r : r.key = k /\ r.cmd \in {"SET", "DEL"})

\* How many of the records in from..to increment k.
Increments(log, from, to, k) ==
  Cardinality({i \in from..to : log[i].key = k /\ log[i].cmd = "INCR"})

\* Reference: the value of k that executing the first n records of the
\* sequential log in order, as Redis does at a sequential recovery, yields.
LogValue(log, n, k) ==
  LET p == LastOverwrite(log, n, k)
      c == Increments(log, p + 1, n, k)
  IN  IF p > 0 /\ log[p].cmd = "SET" THEN log[p].val + c
      ELSE IF c > 0 THEN c ELSE NoValue

-------------------------------------------------------------------------------
(* The indexed log. *)

IndexRecord ==
  [cmd : {"SET"}, val : Int \cup {NotANumber}] \cup [cmd : {"INCR"}, val : {NoValue}]

SetRecord(v) == [cmd |-> "SET", val |-> v]

IncrRecord == [cmd |-> "INCR", val |-> NoValue]

EmptyIndex == [k \in Key |-> <<>>]

\* Adds a record after the ones that the key already has.
addRecordIndexedLog(index, k, r) == [index EXCEPT ![k] = Append(@, r)]

\* Mutant of delRecordIndexdLog: deletes the first duplicate only.
delRecordIndexdLogFirst(index, k) == [index EXCEPT ![k] = IF @ = <<>> THEN <<>> ELSE Tail(@)]

\* Deletes every record of the key.
delRecordIndexdLog(index, k) == [index EXCEPT ![k] = <<>>]

atoi(v) == IF v = NotANumber THEN 0 ELSE v

\* The value that the restorer computes from the records of one key: it starts
\* from "0", a SET replaces the value, an INCR adds one to atoi of the value.
TupleValue(recs) ==
  LET p == SelectLastInSeq(recs, LAMBDA r : r.cmd = "SET")
      c == Len(recs) - p
      base == IF p = 0 THEN 0 ELSE recs[p].val
  IN  IF recs = <<>> THEN NoValue
      ELSE IF c = 0 THEN base ELSE atoi(base) + c

===============================================================================
