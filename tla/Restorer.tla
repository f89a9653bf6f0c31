------------------------------- MODULE Restorer -------------------------------
(***************************************************************************)
(* The restorer of Redis-IR: a loader thread that restores the database    *)
(* incrementally from the indexed log, through setIR commands that it      *)
(* sends to the server as a client, while the main thread already serves   *)
(* commands and restores the key of a SET, GET or INCR on demand.          *)
(*                                                                         *)
(* The indexed log is abstracted to the value that the records of a key    *)
(* restore (TupleValue of module IndexedLog).  Keys are numbered in the    *)
(* order of the B-tree, which the loader's cursor follows.                 *)
(***************************************************************************)
EXTENDS Integers, Sequences, FiniteSetsExt

CONSTANTS
  Key,               \* the keys of the database, in the order of the B-tree
  NoValue,           \* an absent key
  NotANumber,        \* a string that is no number
  RestoredValues,    \* the values that the indexed log may hold at the start
  SetValues,         \* the values that clients SET
  Commands,          \* the commands that clients issue
  Modes,             \* the values of starts_log_indexing: "A"fter, "B"efore the loading
  LoaderFirst,       \* the loader thread runs before the first command is served
  OpenFails,         \* the indexed log may fail to open for an on-demand restore
  Stops,             \* who may stop the server: "main" (SHUTDOWN), "thread" (restart)
  MaxCommands        \* bound: commands issued

ASSUME RestorerAssumption ==
  /\ Key \subseteq Nat
  /\ RestoredValues \subseteq Int \cup {NotANumber}
  /\ SetValues \subseteq Int
  /\ NoValue \notin Int \cup {NotANumber}
  /\ NotANumber \notin Int
  /\ Commands \subseteq {"SET", "GET", "INCR", "DEL"}
  /\ Modes \subseteq {"A", "B"}
  \* A DEL that is indexed under the loader's cursor is not modelled.
  /\ "B" \in Modes => "DEL" \notin Commands
  /\ LoaderFirst \in BOOLEAN
  /\ OpenFails \in BOOLEAN
  /\ Stops \subseteq {"main", "thread"}
  /\ MaxCommands \in Nat

VARIABLES
  mode,       \* server.starts_log_indexing
  mem,        \* the database in memory
  index,      \* the value that the indexed log restores for every key
  log,        \* the records appended to the sequential log since the start
  reply,      \* the last client command with its reply
  count,      \* client commands so far
  restored,   \* hash_restored_tuples
  raced,      \* keys that the main thread added while the loader was adding one
  performing, \* server.instant_recovery_performing
  stop,       \* who asked for the stop signals: "none", "main" or "thread"
  down,       \* the server has ended
  pc,         \* the loader thread
  current,    \* current_key of the loader, NoValue past the last key
  held,       \* the key and value of the loader's setIR
  indexer,    \* the Indexer thread: "none", "created", "on" (performing), "off"
  indexerOn,  \* server.indexer_state
  indexed,    \* how many records of log it has indexed
  parsed      \* its variable "value"

server == <<mem, log, reply, count>>
hash == <<restored, raced>>
loader == <<pc, current, held>>
indexing == <<index, indexer, indexerOn, indexed, parsed>>
vars == <<mode, server, hash, performing, stop, down, loader, indexing>>

Value == Int \cup {NoValue, NotANumber}

TypeOK ==
  /\ mode \in Modes
  /\ mem \in [Key -> Value]
  /\ index \in [Key -> Value]
  /\ log \in Seq([cmd : Commands, key : Key, val : Int \cup {NoValue}])
  /\ reply \in [cmd : Commands, key : Key, result : Value] \cup {NoValue}
  /\ count \in 0..MaxCommands
  /\ restored \subseteq Key
  /\ raced \subseteq restored
  /\ performing \in BOOLEAN
  /\ stop \in {"none", "main", "thread"}
  /\ down \in BOOLEAN
  /\ pc \in {"start", "open", "loop", "skip", "read", "send", "wait", "mark", "marking", "clear", "index", "finish", "done"}
  /\ current \in Key \cup {NoValue}
  /\ held \in [key : Key, val : Value] \cup {NoValue}
  /\ indexer \in {"none", "created", "on", "off"}
  /\ indexerOn \in BOOLEAN
  /\ indexed \in 0..Len(log)
  /\ parsed \in Int \cup {NotANumber}

\* The initial indexing is over: main creates the loader thread and serves.
Init ==
  /\ mode \in Modes
  /\ mem = [k \in Key |-> NoValue]
  /\ index \in [Key -> RestoredValues \cup {NoValue}]
  /\ log = <<>>
  /\ reply = NoValue
  /\ count = 0
  /\ restored = {}
  /\ raced = {}
  /\ performing = FALSE
  /\ stop = "none"
  /\ down = FALSE
  /\ pc = "start"
  /\ current = NoValue
  /\ held = NoValue
  /\ indexer = "none"
  /\ indexerOn = FALSE
  /\ indexed = 0
  /\ parsed = NotANumber

\* The event loop runs: nothing has ended the process, and the main thread is
\* not the one that waits in stopThredas.
Serving == ~down /\ stop # "main"

-------------------------------------------------------------------------------
(* The main thread. *)

\* call(): a SET, GET or INCR restores its key first, if it is not marked.
OnDemand(cmd, k) == performing /\ cmd \in {"SET", "GET", "INCR"} /\ k \notin restored

\* Mutant of SetIfAbsent: setIR without its NX flag.
SetAlways(k, v) == [mem EXCEPT ![k] = IF v = NoValue THEN @ ELSE v]

\* setIR sets a key only if it does not exist.
SetIfAbsent(k, v) == [mem EXCEPT ![k] = IF @ = NoValue THEN v ELSE @]

\* loadRecordFromIndexedLog gets to the records of the key: an indexed log that
\* does not open leaves the key neither restored nor marked.
Loads(cmd, k, opened) == OnDemand(cmd, k) /\ opened

\* loadRecordFromIndexedLog: a key without records is marked too.
LoadRecord(cmd, k, opened) == IF Loads(cmd, k, opened) THEN SetIfAbsent(k, index[k]) ELSE mem

\* The command itself, on the database m: its effect and its reply.
Executes(cmd, k, v, m) ==
  \/ /\ cmd = "SET"
     /\ mem' = [m EXCEPT ![k] = v]
     /\ reply' = [cmd |-> cmd, key |-> k, result |-> v]
  \/ /\ cmd = "GET"
     /\ mem' = m
     /\ reply' = [cmd |-> cmd, key |-> k, result |-> m[k]]
  \/ /\ cmd = "INCR"
     /\ mem' = [m EXCEPT ![k] = IF @ = NotANumber THEN @ ELSE IF @ = NoValue THEN 1 ELSE @ + 1]
     /\ reply' = [cmd |-> cmd, key |-> k, result |-> mem'[k]]
  \/ /\ cmd = "DEL"
     /\ mem' = [m EXCEPT ![k] = NoValue]
     /\ reply' = [cmd |-> cmd, key |-> k, result |-> IF m[k] = NoValue THEN 0 ELSE 1]

\* Whether the command itself, on the database m, counts as a change.
Changes(cmd, k, m) ==
  \/ cmd = "SET"
  \/ cmd = "INCR" /\ m[k] # NotANumber
  \/ cmd = "DEL" /\ m[k] # NoValue

\* server.dirty is read before the on-demand restore, which counts as a change of
\* the command: a GET that restores its key is logged, a failing INCR too.
Dirty(cmd, k, opened) ==
  LoadRecord(cmd, k, opened) # mem \/ Changes(cmd, k, LoadRecord(cmd, k, opened))

Command(cmd, k, v, opened) ==
  /\ Serving
  /\ opened \/ (OpenFails /\ OnDemand(cmd, k))
  /\ LoaderFirst => pc # "start"
  /\ count < MaxCommands
  /\ count' = count + 1
  /\ Executes(cmd, k, v, LoadRecord(cmd, k, opened))
  /\ log' = IF Dirty(cmd, k, opened)
            THEN Append(log, [cmd |-> cmd, key |-> k, val |-> IF cmd = "SET" THEN v ELSE NoValue])
            ELSE log
  /\ restored' = IF Loads(cmd, k, opened) THEN restored \cup {k} ELSE restored
  /\ raced' = IF Loads(cmd, k, opened) /\ pc = "marking" THEN raced \cup {k} ELSE raced
  /\ UNCHANGED <<mode, performing, stop, down, loader, indexing>>

\* The setIR that the loader has sent.
SetIR ==
  /\ Serving
  /\ pc = "wait"
  /\ mem' = SetIfAbsent(held.key, held.val)
  /\ pc' = "mark"
  /\ UNCHANGED <<mode, log, reply, count, hash, performing, stop, down, current, held, indexing>>

-------------------------------------------------------------------------------
(* The loader thread: loadDBFromIndexedLog. *)

\* The first key after a given one that has records in the indexed log.
FirstKey(from) ==
  LET later == {k \in Key : k > from /\ index[k] # NoValue}
  IN  IF later = {} THEN NoValue ELSE Min(later)

LoaderStart ==
  /\ ~down
  /\ pc = "start"
  /\ performing' = TRUE
  /\ pc' = "open"
  /\ UNCHANGED <<mode, server, hash, stop, down, current, held, indexing>>

\* Opens the indexed log and the connection, starts the Indexer in mode "B",
\* and positions the cursor.
LoaderOpen ==
  /\ ~down
  /\ pc = "open"
  /\ indexer' = IF mode = "B" THEN "created" ELSE indexer
  /\ current' = FirstKey(-1)
  /\ pc' = "loop"
  /\ UNCHANGED <<mode, server, hash, performing, stop, down, held, index, indexerOn, indexed, parsed>>

\* The condition of the main loop.
LoaderLoop ==
  /\ ~down
  /\ pc = "loop"
  /\ pc' = IF current = NoValue \/ stop # "none" THEN "clear" ELSE "skip"
  /\ UNCHANGED <<mode, server, hash, performing, stop, down, current, held, indexing>>

\* Mutant of LoaderSkip: the cursor stays on a key that is marked.
LoaderSkipStays ==
  /\ ~down
  /\ pc = "skip"
  /\ IF current = NoValue THEN pc' = "clear" /\ current' = current
     ELSE IF current \in restored THEN pc' = pc /\ current' = current
     ELSE pc' = "read" /\ current' = current
  /\ UNCHANGED <<mode, server, hash, performing, stop, down, held, indexing>>

\* Keys that are marked as restored are skipped.
LoaderSkip ==
  /\ ~down
  /\ pc = "skip"
  /\ IF current = NoValue THEN pc' = "clear" /\ current' = current
     ELSE IF current \in restored THEN pc' = pc /\ current' = FirstKey(current)
     ELSE pc' = "read" /\ current' = current
  /\ UNCHANGED <<mode, server, hash, performing, stop, down, held, indexing>>

\* Reads every record of the key, and the first of the next one.
LoaderRead ==
  /\ ~down
  /\ pc = "read"
  /\ held' = [key |-> current, val |-> index[current]]
  /\ current' = FirstKey(current)
  /\ pc' = "send"
  /\ UNCHANGED <<mode, server, hash, performing, stop, down, indexing>>

LoaderSend ==
  /\ ~down
  /\ pc = "send"
  /\ pc' = "wait"
  /\ UNCHANGED <<mode, server, hash, performing, stop, down, current, held, indexing>>

\* addRestoredTuple, not synchronized with the main thread: when both add a key
\* at the same time, one of the two may be lost.
LoaderMark ==
  /\ ~down
  /\ pc = "mark"
  /\ pc' = "marking"
  /\ raced' = {}
  /\ UNCHANGED <<mode, server, restored, performing, stop, down, current, held, indexing>>

LoaderMarked ==
  /\ ~down
  /\ pc = "marking"
  /\ \/ restored' = restored \cup {held.key}
     \/ raced # {} /\ restored' = restored
     \/ \E k \in raced : restored' = (restored \ {k}) \cup {held.key}
  /\ raced' = {}
  /\ held' = NoValue
  /\ pc' = "loop"
  /\ UNCHANGED <<mode, server, performing, stop, down, current, indexing>>

\* clearHashRestoredTuples
LoaderClear ==
  /\ ~down
  /\ pc = "clear"
  /\ restored' = {}
  /\ pc' = "index"
  /\ UNCHANGED <<mode, server, raced, performing, stop, down, current, held, indexing>>

\* Starts the Indexer in mode "A".
LoaderIndex ==
  /\ ~down
  /\ pc = "index"
  /\ indexer' = IF mode = "A" THEN "created" ELSE indexer
  /\ pc' = "finish"
  /\ UNCHANGED <<mode, server, hash, performing, stop, down, current, held, index, indexerOn, indexed, parsed>>

LoaderFinish ==
  /\ ~down
  /\ pc = "finish"
  /\ performing' = FALSE
  /\ pc' = "done"
  /\ UNCHANGED <<mode, server, hash, stop, down, current, held, indexing>>

-------------------------------------------------------------------------------
(* The Indexer thread (module Indexer), one step per record here. *)

IndexerStart ==
  /\ ~down
  /\ indexer = "created"
  /\ indexer' = "on"
  /\ indexerOn' = TRUE
  /\ UNCHANGED <<mode, server, hash, performing, stop, down, loader, index, indexed, parsed>>

\* What a record makes of the value old that its key has in the indexed log, when
\* the Indexer's variable "value" is v.  A GET is no command that it indexes.
IndexedValue(r, old, v) == CASE r.cmd = "DEL" -> NoValue [] r.cmd = "GET" -> old [] OTHER -> v

\* Mutant of IndexerRecord: the third argument of the record itself, or none.
IndexerRecordOwn ==
  /\ ~down
  /\ indexer = "on"
  /\ indexerOn
  /\ indexed < Len(log)
  /\ LET r == log[indexed + 1]
     IN  /\ parsed' = r.val
         /\ index' = [index EXCEPT ![r.key] = IndexedValue(r, @, r.val)]
  /\ indexed' = indexed + 1
  /\ UNCHANGED <<mode, server, hash, performing, stop, down, loader, indexer, indexerOn>>

\* SET and INCR are both added as a SET of the last value parsed.
IndexerRecord ==
  /\ ~down
  /\ indexer = "on"
  /\ indexerOn
  /\ indexed < Len(log)
  /\ LET r == log[indexed + 1]
         v == IF r.val = NoValue THEN parsed ELSE r.val
     IN  /\ parsed' = v
         /\ index' = [index EXCEPT ![r.key] = IndexedValue(r, @, v)]
  /\ indexed' = indexed + 1
  /\ UNCHANGED <<mode, server, hash, performing, stop, down, loader, indexer, indexerOn>>

IndexerStop ==
  /\ ~down
  /\ indexer = "on"
  /\ ~indexerOn
  /\ indexer' = "off"
  /\ UNCHANGED <<mode, server, hash, performing, stop, down, loader, index, indexerOn, indexed, parsed>>

-------------------------------------------------------------------------------
(* prepareForShutdown: in the main thread (SHUTDOWN, SIGTERM), or in the     *)
(* thread of a programmed restart while the main thread serves on.           *)

\* stopThredas: the stop signals, ...
Stop(who) ==
  /\ ~down
  /\ stop = "none"
  /\ stop' = who
  /\ indexerOn' = FALSE
  /\ UNCHANGED <<mode, server, hash, performing, down, loader, index, indexer, indexed, parsed>>

\* ... the waits for the loader and the Indexer, and the end of the process.
Exit ==
  /\ ~down
  /\ stop # "none"
  /\ ~performing
  /\ indexer # "on"
  /\ down' = TRUE
  /\ UNCHANGED <<mode, server, hash, performing, stop, loader, indexing>>

-------------------------------------------------------------------------------

Loader ==
  LoaderStart \/ LoaderOpen \/ LoaderLoop \/ LoaderSkip \/ LoaderRead \/ LoaderSend \/ LoaderMark
    \/ LoaderMarked \/ LoaderClear \/ LoaderIndex \/ LoaderFinish

Indexer == IndexerStart \/ IndexerRecord \/ IndexerStop

Next ==
  \/ \E cmd \in Commands, k \in Key, v \in SetValues, opened \in BOOLEAN : Command(cmd, k, v, opened)
  \/ SetIR
  \/ Loader
  \/ Indexer
  \/ \E who \in Stops : Stop(who)
  \/ Exit

Spec == Init /\ [][Next]_vars

\* Threads are scheduled, and the event loop serves the loader's connection
\* among the others.  Nothing is assumed of clients.
FairSpec ==
  /\ Spec
  /\ WF_vars(Loader)
  /\ WF_vars(SetIR)
  /\ WF_vars(Indexer)
  /\ WF_vars(Exit)

-------------------------------------------------------------------------------
(* Properties. *)

\* The database that the clients see: memory, and what is still to be restored.
Database == [k \in Key |-> IF mem[k] # NoValue THEN mem[k] ELSE index[k]]

Store == INSTANCE InstantStore WITH db <- Database

\* Every client command, whenever it comes during the recovery and however it
\* interleaves with the loader and the Indexer, acts and replies as on the whole
\* database; and the end of the recovery changes nothing (call's on-demand
\* restore, setIRCommand, loadDBFromIndexedLog).
ActsAsStore == Store!Spec

\* A key whose last record in the sequential log is a DEL stays deleted: the
\* parallel recoveries do not restore it again (hash_restored_tuples).
DeletedStaysDeleted ==
  \A i \in DOMAIN log :
    /\ log[i].cmd = "DEL"
    /\ \A j \in i + 1 .. Len(log) : log[j].key = log[i].key => log[j].cmd \in {"GET", "DEL"}
    => mem[log[i].key] = NoValue

\* Restoring a tuple leaves no trace in the sequential log: no record of a command
\* that only reads is ever appended (setIRCommand, call's dirty counter).
ReadsUnlogged == \A i \in DOMAIN log : log[i].cmd # "GET"

\* The recovery ends, unless the server does first, whatever the clients do
\* meanwhile (loadDBFromIndexedLog).
RecoveryEnds == <>(pc = "done" \/ down)

\* The stop signal ends the recovery, so that stopThredas need not wait for ever
\* (stop_loadDBFromIndexedLog, waitLoadDBFromIndexedLogFinish).
LoaderStops == (stop # "none" /\ performing) ~> ~performing

\* The stop signals end the server, recovery or not (stopThredas).
StopEnds == (stop # "none") ~> down

===============================================================================
