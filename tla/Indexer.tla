-------------------------------- MODULE Indexer --------------------------------
(***************************************************************************)
(* The log indexing of Redis-IR: the sequential log that commands are      *)
(* appended to, the Indexer thread that copies it in batches into the      *)
(* indexed log, the files that remember how far it got, the checkpointer   *)
(* that compacts the indexed log, the outages of the server and the        *)
(* initial indexing that makes up for them at a restart.                   *)
(*                                                                         *)
(* A position (a "seek") is a number of whole records of the sequential    *)
(* log; Missing is what readFinalLogSeek returns for a file that does not  *)
(* exist, and a file truncated but not yet written reads as 0.  A negative *)
(* position below Missing is inside a record (OneByteShort).               *)
(*                                                                         *)
(* The restorer is one step here (memory becomes what the indexed log      *)
(* says); module Restorer has its concurrency.                             *)
(***************************************************************************)
EXTENDS IndexedLog, FiniteSets

CONSTANTS
  SetValues,     \* the values that clients SET
  Commands,      \* the commands that clients issue
  Outages,       \* the kinds of outage that may happen
  Checkpointing, \* checkpoint_state of redis_ir.conf
  Replicated,    \* indexedlog_replicated of redis_ir.conf
  MaxLog,        \* bound: records ever appended to the sequential log
  MaxOutages     \* bound: outages

\* A graceful shutdown or restart, a kill of the process, a loss of power while
\* serving and during the initial indexing, the simulated log corruption, an
\* error of a read or write of the sequential log, which ends the process, or of
\* the open of the indexed log, which ends the Indexer.
OutageKinds == {"shutdown", "kill", "power", "powerInitial", "corruption", "ioerror"}

ASSUME IndexerAssumption ==
  /\ SetValues \subseteq Int
  /\ Commands \subseteq {"SET", "INCR", "DEL"}
  /\ Outages \subseteq OutageKinds
  /\ Checkpointing \in BOOLEAN
  /\ Replicated \in BOOLEAN
  /\ MaxLog \in Nat
  /\ MaxOutages \in Nat

Missing == -1

\* A file position one byte short of the end of record n: what counting the
\* bytes read from a start of -1 gives.
OneByteShort(n) == -(n + 1)

VARIABLES
  (* files *)
  log,         \* the sequential log: its whole records
  torn,        \* a record cut short by a crash ends the sequential log
  index,       \* the indexed log as Berkeley DB's shared cache has it
  disk,        \* the indexed log as the pages of its file have it
  indexFile,   \* the file of the indexed log exists
  replica,     \* the replica of the indexed log, cached; NoValue if there is none
  replicaDisk, \* the replica as the pages of its file have it
  finalSeek,   \* finalLogSeek.dat
  replicaSeek, \* finalLogSeekReplica.dat
  ckptSeek,    \* checkpointLogSeek.dat
  (* the server process *)
  phase,       \* "down", "initial" (indexing), "serving", "corrupted" (serving after
               \* corruptIndexedLog), "stopping", "ending", "exited"
  mem,         \* the database in memory
  writing,     \* the record being appended to the sequential log, or NoValue
  replicated,  \* server.indexedlog_replicated
  serverSeek,  \* server.seek_log_file
  (* the thread that indexes: the main thread in phase "initial", the Indexer *)
  pc,          \* where it is; "created" before the Indexer starts, "off" after it ends
  indexerOn,   \* server.indexer_state
  start,       \* the position it read when it started
  done,        \* how far its records are in the indexed log
  seek,        \* its local seek_log_file: how far it has parsed
  (* the Checkpointer *)
  ckpt,        \* [from, todo, stage] of the running checkpoint, or NoValue
  outages      \* outages so far

seeks == <<finalSeek, replicaSeek, ckptSeek>>
indexes == <<index, disk, indexFile, replica, replicaDisk>>
process == <<phase, mem, writing, replicated, serverSeek>>
thread == <<pc, indexerOn, start, done, seek>>
vars == <<log, torn, indexes, seeks, process, thread, ckpt, outages>>

Database == [Key -> Int \cup {NoValue, NotANumber}]

IndexType == [Key -> Seq(IndexRecord)]

TypeOK ==
  /\ log \in Seq(LogRecord)
  /\ torn \in BOOLEAN
  /\ index \in IndexType
  /\ disk \in IndexType
  /\ indexFile \in BOOLEAN
  /\ replica \in IndexType \cup {NoValue}
  /\ replicaDisk \in IndexType
  /\ finalSeek \in Int
  /\ replicaSeek \in Int
  /\ ckptSeek \in Int
  /\ phase \in {"down", "initial", "serving", "corrupted", "stopping", "ending", "exited"}
  /\ mem \in Database
  /\ writing \in LogRecord \cup {NoValue}
  /\ replicated \in BOOLEAN
  /\ serverSeek \in Int
  /\ pc \in {"off", "created", "poll", "parse", "write", "add", "replicaDel", "replicaAdd",
             "fopen", "fwrite", "close", "replicaFopen", "replicaFwrite", "replicaClose", "serve"}
  /\ indexerOn \in BOOLEAN
  /\ start \in Int
  /\ done \in Nat
  /\ seek \in Int
  /\ ckpt \in [from : Int, todo : SUBSET Key, stage : {"keys", "ended", "opened"}] \cup {NoValue}
  /\ outages \in Nat

EmptyDatabase == [k \in Key |-> NoValue]

\* The first start: no file exists but the empty sequential log.
Init ==
  /\ log = <<>>
  /\ torn = FALSE
  /\ index = EmptyIndex
  /\ disk = EmptyIndex
  /\ indexFile = FALSE
  /\ replica = NoValue
  /\ replicaDisk = EmptyIndex
  /\ finalSeek = Missing
  /\ replicaSeek = Missing
  /\ ckptSeek = Missing
  /\ phase = "down"
  /\ mem = EmptyDatabase
  /\ writing = NoValue
  /\ replicated = Replicated
  /\ serverSeek = 0
  /\ pc = "off"
  /\ indexerOn = FALSE
  /\ start = 0
  /\ done = 0
  /\ seek = 0
  /\ ckpt = NoValue
  /\ outages = 0

-------------------------------------------------------------------------------
(* The main thread while serving: a command executes in memory, then its     *)
(* record is written to the sequential log before the reply is sent.         *)

Up == phase \in {"serving", "corrupted", "stopping", "ending"}

Executes(cmd, k, v) ==
  CASE cmd = "SET"  -> mem' = [mem EXCEPT ![k] = v]
    [] cmd = "INCR" -> /\ mem[k] # NotANumber
                       /\ mem' = [mem EXCEPT ![k] = IF @ = NoValue THEN 1 ELSE @ + 1]
    [] cmd = "DEL"  -> /\ mem[k] # NoValue
                       /\ mem' = [mem EXCEPT ![k] = NoValue]

Command(cmd, k, v) ==
  /\ Up
  /\ writing = NoValue
  /\ Len(log) < MaxLog
  /\ Executes(cmd, k, v)
  /\ writing' = [cmd |-> cmd, key |-> k, val |-> IF cmd = "SET" THEN v ELSE NoValue]
  /\ UNCHANGED <<log, torn, indexes, seeks, phase, replicated, serverSeek, thread, ckpt, outages>>

\* flushAppendOnlyFile in beforeSleep, with appendfsync always; FlushError has its
\* error path.
Flush ==
  /\ writing # NoValue
  /\ log' = Append(log, writing)
  /\ writing' = NoValue
  /\ UNCHANGED <<torn, indexes, seeks, phase, mem, replicated, serverSeek, thread, ckpt, outages>>

-------------------------------------------------------------------------------
(* The initial indexing, by the main thread before it serves. *)

\* A start that has lost the indexed log or its position, and finds a replica.
UsesReplica == (finalSeek = Missing \/ ~indexFile) /\ Replicated /\ replica # NoValue

\* The same start without a replica; the file is removed before the attempt.
LosesIndex == (finalSeek = Missing \/ ~indexFile) /\ Replicated /\ replica = NoValue

\* Only the position is lost, or the attempt to use the replica has failed.
FromCheckpoint == LosesIndex \/ (finalSeek = Missing /\ indexFile /\ ~Replicated)

EmptyLog == log = <<>> /\ ~torn

\* Mutant of InitialSeek: skips a record, off by one.
InitialSeekNext ==
  IF EmptyLog THEN 0
  ELSE IF UsesReplica THEN replicaSeek
  ELSE IF FromCheckpoint THEN IF ckptSeek = Missing THEN 0 ELSE ckptSeek
  ELSE IF finalSeek = Missing THEN 0 ELSE finalSeek + 1

\* The position of the replica, of the last checkpoint, or finalLogSeek.dat.
InitialSeek ==
  IF EmptyLog THEN 0
  ELSE IF UsesReplica THEN replicaSeek
  ELSE IF FromCheckpoint THEN IF ckptSeek = Missing THEN 0 ELSE ckptSeek
  ELSE IF finalSeek = Missing THEN 0 ELSE finalSeek

\* An fseek to -1 fails and leaves the file at its start.
InitialStart ==
  /\ phase = "down"
  /\ phase' = "initial"
  /\ index' = IF UsesReplica THEN replica ELSE IF LosesIndex THEN EmptyIndex ELSE index
  /\ disk' = IF UsesReplica THEN replicaDisk ELSE IF LosesIndex THEN EmptyIndex ELSE disk
  /\ indexFile' = TRUE
  /\ replicated' = (Replicated /\ ~UsesReplica)
  /\ replica' = IF UsesReplica THEN NoValue ELSE IF Replicated /\ replica = NoValue THEN EmptyIndex ELSE replica
  /\ replicaDisk' = IF UsesReplica THEN EmptyIndex ELSE replicaDisk
  /\ start' = InitialSeek
  /\ done' = IF InitialSeek < 0 THEN 0 ELSE InitialSeek
  /\ pc' = IF EmptyLog THEN "fopen" ELSE "write"
  /\ UNCHANGED <<log, torn, seeks, mem, writing, serverSeek, indexerOn, seek, ckpt, outages>>

InInitial(step) == phase = "initial" /\ pc = step

\* After the change of the indexed log comes the same one of the replica, in the
\* step that pc names, if there is a replica; otherwise the next record.
ThenReplica(step) ==
  IF replicated THEN pc' = step /\ done' = done ELSE pc' = "write" /\ done' = done + 1

\* One record: a SET deletes the records of its key first (InitialAdd follows).
InitialRecord ==
  /\ InInitial("write")
  /\ start >= Missing
  /\ done < Len(log)
  /\ LET r == log[done + 1] IN
     \/ /\ r.cmd = "SET"
        /\ index' = delRecordIndexdLog(index, r.key)
        /\ pc' = "add"
        /\ done' = done
     \/ /\ r.cmd = "INCR"
        /\ index' = addRecordIndexedLog(index, r.key, IncrRecord)
        /\ ThenReplica("replicaAdd")
     \/ /\ r.cmd = "DEL"
        /\ index' = delRecordIndexdLog(index, r.key)
        /\ ThenReplica("replicaDel")
     \/ /\ r.cmd \in {"SETCHECKPOINT", "CHECKPOINTEND"}
        /\ done' = done + 1
        /\ UNCHANGED <<index, pc>>
  /\ UNCHANGED <<log, torn, disk, indexFile, replica, replicaDisk, seeks, process, indexerOn, start, seek, ckpt, outages>>

InitialAdd ==
  /\ InInitial("add")
  /\ LET r == log[done + 1] IN index' = addRecordIndexedLog(index, r.key, SetRecord(r.val))
  /\ ThenReplica("replicaDel")
  /\ UNCHANGED <<log, torn, disk, indexFile, replica, replicaDisk, seeks, process, indexerOn, start, seek, ckpt, outages>>

\* The replica: a SET or a DEL deletes, ...
InitialReplicaDel ==
  /\ InInitial("replicaDel")
  /\ LET r == log[done + 1] IN
     /\ replica' = delRecordIndexdLog(replica, r.key)
     /\ IF r.cmd = "SET" THEN pc' = "replicaAdd" /\ done' = done ELSE pc' = "write" /\ done' = done + 1
  /\ UNCHANGED <<log, torn, index, disk, indexFile, replicaDisk, seeks, process, indexerOn, start, seek, ckpt, outages>>

\* ... a SET or an INCR adds.
InitialReplicaAdd ==
  /\ InInitial("replicaAdd")
  /\ LET r == log[done + 1] IN
     replica' = addRecordIndexedLog(replica, r.key, IF r.cmd = "SET" THEN SetRecord(r.val) ELSE IncrRecord)
  /\ done' = done + 1
  /\ pc' = "write"
  /\ UNCHANGED <<log, torn, index, disk, indexFile, replicaDisk, seeks, process, indexerOn, start, seek, ckpt, outages>>

\* A torn record, or a start inside a record: exit(1).
InitialError ==
  /\ InInitial("write")
  /\ start < Missing \/ (done = Len(log) /\ torn)
  /\ phase' = "exited"
  /\ pc' = "off"
  /\ UNCHANGED <<log, torn, indexes, seeks, mem, writing, replicated, serverSeek, indexerOn, start, done, seek, ckpt, outages>>

InitialEnd ==
  /\ InInitial("write")
  /\ start >= Missing
  /\ done = Len(log)
  /\ ~torn
  /\ pc' = "fopen"
  /\ UNCHANGED <<log, torn, indexes, seeks, process, indexerOn, start, done, seek, ckpt, outages>>

\* writeFinalLogSeek opens the file for writing, which empties it, ...
InitialFopen ==
  /\ InInitial("fopen")
  /\ finalSeek' = 0
  /\ pc' = "fwrite"
  /\ UNCHANGED <<log, torn, indexes, replicaSeek, ckptSeek, process, indexerOn, start, done, seek, ckpt, outages>>

\* The position that the bytes read add up to.
InitialFinalSeek == IF start = Missing THEN OneByteShort(done) ELSE done

\* ... and then writes the position.
InitialFwrite ==
  /\ InInitial("fwrite")
  /\ finalSeek' = InitialFinalSeek
  /\ serverSeek' = InitialFinalSeek
  /\ pc' = "close"
  /\ UNCHANGED <<log, torn, indexes, replicaSeek, ckptSeek, phase, mem, writing, replicated, indexerOn, start, done, seek, ckpt, outages>>

\* Closing the indexed log writes its pages.  An empty sequential log returns
\* before the position of the replica is written.
InitialClose ==
  /\ InInitial("close")
  /\ disk' = index
  /\ pc' = IF replicated /\ log # <<>> THEN "replicaFopen" ELSE "serve"
  /\ UNCHANGED <<log, torn, index, indexFile, replica, replicaDisk, seeks, process, indexerOn, start, done, seek, ckpt, outages>>

\* The position of the replica, in the two steps of writeFinalLogSeek, ...
InitialReplicaFopen ==
  /\ InInitial("replicaFopen")
  /\ replicaSeek' = 0
  /\ pc' = "replicaFwrite"
  /\ UNCHANGED <<log, torn, indexes, finalSeek, ckptSeek, process, indexerOn, start, done, seek, ckpt, outages>>

InitialReplicaFwrite ==
  /\ InInitial("replicaFwrite")
  /\ replicaSeek' = InitialFinalSeek
  /\ pc' = "replicaClose"
  /\ UNCHANGED <<log, torn, indexes, finalSeek, ckptSeek, process, indexerOn, start, done, seek, ckpt, outages>>

\* ... and then its pages.
InitialReplicaClose ==
  /\ InInitial("replicaClose")
  /\ replicaDisk' = replica
  /\ pc' = "serve"
  /\ UNCHANGED <<log, torn, index, disk, indexFile, replica, seeks, process, indexerOn, start, done, seek, ckpt, outages>>

Restored == [k \in Key |-> TupleValue(index[k])]

\* The server restores the database and serves.  The Indexer is created then, or
\* when the restorer is done, and starts when it is scheduled.
Serve ==
  /\ InInitial("serve")
  /\ mem' = Restored
  /\ phase' = "serving"
  /\ pc' = "created"
  /\ UNCHANGED <<log, torn, indexes, seeks, writing, replicated, serverSeek, indexerOn, start, done, seek, ckpt, outages>>

-------------------------------------------------------------------------------
(* The Indexer thread. *)

InIndexer(step) == Up /\ pc = step

\* Variables that no step of the Indexer changes.
notIndexer == <<log, torn, indexFile, replica, replicaDisk, replicaSeek, ckptSeek, phase, mem, writing, replicated, ckpt, outages>>

\* What a file that was removed still holds: nothing.
Kept(x) == IF indexFile THEN x ELSE EmptyIndex

\* The thread looks at nothing but indexer_state: a stop signal sent before it
\* starts is overwritten.  A file that was removed is created again.
IndexerStart ==
  /\ InIndexer("created")
  /\ ~indexerOn
  /\ indexerOn' = TRUE
  /\ pc' = "poll"
  /\ start' = finalSeek
  /\ seek' = finalSeek
  /\ done' = IF finalSeek < 0 THEN 0 ELSE finalSeek
  /\ indexFile' = TRUE
  /\ index' = Kept(index)
  /\ disk' = Kept(disk)
  /\ UNCHANGED <<log, torn, replica, replicaDisk, seeks, process, ckpt, outages>>

\* Mutant of IndexerPoll: waits for one byte too many, a > for a >=.
IndexerPollLate ==
  /\ InIndexer("poll")
  /\ IF indexerOn
     THEN seek >= 0 /\ (seek + 1 < Len(log) \/ writing # NoValue) /\ pc' = "parse"
     ELSE pc' = "close"
  /\ UNCHANGED <<notIndexer, index, disk, finalSeek, serverSeek, indexerOn, start, done, seek>>

\* Mutant of IndexerPoll: the loop that waits for new bytes misses the stop signal.
IndexerPollDeaf ==
  /\ InIndexer("poll")
  /\ seek >= 0
  /\ seek < Len(log) \/ writing # NoValue
  /\ pc' = "parse"
  /\ UNCHANGED <<notIndexer, index, disk, finalSeek, serverSeek, indexerOn, start, done, seek>>

\* The bytes after seek: of whole records, or of the one that is being written.
\* The stop signal is looked at before and after they are read.
IndexerPoll ==
  /\ InIndexer("poll")
  /\ IF indexerOn
     THEN seek >= 0 /\ (seek < Len(log) \/ writing # NoValue) /\ pc' = "parse"
     ELSE pc' = "close"
  /\ UNCHANGED <<notIndexer, index, disk, finalSeek, serverSeek, indexerOn, start, done, seek>>

\* A start inside a record: what is read does not begin with '*', exit(1).
IndexerFormatError ==
  /\ InIndexer("poll")
  /\ indexerOn
  /\ seek < 0
  /\ phase' = "exited"
  /\ pc' = "off"
  /\ UNCHANGED <<log, torn, indexes, seeks, mem, writing, replicated, serverSeek, indexerOn, start, done, seek, ckpt, outages>>

IndexerParseRecord ==
  /\ InIndexer("parse")
  /\ indexerOn
  /\ seek < Len(log)
  /\ seek' = seek + 1
  /\ UNCHANGED <<notIndexer, index, disk, finalSeek, serverSeek, pc, indexerOn, start, done>>

\* Mutant of IndexerParseTorn: the bytes of the incomplete record are counted.
IndexerParseTornCounted ==
  /\ InIndexer("parse")
  /\ indexerOn
  /\ seek = Len(log)
  /\ writing # NoValue
  /\ pc' = "poll"
  /\ seek' = seek + 1
  /\ UNCHANGED <<notIndexer, index, disk, finalSeek, serverSeek, indexerOn, start, done>>

\* "Temporary EOF": the records parsed so far stay in the list.
IndexerParseTorn ==
  /\ InIndexer("parse")
  /\ indexerOn
  /\ seek = Len(log)
  /\ writing # NoValue
  /\ pc' = "poll"
  /\ UNCHANGED <<notIndexer, index, disk, finalSeek, serverSeek, indexerOn, start, done, seek>>

\* The end of the file: the list is written to the indexed log.  A stop signal
\* drops the list.
IndexerParseEnd ==
  /\ InIndexer("parse")
  /\ IF indexerOn
     THEN seek = Len(log) /\ pc' = IF done < seek THEN "write" ELSE "poll"
     ELSE pc' = "close"
  /\ UNCHANGED <<notIndexer, index, disk, finalSeek, serverSeek, indexerOn, start, done, seek>>

\* Mutant of ParsedValue: the third argument of the record itself, or none.
ParsedValueOwn(n) == log[n].val

\* Mutant of ParsedValue: read before the arguments of record n are parsed.
ParsedValueStale(n) ==
  LET p == SelectLastInSubSeq(log, start + 1, n - 1, LAMBDA r : r.val # NoValue)
  IN  IF p = 0 THEN NotANumber ELSE log[p].val

\* The variable "value" of the thread when it has parsed record n: the third
\* argument of the last record that had one, "" before the first such.
ParsedValue(n) ==
  LET p == SelectLastInSubSeq(log, start + 1, n, LAMBDA r : r.val # NoValue)
  IN  IF p = 0 THEN NotANumber ELSE log[p].val

\* One record of the list: SET and INCR are both added as a SET; SETCHECKPOINT
\* deletes the records of its key first (IndexerAdd follows).
IndexerWriteRecord ==
  /\ InIndexer("write")
  /\ indexerOn
  /\ done < seek
  /\ LET r == log[done + 1] IN
     \/ /\ r.cmd \in {"SET", "INCR"}
        /\ index' = addRecordIndexedLog(index, r.key, SetRecord(ParsedValue(done + 1)))
        /\ done' = done + 1
        /\ pc' = pc
     \/ /\ r.cmd = "DEL"
        /\ index' = delRecordIndexdLog(index, r.key)
        /\ done' = done + 1
        /\ pc' = pc
     \/ /\ r.cmd = "SETCHECKPOINT"
        /\ index' = delRecordIndexdLog(index, r.key)
        /\ pc' = "add"
        /\ done' = done
     \/ /\ r.cmd = "CHECKPOINTEND"
        /\ done' = done + 1
        /\ UNCHANGED <<index, pc>>
  /\ UNCHANGED <<notIndexer, disk, finalSeek, serverSeek, indexerOn, start, seek>>

\* Mutant of IndexerAdd: the value of the record before.
IndexerAddPrevious ==
  /\ InIndexer("add")
  /\ index' = addRecordIndexedLog(index, log[done + 1].key, SetRecord(ParsedValue(done)))
  /\ done' = done + 1
  /\ pc' = "write"
  /\ UNCHANGED <<notIndexer, disk, finalSeek, serverSeek, indexerOn, start, seek>>

IndexerAdd ==
  /\ InIndexer("add")
  /\ index' = addRecordIndexedLog(index, log[done + 1].key, SetRecord(ParsedValue(done + 1)))
  /\ done' = done + 1
  /\ pc' = "write"
  /\ UNCHANGED <<notIndexer, disk, finalSeek, serverSeek, indexerOn, start, seek>>

\* Mutant of IndexerSync: the position is written without a sync before it.
IndexerSyncNone ==
  /\ InIndexer("write")
  /\ done = seek \/ ~indexerOn
  /\ pc' = "fopen"
  /\ UNCHANGED <<notIndexer, index, disk, finalSeek, serverSeek, indexerOn, start, done, seek>>

\* The end of the list, or a stop signal before its next record: dbp->sync ...
IndexerSync ==
  /\ InIndexer("write")
  /\ done = seek \/ ~indexerOn
  /\ disk' = index
  /\ pc' = "fopen"
  /\ UNCHANGED <<notIndexer, index, finalSeek, serverSeek, indexerOn, start, done, seek>>

\* ... and writeFinalLogSeek, in its two steps.
IndexerFopen ==
  /\ InIndexer("fopen")
  /\ finalSeek' = 0
  /\ pc' = "fwrite"
  /\ UNCHANGED <<notIndexer, index, disk, serverSeek, indexerOn, start, done, seek>>

\* Mutant of IndexerFwrite: writes the end of the file, not the end of the batch.
IndexerFwriteEnd ==
  /\ InIndexer("fwrite")
  /\ finalSeek' = Len(log)
  /\ IF done < seek
     THEN pc' = "close" /\ serverSeek' = serverSeek
     ELSE pc' = "poll" /\ serverSeek' = seek
  /\ UNCHANGED <<notIndexer, index, disk, indexerOn, start, done, seek>>

\* Records left in the list: the stop branch, which leaves server.seek_log_file.
IndexerFwrite ==
  /\ InIndexer("fwrite")
  /\ finalSeek' = seek
  /\ IF done < seek
     THEN pc' = "close" /\ serverSeek' = serverSeek
     ELSE pc' = "poll" /\ serverSeek' = seek
  /\ UNCHANGED <<notIndexer, index, disk, indexerOn, start, done, seek>>

IndexerClose ==
  /\ InIndexer("close")
  /\ disk' = index
  /\ indexerOn' = FALSE
  /\ pc' = "off"
  /\ UNCHANGED <<notIndexer, index, finalSeek, serverSeek, start, done, seek>>

-------------------------------------------------------------------------------
(* The Checkpointer: a SETCHECKPOINT command for every key, executed by the  *)
(* main thread, then a CHECKPOINTEND, then the position file.  A stop of the *)
(* server and corruptIndexedLog turn checkpoint_state off.                   *)

Present == {k \in Key : mem[k] # NoValue}

\* The iterator visits the keys present now and perhaps some inserted later.
CheckpointBegin(inserted) ==
  /\ Checkpointing
  /\ phase = "serving"
  /\ ckpt = NoValue
  /\ ckpt' = [from |-> serverSeek, todo |-> Present \cup inserted, stage |-> "keys"]
  /\ UNCHANGED <<log, torn, indexes, seeks, process, thread, outages>>

\* setCheckpointCommand logs the value in memory; a key that is gone is not logged.
CheckpointKey(k) ==
  /\ Up
  /\ ckpt # NoValue
  /\ k \in ckpt.todo
  /\ writing = NoValue
  /\ IF phase # "serving" THEN ckpt' = [ckpt EXCEPT !.todo = {}] /\ writing' = writing
     ELSE /\ ckpt' = [ckpt EXCEPT !.todo = @ \ {k}]
          /\ IF mem[k] = NoValue THEN writing' = writing
             ELSE /\ Len(log) < MaxLog
                  /\ writing' = [cmd |-> "SETCHECKPOINT", key |-> k, val |-> mem[k]]
  /\ UNCHANGED <<log, torn, indexes, seeks, phase, mem, replicated, serverSeek, thread, outages>>

CheckpointEnd ==
  /\ Up
  /\ ckpt # NoValue
  /\ ckpt.todo = {}
  /\ ckpt.stage = "keys"
  /\ writing = NoValue
  /\ Len(log) < MaxLog
  /\ writing' = [cmd |-> "CHECKPOINTEND", key |-> NoValue, val |-> NotANumber]
  /\ ckpt' = [ckpt EXCEPT !.stage = "ended"]
  /\ UNCHANGED <<log, torn, indexes, seeks, phase, mem, replicated, serverSeek, thread, outages>>

\* After the reply, that is, once the record is in the sequential log, and if
\* checkpoint_state is still on: writeFinalLogSeek, in its two steps.
CheckpointFopen ==
  /\ Up
  /\ ckpt # NoValue
  /\ ckpt.stage = "ended"
  /\ writing = NoValue
  /\ IF phase = "serving"
     THEN ckptSeek' = 0 /\ ckpt' = [ckpt EXCEPT !.stage = "opened"]
     ELSE ckptSeek' = ckptSeek /\ ckpt' = NoValue
  /\ UNCHANGED <<log, torn, indexes, finalSeek, replicaSeek, process, thread, outages>>

CheckpointFwrite ==
  /\ Up
  /\ ckpt # NoValue
  /\ ckpt.stage = "opened"
  /\ ckptSeek' = ckpt.from
  /\ ckpt' = NoValue
  /\ UNCHANGED <<log, torn, indexes, finalSeek, replicaSeek, process, thread, outages>>

-------------------------------------------------------------------------------
(* Outages. *)

\* What the end of the process takes with it.
ProcessEnds ==
  /\ phase' = "down"
  /\ mem' = EmptyDatabase
  /\ writing' = NoValue
  /\ replicated' = Replicated
  /\ serverSeek' = 0
  /\ pc' = "off"
  /\ indexerOn' = FALSE
  /\ start' = 0
  /\ done' = 0
  /\ seek' = 0
  /\ ckpt' = NoValue

Outage(kind) ==
  /\ kind \in Outages
  /\ outages < MaxOutages
  /\ outages' = outages + 1

\* The cache of Berkeley DB is in shared memory and survives the process; the
\* content of a file that was removed does not.
ProcessDies ==
  /\ ProcessEnds
  /\ index' = Kept(index)
  /\ disk' = Kept(disk)
  /\ UNCHANGED <<log, indexFile, replica, replicaDisk, seeks>>

Kill ==
  /\ phase = "initial" \/ Up
  /\ Outage("kill")
  /\ ProcessDies
  /\ torn' = torn

\* The write of a record to the sequential log fails, or is short: with
\* appendfsync always the server exits.  ftruncate removes what was written, or
\* fails and leaves it.
FlushError ==
  /\ writing # NoValue
  /\ Outage("ioerror")
  /\ ProcessDies
  /\ torn' \in BOOLEAN

\* A read of the sequential log fails, and not at its end: exit(1).
InitialReadError ==
  /\ InInitial("write")
  /\ Outage("ioerror")
  /\ ProcessDies
  /\ torn' = torn

IndexerReadError ==
  /\ InIndexer("parse")
  /\ indexerOn
  /\ Outage("ioerror")
  /\ ProcessDies
  /\ torn' = torn

\* The indexed log does not open: the Indexer ends, and the server serves without.
IndexerOpenError ==
  /\ InIndexer("created")
  /\ ~indexerOn
  /\ Outage("ioerror")
  /\ pc' = "off"
  /\ UNCHANGED <<log, torn, indexes, seeks, process, indexerOn, start, done, seek, ckpt>>

\* A position file that was written and not synced may be found empty.
Unsynced(s) == IF s = Missing THEN {Missing} ELSE {s, 0}

\* A loss of power loses the caches too.  The record being written may be cut
\* short, and no position file is ever synced.
PowerLoss ==
  /\ \/ Up /\ Outage("power")
     \/ phase = "initial" /\ Outage("powerInitial")
  /\ ProcessEnds
  /\ index' = Kept(disk)
  /\ disk' = Kept(disk)
  /\ replica' = IF replica = NoValue THEN NoValue ELSE replicaDisk
  /\ torn' \in {torn, writing # NoValue}
  /\ finalSeek' \in Unsynced(finalSeek)
  /\ replicaSeek' \in Unsynced(replicaSeek)
  /\ ckptSeek' \in Unsynced(ckptSeek)
  /\ UNCHANGED <<log, indexFile, replicaDisk>>

\* stopThredas of a shutdown or a programmed restart: the stop signals.  A server
\* that corruptIndexedLog has left behind is stopped in the end, too.
Stop ==
  /\ \/ phase = "serving" /\ Outage("shutdown")
     \/ phase = "corrupted" /\ outages' = outages
  /\ phase' = "stopping"
  /\ indexerOn' = FALSE
  /\ UNCHANGED <<log, torn, indexes, seeks, mem, writing, replicated, serverSeek, pc, start, done, seek, ckpt>>

\* corruptIndexedLog: the stop signals, and the file removed under the Indexer.
\* Its restart does not come about: cancelIRThreads, on the way to execve,
\* cancels the thread that is executing it.  The server runs on.
Corrupt ==
  /\ phase = "serving"
  /\ Outage("corruption")
  /\ phase' = "corrupted"
  /\ indexerOn' = FALSE
  /\ indexFile' = FALSE
  /\ UNCHANGED <<log, torn, index, disk, replica, replicaDisk, seeks, mem, writing, replicated, serverSeek, pc, start, done, seek, ckpt>>

\* indexer_performing is off: the Indexer has ended, or has not started yet.
waitIndexerFinish ==
  /\ phase = "stopping"
  /\ pc \in {"off", "created"}
  /\ phase' = "ending"
  /\ UNCHANGED <<log, torn, indexes, seeks, mem, writing, replicated, serverSeek, thread, ckpt, outages>>

\* The last flush of the sequential log, and the exit, which ends an Indexer that
\* has started meanwhile, wherever it is.
ShutdownEnd ==
  /\ phase = "ending"
  /\ writing = NoValue
  /\ ProcessDies
  /\ UNCHANGED <<torn, outages>>

\* Berkeley DB may write a dirty page of its cache at any time.
Evict(k) ==
  /\ Outages \cap {"power", "powerInitial"} # {}
  /\ \/ /\ disk[k] # index[k]
        /\ disk' = [disk EXCEPT ![k] = index[k]]
        /\ replicaDisk' = replicaDisk
     \/ /\ replica # NoValue
        /\ replicaDisk[k] # replica[k]
        /\ replicaDisk' = [replicaDisk EXCEPT ![k] = replica[k]]
        /\ disk' = disk
  /\ UNCHANGED <<log, torn, index, indexFile, replica, seeks, process, thread, ckpt, outages>>

-------------------------------------------------------------------------------

Initial ==
  InitialStart \/ InitialRecord \/ InitialAdd \/ InitialReplicaDel \/ InitialReplicaAdd
    \/ InitialError \/ InitialEnd \/ InitialFopen \/ InitialFwrite \/ InitialClose
    \/ InitialReplicaFopen \/ InitialReplicaFwrite \/ InitialReplicaClose \/ Serve

Indexes ==
  IndexerPoll \/ IndexerFormatError \/ IndexerParseRecord \/ IndexerParseTorn \/ IndexerParseEnd
    \/ IndexerWriteRecord \/ IndexerAdd \/ IndexerSync \/ IndexerFopen \/ IndexerFwrite
    \/ IndexerClose

Client == \E cmd \in Commands, k \in Key, v \in SetValues : Command(cmd, k, v)

Checkpointer ==
  \/ \E inserted \in SUBSET (Key \ Present) : CheckpointBegin(inserted)
  \/ \E k \in Key : CheckpointKey(k)
  \/ CheckpointEnd
  \/ CheckpointFopen
  \/ CheckpointFwrite

Fails ==
  Kill \/ PowerLoss \/ FlushError \/ InitialReadError \/ IndexerReadError \/ IndexerOpenError
    \/ Stop \/ Corrupt

Next ==
  \/ Client
  \/ Flush
  \/ Initial
  \/ IndexerStart
  \/ Indexes
  \/ Checkpointer
  \/ Fails
  \/ waitIndexerFinish
  \/ ShutdownEnd
  \/ \E k \in Key : Evict(k)

Spec == Init /\ [][Next]_vars

\* The threads are scheduled by the operating system, and the event loop
\* flushes the sequential log before it waits again.  Nothing is assumed of
\* clients, of the Checkpointer or of outages.
Fairness ==
  /\ WF_vars(Flush)
  /\ WF_vars(Initial)
  /\ WF_vars(IndexerStart)
  /\ WF_vars(Indexes)
  /\ WF_vars(waitIndexerFinish)
  /\ WF_vars(ShutdownEnd)

FairSpec == Spec /\ Fairness

-------------------------------------------------------------------------------
(* Properties. *)

\* The sequential log with the record that is being written.
Logged == IF writing = NoValue THEN log ELSE Append(log, writing)

\* While the server serves, memory is what executing the whole sequential log
\* in order gives, whatever outages came before: the indexed log and the
\* remaining records together restore exactly the logged database
\* (initialIndexesSequentialLogToIndexedLog, loadDBFromIndexedLog).
RecoveredIsLogged == Up => \A k \in Key : mem[k] = LogValue(Logged, Len(Logged), k)

\* A record being replaced: its key's records are deleted, the new one not added.
Replacing(k) == pc = "add" /\ log[done + 1].key = k

\* While the server serves, the indexed log is exactly the state of the
\* database after the records that the Indexer has written
\* (writeToIndexedLog), whatever batches and retries they came in.
IndexFollowsLog ==
  Up => \A k \in Key : Replacing(k) \/ TupleValue(index[k]) = LogValue(log, done, k)

\* Some record after position n overwrites k.
OverwrittenAfter(n, k) ==
  \E i \in n + 1 .. Len(log) : log[i].key = k /\ log[i].cmd \in {"SET", "DEL"}

\* Indexing the records after n on top of x yields the logged value of k.
Repairable(x, n, k) == TupleValue(x[k]) = LogValue(log, n, k) \/ OverwrittenAfter(n, k)

\* The pages of the indexed log that are on disk while serving are never behind
\* the position in finalLogSeek.dat: what is missing comes after it (the sync
\* before writeFinalLogSeek in writeToIndexedLog).
DurableUpToSeek == Up => \A k \in Key : Repairable(disk, finalSeek, k)

\* A key is restored exactly if the sequential log leaves it present: recovery
\* neither loses a key nor brings a deleted one back, INCR included.
PresenceRecovered ==
  Up => \A k \in Key : (mem[k] = NoValue) <=> (LogValue(Logged, Len(Logged), k) = NoValue)

\* Whatever goes wrong, every record of the indexed log carries a value that the
\* sequential log has for that same key.
NoFabricatedValues ==
  \A k \in Key : \A i \in DOMAIN index[k] :
    \E j \in DOMAIN log : log[j].key = k /\ log[j].val = index[k][i].val

\* No position file, and no position that a checkpoint or the Indexer holds,
\* points beyond the end of the sequential log, over all outages: appended
\* records are always read (readFinalLogSeek, fseek).
PositionsInLog ==
  /\ \A s \in {finalSeek, replicaSeek, ckptSeek, serverSeek, start, done, seek} : s <= Len(log)
  /\ ckpt # NoValue => ckpt.from <= Len(log)

\* The server gives up (exit(1) in the initial indexing or in the Indexer) only
\* over a sequential log that ends in a torn record.
ExitsOnlyIfTorn == phase = "exited" => torn

\* Every record is eventually indexed and the position file says so, while the
\* server serves with its Indexer (indexesSequentialLogToIndexedLogV2).
RecordsIndexed ==
  \A n \in 1..MaxLog :
    (phase = "serving" /\ indexerOn /\ Len(log) >= n) ~> (finalSeek >= n \/ phase # "serving")

\* A stop signal that finds the Indexer started ends the server, wherever in its
\* loop the Indexer is and whatever commands still come (stopIndexing,
\* waitIndexerFinish).
SignalledIndexerStops ==
  (phase = "stopping" /\ pc # "created" /\ ~indexerOn) ~> (phase \in {"down", "exited"})

===============================================================================
