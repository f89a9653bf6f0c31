----------------------------- MODULE IndexerProofs -----------------------------
(***************************************************************************)
(* Proofs about Indexer, for every set of keys, values, commands and       *)
(* outages and every bound.                                                *)
(***************************************************************************)
EXTENDS Indexer, IndexedLogProofs

\* The time that a leaf may take.
USE SMTT(60), ZenonT(60)

-------------------------------------------------------------------------------
(* Types and positions. *)

\* What the steps of the indexing thread rely on: it is inside the log, at the
\* record that it is applying; it started at a record boundary; a replica
\* that the initial indexing feeds exists.
ThreadInv ==
  /\ pc \in {"add", "replicaDel", "replicaAdd"} =>
       done < Len(log) /\ log[done + 1].cmd # "CHECKPOINTEND"
  /\ pc = "add" => log[done + 1].cmd \in {"SET", "SETCHECKPOINT"}
  /\ pc = "replicaAdd" => log[done + 1].cmd \in {"SET", "INCR"}
  /\ pc \in {"replicaDel", "replicaAdd", "replicaClose", "replicaFopen", "replicaFwrite"} =>
       phase = "initial" /\ replicated
  /\ Up /\ pc \notin {"off", "created"} => (seek >= 0 => start >= 0)
  /\ Up /\ pc \notin {"off", "created", "poll", "close"} => seek >= 0
  /\ phase = "initial" /\ replicated => replica \in IndexType

TypeInv == TypeOK /\ PositionsInLog /\ ThreadInv

\* The fields of a record of the sequential log.
LEMMA RecordFields ==
  ASSUME NEW r \in LogRecord
  PROVE  /\ r.cmd \in {"SET", "INCR", "DEL", "SETCHECKPOINT", "CHECKPOINTEND"}
         /\ r.cmd # "CHECKPOINTEND" => r.key \in Key
         /\ r.cmd \in {"SET", "SETCHECKPOINT"} => r.val \in Int \cup {NotANumber}
         /\ r.cmd = "SET" => r.val \in Int
         /\ r.val # NoValue => r.val \in Int \cup {NotANumber}
BY DEF LogRecord

\* The records that the Indexer and the initial indexing add are records of the
\* indexed log.
LEMMA IndexRecords ==
  /\ IncrRecord \in IndexRecord
  /\ \A v \in Int \cup {NotANumber} : SetRecord(v) \in IndexRecord
  /\ EmptyIndex \in IndexType
BY DEF IncrRecord, SetRecord, IndexRecord, EmptyIndex, IndexType

\* Adding and deleting keep an indexed log an indexed log.
LEMMA IndexUpdates ==
  ASSUME NEW x \in IndexType, NEW k \in Key, NEW r \in IndexRecord
  PROVE  /\ addRecordIndexedLog(x, k, r) \in IndexType
         /\ delRecordIndexdLog(x, k) \in IndexType
<1>1. x[k] \in Seq(IndexRecord)
  BY DEF IndexType
<1>2. Append(x[k], r) \in Seq(IndexRecord)
  BY <1>1, AppendProperties
<1>3. <<>> \in Seq(IndexRecord)
  OBVIOUS
<1> QED BY <1>2, <1>3 DEF IndexType, addRecordIndexedLog, delRecordIndexdLog

\* The variable "value" of the Indexer always holds a string.
LEMMA ParsedValueType ==
  ASSUME TypeOK, start \in Nat, NEW n \in 0..Len(log)
  PROVE  ParsedValue(n) \in Int \cup {NotANumber}
<1> DEFINE S == {i \in start + 1 .. n : log[i].val # NoValue}
<1>0. log \in Seq(LogRecord) /\ Len(log) \in Nat
  BY DEF TypeOK
<1>1. S \subseteq 1..n
  <2> SUFFICES ASSUME NEW i \in S PROVE i \in 1..n
    OBVIOUS
  <2>1. i \in start + 1 .. n
    OBVIOUS
  <2> HIDE DEF S
  <2> QED BY <1>0, <2>1
<1>2. S # {} => Max(S) \in S
  <2>1. n \in Nat
    BY <1>0
  <2> HIDE DEF S
  <2> QED BY <1>1, <2>1, MaxInSet, ZenonT(60)
<1>3. ParsedValue(n) = IF (IF S # {} THEN Max(S) ELSE 0) = 0 THEN NotANumber
                       ELSE log[IF S # {} THEN Max(S) ELSE 0].val
  BY DEF ParsedValue, SelectLastInSubSeq
<1>4. CASE S = {}
  BY <1>3, <1>4
<1>5. CASE S # {}
  <2>1. Max(S) \in 1..Len(log) /\ log[Max(S)].val # NoValue
    BY <1>0, <1>1, <1>2, <1>5
  <2>2. log[Max(S)] \in LogRecord
    BY <1>0, <2>1, ElementOfSeq
  <2>3. ParsedValue(n) = IF Max(S) = 0 THEN NotANumber ELSE log[Max(S)].val
    BY <1>3, <1>5
  <2> HIDE DEF S
  <2> QED BY <2>1, <2>2, <2>3, RecordFields
<1> QED BY <1>4, <1>5

\* The value that the Indexer has parsed with a record that carries one is that
\* record's own.
LEMMA ParsedValueHere ==
  ASSUME TypeOK, start \in Nat, NEW n \in Nat, start < n, n <= Len(log), log[n].val # NoValue
  PROVE  ParsedValue(n) = log[n].val
<1> DEFINE S == {i \in start + 1 .. n : log[i].val # NoValue}
<1>1. n \in S /\ S \subseteq 1..n /\ n > 0
  OBVIOUS
<1>2. ParsedValue(n) = IF (IF S # {} THEN Max(S) ELSE 0) = 0 THEN NotANumber
                       ELSE log[IF S # {} THEN Max(S) ELSE 0].val
  BY DEF ParsedValue, SelectLastInSubSeq
<1> HIDE DEF S
<1>3. Max(S) \in S /\ Max(S) >= n
  BY <1>1, MaxInSet, ZenonT(60)
<1>4. Max(S) \in 1..n
  BY <1>1, <1>3, ZenonT(60)
<1>5. Max(S) = n
  BY <1>3, <1>4
<1> QED BY <1>1, <1>2, <1>5

\* The first start has the type invariant.
LEMMA InitTypeInv == Init => TypeInv
<1> SUFFICES ASSUME Init PROVE TypeInv
  OBVIOUS
<1>1. EmptyIndex \in IndexType
  BY IndexRecords
<1>2. mem \in Database
  BY DEF Init, Database, EmptyDatabase
<1>3. torn \in BOOLEAN /\ indexFile \in BOOLEAN /\ replicated \in BOOLEAN /\ indexerOn \in BOOLEAN
  BY IndexerAssumption, ZenonT(60) DEF Init
<1>4. TypeOK
  BY <1>1, <1>2, <1>3 DEF Init, TypeOK, Missing
<1> QED BY <1>4 DEF Init, TypeInv, PositionsInLog, ThreadInv, Up, Missing

\* Every step of the Indexer thread keeps types and positions.
LEMMA IndexerTypeInv == TypeInv /\ (IndexerStart \/ Indexes) => TypeInv'
<1> SUFFICES ASSUME TypeInv, IndexerStart \/ Indexes PROVE TypeInv'
  OBVIOUS
<1>0. log \in Seq(LogRecord) /\ Len(log) \in Nat
  BY DEF TypeInv, TypeOK
<1> USE <1>0 DEF TypeInv, TypeOK, PositionsInLog, ThreadInv, Up
<1>1. CASE IndexerStart
  <2>1. index' \in IndexType /\ disk' \in IndexType
    BY <1>1, IndexRecords DEF IndexerStart, Kept
  <2>2. indexFile' \in BOOLEAN /\ indexerOn' \in BOOLEAN
    BY <1>1, ZenonT(60) DEF IndexerStart
  <2> QED BY <1>1, <2>1, <2>2 DEF IndexerStart, InIndexer, seeks, process
<1>2. CASE IndexerPoll
  BY <1>2 DEF IndexerPoll, InIndexer, notIndexer
<1>3. CASE IndexerFormatError
  BY <1>3 DEF IndexerFormatError, InIndexer, indexes, seeks
<1>4. CASE IndexerParseRecord
  BY <1>4 DEF IndexerParseRecord, InIndexer, notIndexer
<1>5. CASE IndexerParseTorn
  BY <1>5 DEF IndexerParseTorn, InIndexer, notIndexer
<1>6. CASE IndexerParseEnd
  BY <1>6 DEF IndexerParseEnd, InIndexer, notIndexer
<1>7. CASE IndexerSync
  BY <1>7 DEF IndexerSync, InIndexer, notIndexer
<1>8. CASE IndexerFopen
  BY <1>8 DEF IndexerFopen, InIndexer, notIndexer
<1>9. CASE IndexerFwrite
  BY <1>9 DEF IndexerFwrite, InIndexer, notIndexer
<1>10. CASE IndexerClose
  BY <1>10, ZenonT(60) DEF IndexerClose, InIndexer, notIndexer
<1>11. CASE IndexerWriteRecord
  <2> DEFINE r == log[done + 1]
  <2>1. done \in Nat /\ done < Len(log) /\ r \in LogRecord
    BY <1>11, ElementOfSeq DEF IndexerWriteRecord
  <2>2. ParsedValue(done + 1) \in Int \cup {NotANumber}
    BY <1>11, <2>1, ParsedValueType DEF IndexerWriteRecord, InIndexer
  <2>3. SetRecord(ParsedValue(done + 1)) \in IndexRecord
    BY <2>2, IndexRecords, ZenonT(60)
  <2>4. index' \in IndexType
    BY <1>11, <2>1, <2>3, IndexUpdates, RecordFields DEF IndexerWriteRecord
  <2> QED BY <1>11, <2>1, <2>4 DEF IndexerWriteRecord, InIndexer, notIndexer
<1>12. CASE IndexerAdd
  <2>1. done \in Nat /\ done < Len(log) /\ log[done + 1] \in LogRecord
    BY <1>12, ElementOfSeq DEF IndexerAdd, InIndexer
  <2>2. log[done + 1].key \in Key
    BY <1>12, <2>1, RecordFields DEF IndexerAdd, InIndexer
  <2>3. ParsedValue(done + 1) \in Int \cup {NotANumber}
    BY <1>12, <2>1, ParsedValueType DEF IndexerAdd, InIndexer
  <2>4. SetRecord(ParsedValue(done + 1)) \in IndexRecord
    BY <2>3, IndexRecords, ZenonT(60)
  <2>5. index' \in IndexType
    BY <1>12, <2>2, <2>4, IndexUpdates DEF IndexerAdd
  <2> QED BY <1>12, <2>1, <2>5 DEF IndexerAdd, InIndexer, notIndexer
<1> QED BY <1>1, <1>2, <1>3, <1>4, <1>5, <1>6, <1>7, <1>8, <1>9, <1>10, <1>11, <1>12, ZenonT(60) DEF Indexes

\* Every step of the initial indexing keeps types and positions.
LEMMA InitialTypeInv == TypeInv /\ (Initial) => TypeInv'
<1> SUFFICES ASSUME TypeInv, Initial PROVE TypeInv'
  OBVIOUS
<1>0. log \in Seq(LogRecord) /\ Len(log) \in Nat
  BY DEF TypeInv, TypeOK
<1> USE <1>0 DEF TypeInv, TypeOK, PositionsInLog, ThreadInv, Up
<1>1. CASE InitialStart
  <2>1. InitialSeek \in Int /\ InitialSeek <= Len(log)
    BY DEF InitialSeek, Missing
  <2>2. /\ index' \in IndexType /\ disk' \in IndexType
        /\ replica' \in IndexType \cup {NoValue} /\ replicaDisk' \in IndexType
    BY <1>1, IndexRecords DEF InitialStart, UsesReplica
  <2>3. replicated' \in BOOLEAN
    BY <1>1, ZenonT(60) DEF InitialStart
  <2>4. replicated' => replica' \in IndexType
    BY <1>1, IndexRecords, ZenonT(60) DEF InitialStart
  <2> QED BY <1>1, <2>1, <2>2, <2>3, <2>4 DEF InitialStart, seeks
<1>2. CASE InitialRecord
  <2> DEFINE r == log[done + 1]
  <2>1. done \in Nat /\ done < Len(log) /\ r \in LogRecord
    BY <1>2, ElementOfSeq DEF InitialRecord
  <2>2. index' \in IndexType
    BY <1>2, <2>1, IndexRecords, IndexUpdates, RecordFields DEF InitialRecord
  <2> QED BY <1>2, <2>1, <2>2 DEF InitialRecord, InInitial, ThenReplica, seeks, process
<1>3. CASE InitialAdd
  <2> DEFINE r == log[done + 1]
  <2>1. done \in Nat /\ done < Len(log) /\ r \in LogRecord /\ r.cmd \in {"SET", "SETCHECKPOINT"}
    BY <1>3, ElementOfSeq DEF InitialAdd, InInitial
  <2>2. r.key \in Key /\ SetRecord(r.val) \in IndexRecord
    BY <2>1, RecordFields, IndexRecords, ZenonT(60)
  <2>3. index' \in IndexType
    BY <1>3, <2>2, IndexUpdates DEF InitialAdd
  <2> QED BY <1>3, <2>1, <2>3 DEF InitialAdd, InInitial, ThenReplica, seeks, process
<1>4. CASE InitialError
  BY <1>4 DEF InitialError, InInitial, indexes, seeks
<1>5. CASE InitialEnd
  BY <1>5 DEF InitialEnd, InInitial, indexes, seeks, process
<1>6. CASE InitialFopen
  BY <1>6 DEF InitialFopen, InInitial, indexes, process
<1>7. CASE InitialFwrite
  BY <1>7 DEF InitialFwrite, InInitial, InitialFinalSeek, OneByteShort, indexes
<1>8. CASE InitialClose
  BY <1>8 DEF InitialClose, InInitial, seeks, process
<1>9. CASE InitialReplicaDel
  <2> DEFINE r == log[done + 1]
  <2>1. done \in Nat /\ done < Len(log) /\ r \in LogRecord /\ r.cmd # "CHECKPOINTEND"
    BY <1>9, ElementOfSeq DEF InitialReplicaDel, InInitial
  <2>2. r.key \in Key
    BY <2>1, RecordFields
  <2>3. replica' \in IndexType
    BY <1>9, <2>2, IndexUpdates, IndexRecords DEF InitialReplicaDel, InInitial
  <2> QED BY <1>9, <2>1, <2>3 DEF InitialReplicaDel, InInitial, seeks, process
<1>10. CASE InitialReplicaAdd
  <2> DEFINE r == log[done + 1]
  <2>1. done \in Nat /\ done < Len(log) /\ r \in LogRecord /\ r.cmd # "CHECKPOINTEND"
    BY <1>10, ElementOfSeq DEF InitialReplicaAdd, InInitial
  <2>2. r.key \in Key /\ (IF r.cmd = "SET" THEN SetRecord(r.val) ELSE IncrRecord) \in IndexRecord
    BY <2>1, RecordFields, IndexRecords, ZenonT(60)
  <2>3. replica' \in IndexType
    BY <1>10, <2>2, IndexUpdates DEF InitialReplicaAdd, InInitial
  <2> QED BY <1>10, <2>1, <2>3 DEF InitialReplicaAdd, InInitial, seeks, process
<1>11. CASE InitialReplicaFopen
  BY <1>11 DEF InitialReplicaFopen, InInitial, indexes, process
<1>12. CASE InitialReplicaFwrite
  BY <1>12 DEF InitialReplicaFwrite, InInitial, InitialFinalSeek, OneByteShort, indexes, process
<1>13. CASE InitialReplicaClose
  BY <1>13 DEF InitialReplicaClose, InInitial, seeks, process
<1>14. CASE Serve
  <2>1. mem' \in Database
    BY <1>14, TupleValueType DEF Serve, Restored, Database, IndexType
  <2> QED BY <1>14, <2>1 DEF Serve, InInitial, indexes, seeks
<1> QED BY <1>1, <1>2, <1>3, <1>4, <1>5, <1>6, <1>7, <1>8, <1>9, <1>10, <1>11, <1>12, <1>13, <1>14,
           ZenonT(60) DEF Initial

\* Every step of the main thread that serves, and of the Checkpointer, keeps
\* types and positions: the sequential log only grows.
LEMMA ServingTypeInv == TypeInv /\ (Client \/ Flush \/ Checkpointer) => TypeInv'
<1> SUFFICES ASSUME TypeInv, Client \/ Flush \/ Checkpointer PROVE TypeInv'
  OBVIOUS
<1>0. log \in Seq(LogRecord) /\ Len(log) \in Nat
  BY DEF TypeInv, TypeOK
<1> USE <1>0 DEF TypeInv, TypeOK, PositionsInLog, ThreadInv, Up
<1>1. CASE Client
  <2> PICK cmd \in Commands, k \in Key, v \in SetValues : Command(cmd, k, v)
    BY <1>1 DEF Client
  <2>1. cmd \in {"SET", "INCR", "DEL"} /\ v \in Int
    BY IndexerAssumption
  <2>2. mem' \in Database
    <3>1. Executes(cmd, k, v) /\ mem \in Database /\ mem[k] \in Int \cup {NoValue, NotANumber}
      BY DEF Command, Database
    <3>2. CASE cmd = "SET"
      BY <2>1, <3>1, <3>2 DEF Executes, Database
    <3>3. CASE cmd = "INCR"
      BY <3>1, <3>3 DEF Executes, Database
    <3>4. CASE cmd = "DEL"
      BY <3>1, <3>4 DEF Executes, Database
    <3> QED BY <2>1, <3>2, <3>3, <3>4
  <2>3. writing' \in LogRecord
    BY <2>1 DEF Command, LogRecord
  <2> QED BY <2>2, <2>3 DEF Command, indexes, seeks, thread
<1>2. CASE Flush
  <2>1. log' \in Seq(LogRecord) /\ Len(log') = Len(log) + 1 /\ \A i \in 1..Len(log) : log'[i] = log[i]
    BY <1>2, AppendProperties DEF Flush
  <2> QED BY <1>2, <2>1 DEF Flush, indexes, seeks, thread
<1>3. CASE Checkpointer
  <2>1. CASE \E inserted \in SUBSET (Key \ Present) : CheckpointBegin(inserted)
    <3> PICK inserted \in SUBSET (Key \ Present) : CheckpointBegin(inserted)
      BY <2>1
    <3>1. Present \cup inserted \in SUBSET Key
      BY DEF Present
    <3> QED BY <3>1, ValueAssumption DEF CheckpointBegin, indexes, seeks, process, thread
  <2>2. CASE \E k \in Key : CheckpointKey(k)
    <3> PICK k \in Key : CheckpointKey(k)
      BY <2>2
    <3>1. mem[k] \in Int \cup {NoValue, NotANumber}
      BY DEF Database
    <3>2. writing' \in LogRecord \cup {NoValue}
      BY <3>1 DEF CheckpointKey, LogRecord
    <3>3. ckpt' \in [from : Int, todo : SUBSET Key, stage : {"keys", "ended", "opened"}] /\ ckpt'.from = ckpt.from
      BY DEF CheckpointKey
    <3> QED BY <3>2, <3>3 DEF CheckpointKey, indexes, seeks, thread
  <2>3. CASE CheckpointEnd
    <3>1. writing' \in LogRecord
      BY <2>3 DEF CheckpointEnd, LogRecord
    <3>2. ckpt' \in [from : Int, todo : SUBSET Key, stage : {"keys", "ended", "opened"}] /\ ckpt'.from = ckpt.from
      BY <2>3, ZenonT(60) DEF CheckpointEnd
    <3>3. UNCHANGED <<log, torn, indexes, seeks, phase, mem, replicated, serverSeek, thread, outages>>
      BY <2>3 DEF CheckpointEnd
    <3>4. ckpt # NoValue
      BY <2>3 DEF CheckpointEnd
    <3> QED BY <3>1, <3>2, <3>3, <3>4 DEF indexes, seeks, thread
  <2>4. CASE CheckpointFopen
    BY <2>4 DEF CheckpointFopen, indexes, process, thread
  <2>5. CASE CheckpointFwrite
    BY <2>5 DEF CheckpointFwrite, indexes, process, thread
  <2> QED BY <1>3, <2>1, <2>2, <2>3, <2>4, <2>5, ZenonT(60) DEF Checkpointer
<1> QED BY <1>1, <1>2, <1>3

\* Every outage, every step of a shutdown and every page written keeps types and
\* positions.
LEMMA OutageTypeInv ==
  TypeInv /\ (Fails \/ waitIndexerFinish \/ ShutdownEnd \/ \E k \in Key : Evict(k)) => TypeInv'
<1> SUFFICES ASSUME TypeInv, Fails \/ waitIndexerFinish \/ ShutdownEnd \/ \E k \in Key : Evict(k)
             PROVE  TypeInv'
  OBVIOUS
<1>0. TypeOK /\ PositionsInLog /\ ThreadInv /\ Len(log) \in Nat
  BY DEF TypeInv, TypeOK
<1> USE <1>0
<1>1. Kept(index) \in IndexType /\ Kept(disk) \in IndexType
  BY IndexRecords DEF Kept, TypeOK
<1>2. ASSUME ProcessEnds
      PROVE  /\ phase' = "down" /\ mem' \in Database /\ writing' = NoValue
             /\ replicated' \in BOOLEAN /\ indexerOn' \in BOOLEAN
             /\ pc' = "off" /\ ckpt' = NoValue
             /\ serverSeek' = 0 /\ start' = 0 /\ done' = 0 /\ seek' = 0
  <2>1. replicated' \in BOOLEAN
    BY <1>2, IndexerAssumption, ZenonT(60) DEF ProcessEnds
  <2> QED BY <1>2, <2>1, ZenonT(60) DEF ProcessEnds, EmptyDatabase, Database
<1>3. ASSUME ProcessDies, outages' \in Nat, torn' \in BOOLEAN
      PROVE  TypeInv'
  <2>1. TypeOK'
    BY <1>1, <1>2, <1>3 DEF ProcessDies, seeks, TypeOK
  <2>2. PositionsInLog'
    BY <1>2, <1>3 DEF ProcessDies, seeks, TypeOK, PositionsInLog
  <2>3. ThreadInv'
    BY <1>2, <1>3 DEF ProcessDies, TypeOK, ThreadInv, Up
  <2> QED BY <2>1, <2>2, <2>3 DEF TypeInv
<1>4. CASE Kill \/ InitialReadError \/ IndexerReadError \/ FlushError
  <2>1. ProcessDies /\ torn' \in BOOLEAN
    BY <1>4, ZenonT(60) DEF Kill, InitialReadError, IndexerReadError, FlushError, TypeOK
  <2>2. outages' \in Nat
    BY <1>4 DEF Kill, InitialReadError, IndexerReadError, FlushError, Outage, TypeOK
  <2> QED BY <1>3, <2>1, <2>2
<1>5. CASE PowerLoss
  <2>1. outages' \in Nat
    BY <1>5 DEF PowerLoss, Outage, TypeOK
  <2>2. torn' \in BOOLEAN
    BY <1>5, ZenonT(60) DEF PowerLoss, TypeOK
  <2>3. ASSUME NEW s \in Int, s <= Len(log), NEW t \in Unsynced(s)
        PROVE  t \in Int /\ t <= Len(log)
    BY <2>3 DEF Unsynced, Missing
  <2>4. /\ finalSeek' \in Int /\ finalSeek' <= Len(log)
        /\ replicaSeek' \in Int /\ replicaSeek' <= Len(log)
        /\ ckptSeek' \in Int /\ ckptSeek' <= Len(log)
    BY <1>5, <2>3 DEF PowerLoss, TypeOK, PositionsInLog
  <2>5. replica' \in IndexType \cup {NoValue}
    BY <1>5 DEF PowerLoss, TypeOK
  <2>6. TypeOK'
    BY <1>1, <1>2, <1>5, <2>1, <2>2, <2>4, <2>5 DEF PowerLoss, TypeOK
  <2>7. PositionsInLog'
    BY <1>2, <1>5, <2>4 DEF PowerLoss, TypeOK, PositionsInLog
  <2>8. ThreadInv'
    BY <1>2, <1>5 DEF PowerLoss, TypeOK, ThreadInv, Up
  <2> QED BY <2>6, <2>7, <2>8 DEF TypeInv
<1>6. CASE Stop
  <2>1. outages' \in Nat
    BY <1>6 DEF Stop, Outage, TypeOK
  <2>2. TypeOK'
    BY <1>6, <2>1, ZenonT(60) DEF Stop, indexes, seeks, TypeOK
  <2>3. PositionsInLog'
    BY <1>6, <2>1 DEF Stop, seeks, TypeOK, PositionsInLog
  <2>4. ThreadInv'
    BY <1>6 DEF Stop, indexes, TypeOK, ThreadInv, Up
  <2> QED BY <2>2, <2>3, <2>4 DEF TypeInv
<1>7. CASE Corrupt
  <2>1. outages' \in Nat
    BY <1>7 DEF Corrupt, Outage, TypeOK
  <2>2. TypeOK'
    BY <1>7, <2>1, ZenonT(60) DEF Corrupt, seeks, TypeOK
  <2>3. PositionsInLog'
    BY <1>7, <2>1 DEF Corrupt, seeks, TypeOK, PositionsInLog
  <2>4. ThreadInv'
    BY <1>7 DEF Corrupt, TypeOK, ThreadInv, Up
  <2> QED BY <2>2, <2>3, <2>4 DEF TypeInv
<1>8. CASE waitIndexerFinish
  <2>1. TypeOK'
    BY <1>8, ZenonT(60) DEF waitIndexerFinish, indexes, seeks, thread, TypeOK
  <2>2. PositionsInLog'
    BY <1>8, ZenonT(60) DEF waitIndexerFinish, seeks, thread, PositionsInLog
  <2>3. ThreadInv'
    BY <1>8 DEF waitIndexerFinish, indexes, thread, ThreadInv, Up
  <2> QED BY <2>1, <2>2, <2>3 DEF TypeInv
<1>9. CASE ShutdownEnd
  <2>1. ProcessDies /\ torn' \in BOOLEAN /\ outages' \in Nat
    BY <1>9, ZenonT(60) DEF ShutdownEnd, TypeOK
  <2> QED BY <1>3, <2>1
<1>10. CASE \E k \in Key : Evict(k)
  <2> PICK k \in Key : Evict(k)
    BY <1>10
  <2>1. disk' \in IndexType /\ replicaDisk' \in IndexType
    BY ZenonT(60) DEF Evict, IndexType, TypeOK
  <2>2. UNCHANGED <<log, torn, index, indexFile, replica, seeks, process, thread, ckpt, outages>>
    BY DEF Evict
  <2>3. TypeOK'
    BY <2>1, <2>2 DEF seeks, process, thread, TypeOK
  <2>4. PositionsInLog'
    BY <2>2 DEF seeks, process, thread, TypeOK, PositionsInLog
  <2>5. ThreadInv'
    BY <2>2, ZenonT(60) DEF process, thread, ThreadInv, Up
  <2> QED BY <2>3, <2>4, <2>5 DEF TypeInv
<1>11. CASE IndexerOpenError
  <2>1. outages' \in Nat
    BY <1>11 DEF IndexerOpenError, Outage, TypeOK
  <2>2. TypeOK'
    BY <1>11, <2>1, ZenonT(60) DEF IndexerOpenError, indexes, seeks, process, TypeOK
  <2>3. PositionsInLog'
    BY <1>11, <2>1 DEF IndexerOpenError, seeks, process, TypeOK, PositionsInLog
  <2>4. ThreadInv'
    BY <1>11 DEF IndexerOpenError, InIndexer, indexes, process, TypeOK, ThreadInv, Up
  <2> QED BY <2>2, <2>3, <2>4 DEF TypeInv
<1> QED BY <1>4, <1>5, <1>6, <1>7, <1>8, <1>9, <1>10, <1>11, ZenonT(60) DEF Fails

\* Every step keeps the invariant.
LEMMA NextTypeInv ==
  ASSUME TypeInv, [Next]_vars
  PROVE  TypeInv'
<1>1. CASE UNCHANGED vars
  BY <1>1 DEF vars, indexes, seeks, process, thread, TypeInv, TypeOK, PositionsInLog, ThreadInv, Up
<1>2. CASE Next
  BY <1>2, IndexerTypeInv, InitialTypeInv, ServingTypeInv, OutageTypeInv DEF Next
<1> QED BY <1>1, <1>2

\* Every reachable state of every configuration has the invariant.
LEMMA TypeInvariance == Spec => []TypeInv
<1>1. Init => TypeInv
  BY InitTypeInv
<1>2. TypeInv /\ [Next]_vars => TypeInv'
  BY NextTypeInv
<1> QED BY <1>1, <1>2, PTL DEF Spec

\* For every choice of commands, outages, replication and checkpointing, the
\* variables keep their types: in particular, the thread that indexes never adds a
\* record whose list entry has no value (writeToIndexedLog).
THEOREM TypeCorrect == Spec => []TypeOK
<1>1. TypeInv => TypeOK
  BY DEF TypeInv
<1> QED BY <1>1, TypeInvariance, PTL

\* For every choice of commands, outages, replication and checkpointing, no
\* position passes the end of the sequential log: readFinalLogSeek and the fseek
\* after it never skip a record that is appended later.
THEOREM PositionsCorrect == Spec => []PositionsInLog
<1>1. TypeInv => PositionsInLog
  BY DEF TypeInv
<1> QED BY <1>1, TypeInvariance, PTL

===============================================================================
