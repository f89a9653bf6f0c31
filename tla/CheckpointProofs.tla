--------------------------- MODULE CheckpointProofs ---------------------------
(***************************************************************************)
(* Two more invariants of Indexer.  What the indexed log holds comes from  *)
(* the sequential log, whatever outages, replicas and checkpoints do; and  *)
(* checkpoints do not change what the indexed log means.                   *)
(***************************************************************************)
EXTENDS IndexerProofs

\* The time that a leaf may take.
USE SMTT(60), ZenonT(60)

-------------------------------------------------------------------------------
(* Values come from the sequential log. *)

\* Every record of the indexed log x has a value that the log l has for its key.
FromLog(l, x) ==
  \A k \in Key : \A i \in DOMAIN x[k] :
    \E j \in DOMAIN l : l[j].key = k /\ l[j].val = x[k][i].val

\* The copies of the indexed log all come from the sequential log, which has no
\* INCR; the Indexer has parsed what it indexes.
ValuesInv ==
  /\ FromLog(log, index)
  /\ FromLog(log, disk)
  /\ FromLog(log, replicaDisk)
  /\ replica # NoValue \/ (phase = "initial" /\ replicated) => FromLog(log, replica)
  /\ \A j \in DOMAIN log : log[j].cmd # "INCR"
  /\ writing # NoValue => writing.cmd # "INCR"
  /\ Up /\ pc \notin {"off", "created"} => start <= done

\* A longer log has the values of the shorter one.
LEMMA FromLogGrows ==
  ASSUME NEW l \in Seq(LogRecord), NEW r \in LogRecord, NEW x, FromLog(l, x)
  PROVE  FromLog(Append(l, r), x)
<1>1. \A j \in DOMAIN l : j \in DOMAIN Append(l, r) /\ Append(l, r)[j] = l[j]
  OBVIOUS
<1> QED BY <1>1 DEF FromLog

\* Adding a record with a value of the log for its key, and deleting the records of
\* a key, keep an indexed log one of values of the log.
LEMMA FromLogUpdates ==
  ASSUME NEW l, NEW x \in IndexType, NEW key \in Key, NEW r \in IndexRecord, FromLog(l, x)
  PROVE  /\ (\E j \in DOMAIN l : l[j].key = key /\ l[j].val = r.val) => FromLog(l, addRecordIndexedLog(x, key, r))
         /\ FromLog(l, delRecordIndexdLog(x, key))
<1>1. x[key] \in Seq(IndexRecord)
  BY DEF IndexType
<1>2. ASSUME \E j \in DOMAIN l : l[j].key = key /\ l[j].val = r.val
      PROVE  FromLog(l, addRecordIndexedLog(x, key, r))
  <2> DEFINE y == addRecordIndexedLog(x, key, r)
  <2>1. y[key] = Append(x[key], r) /\ \A k \in Key \ {key} : y[k] = x[k]
    BY DEF IndexType, addRecordIndexedLog
  <2>2. \A i \in DOMAIN y[key] : y[key][i] = r \/ (i \in DOMAIN x[key] /\ y[key][i] = x[key][i])
    BY <1>1, <2>1
  <2> HIDE DEF y
  <2> SUFFICES ASSUME NEW k \in Key, NEW i \in DOMAIN y[k]
               PROVE  \E j \in DOMAIN l : l[j].key = k /\ l[j].val = y[k][i].val
    BY DEF y, FromLog
  <2>3. CASE k = key
    BY <1>2, <2>2, <2>3 DEF FromLog
  <2>4. CASE k # key
    BY <2>1, <2>4 DEF FromLog
  <2> QED BY <2>3, <2>4
<1>3. FromLog(l, delRecordIndexdLog(x, key))
  <2> DEFINE y == delRecordIndexdLog(x, key)
  <2>1. y[key] = <<>> /\ \A k \in Key \ {key} : y[k] = x[k]
    BY DEF IndexType, delRecordIndexdLog
  <2>2. DOMAIN y[key] = {}
    BY <2>1
  <2> HIDE DEF y
  <2>3. FromLog(l, y)
    BY <2>1, <2>2 DEF FromLog
  <2> QED BY <2>3 DEF y
<1> QED BY <1>2, <1>3

\* An empty indexed log has no values.
LEMMA FromLogEmpty ==
  ASSUME NEW l
  PROVE  FromLog(l, EmptyIndex)
<1>1. \A k \in Key : DOMAIN EmptyIndex[k] = {}
  BY DEF EmptyIndex
<1> QED BY <1>1 DEF FromLog

\* The first start has the invariant.
LEMMA InitValuesInv == Init => ValuesInv
BY FromLogEmpty DEF Init, ValuesInv, Up

\* Every step of the Indexer thread keeps it.
LEMMA IndexerValuesInv ==
  ASSUME TypeInv, ValuesInv, IndexerStart \/ Indexes
  PROVE  ValuesInv'
<1>0. /\ log \in Seq(LogRecord) /\ Len(log) \in Nat /\ index \in IndexType /\ done \in Nat
      /\ start \in Int /\ seek \in Int /\ finalSeek \in Int /\ seek <= Len(log)
  BY DEF TypeInv, TypeOK, PositionsInLog
<1>1. CASE IndexerWriteRecord \/ IndexerAdd
  <2> DEFINE r == log[done + 1]
  <2>1. /\ done + 1 \in DOMAIN log /\ r \in LogRecord /\ start \in Nat /\ start < done + 1
        /\ done + 1 \in Nat /\ done + 1 <= Len(log)
    <3>1. done < Len(log)
      BY <1>0, <1>1 DEF IndexerWriteRecord, IndexerAdd, InIndexer, TypeInv, ThreadInv
    <3>2. start >= 0 /\ start <= done
      BY <1>1 DEF IndexerWriteRecord, IndexerAdd, InIndexer, TypeInv, ThreadInv, ValuesInv
    <3>3. r \in LogRecord
      BY <1>0, <3>1, ElementOfSeq
    <3> QED BY <1>0, <3>1, <3>2, <3>3
  <2>2. FromLog(log, index')
    <3>1. CASE r.cmd \in {"SET", "SETCHECKPOINT"}
      <4>1. r.key \in Key /\ r.val \in Int \cup {NotANumber} /\ r.val # NoValue
        BY <2>1, <3>1, RecordFields, ValueAssumption
      <4>2. ParsedValue(done + 1) = r.val
        BY <2>1, <4>1, ParsedValueHere DEF TypeInv
      <4>3. SetRecord(r.val) \in IndexRecord /\ SetRecord(r.val).val = r.val
        BY <4>1, IndexRecords, ZenonT(60) DEF SetRecord
      <4>4. index' \in {addRecordIndexedLog(index, r.key, SetRecord(r.val)), delRecordIndexdLog(index, r.key)}
        BY <1>1, <3>1, <4>2 DEF IndexerWriteRecord, IndexerAdd
      <4>5. \E j \in DOMAIN log : log[j].key = r.key /\ log[j].val = SetRecord(r.val).val
        BY <2>1, <4>3
      <4>6. FromLog(log, index)
        BY DEF ValuesInv
      <4> HIDE DEF r
      <4> QED BY <1>0, <4>1, <4>3, <4>4, <4>5, <4>6, FromLogUpdates
    <3>2. CASE r.cmd = "DEL"
      <4>1. r.key \in Key
        BY <2>1, <3>2, RecordFields
      <4>2. index' = delRecordIndexdLog(index, r.key)
        BY <1>1, <3>2 DEF IndexerWriteRecord, IndexerAdd, InIndexer, TypeInv, ThreadInv
      <4>3. FromLog(log, index) /\ IncrRecord \in IndexRecord
        BY IndexRecords DEF ValuesInv
      <4> QED BY <1>0, <4>1, <4>2, <4>3, FromLogUpdates
    <3>3. CASE r.cmd = "CHECKPOINTEND"
      BY <1>1, <3>3 DEF IndexerWriteRecord, IndexerAdd, InIndexer, TypeInv, ThreadInv, ValuesInv
    <3>4. r.cmd # "INCR"
      BY <2>1 DEF ValuesInv
    <3> QED BY <2>1, <3>1, <3>2, <3>3, <3>4, RecordFields
  <2>3. done' >= done /\ start' = start
    BY <1>0, <1>1 DEF IndexerWriteRecord, IndexerAdd
  <2> QED BY <1>0, <1>1, <2>1, <2>2, <2>3 DEF IndexerWriteRecord, IndexerAdd, InIndexer, notIndexer, ValuesInv, Up
<1>2. CASE IndexerStart
  <2>1. FromLog(log, index') /\ FromLog(log, disk')
    BY <1>2, FromLogEmpty DEF IndexerStart, Kept, ValuesInv
  <2> QED BY <1>0, <1>2, <2>1 DEF IndexerStart, process, ValuesInv, Up
<1>3. CASE IndexerPoll \/ IndexerParseRecord \/ IndexerParseTorn \/ IndexerParseEnd \/ IndexerFopen \/ IndexerFwrite
  BY <1>3 DEF IndexerPoll, IndexerParseRecord, IndexerParseTorn, IndexerParseEnd, IndexerFopen, IndexerFwrite,
              InIndexer, notIndexer, ValuesInv, Up
<1>4. CASE IndexerFormatError
  BY <1>4 DEF IndexerFormatError, InIndexer, indexes, ValuesInv, Up
<1>5. CASE IndexerSync \/ IndexerClose
  BY <1>5 DEF IndexerSync, IndexerClose, InIndexer, notIndexer, ValuesInv, Up
<1> QED BY <1>1, <1>2, <1>3, <1>4, <1>5 DEF Indexes

\* Every step of the initial indexing keeps it, in the indexed log and the replica.
LEMMA InitialValuesInv ==
  ASSUME TypeInv, ValuesInv, Initial
  PROVE  ValuesInv'
<1>0. /\ log \in Seq(LogRecord) /\ Len(log) \in Nat /\ index \in IndexType /\ done \in Nat
      /\ phase = "initial" /\ replicated => replica \in IndexType
  BY DEF TypeInv, TypeOK, ThreadInv
<1>1. CASE InitialStart
  <2>1. FromLog(log, EmptyIndex)
    BY FromLogEmpty
  <2>2. UsesReplica => FromLog(log, replica)
    BY DEF UsesReplica, ValuesInv
  <2>3. FromLog(log, index') /\ FromLog(log, disk') /\ FromLog(log, replicaDisk')
    BY <1>1, <2>1, <2>2 DEF InitialStart, ValuesInv
  <2>4. replica' # NoValue \/ replicated' => FromLog(log, replica')
    BY <1>1, <2>1, ZenonT(60) DEF InitialStart, ValuesInv
  <2> QED BY <1>1, <2>3, <2>4 DEF InitialStart, ValuesInv, Up
<1>2. CASE InitialRecord \/ InitialAdd \/ InitialReplicaDel \/ InitialReplicaAdd
  <2> DEFINE r == log[done + 1]
  <2>1. done + 1 \in DOMAIN log /\ r \in LogRecord /\ r.cmd # "INCR" /\ phase = "initial"
    <3>1. done < Len(log) /\ phase = "initial"
      BY <1>2 DEF InitialRecord, InitialAdd, InitialReplicaDel, InitialReplicaAdd, InInitial, TypeInv, ThreadInv
    <3> QED BY <1>0, <3>1, ElementOfSeq DEF ValuesInv
  <2>2. FromLog(log, index) /\ (replicated => FromLog(log, replica) /\ replica \in IndexType)
    BY <1>0, <2>1 DEF ValuesInv
  <2>3. IncrRecord \in IndexRecord
    BY IndexRecords
  <2>4. r.key \in Key => \A x \in IndexType : FromLog(log, x) => FromLog(log, delRecordIndexdLog(x, r.key))
    <3> HIDE DEF r
    <3> QED BY <2>3, FromLogUpdates
  <2>5. r.cmd \in {"SET", "SETCHECKPOINT"} =>
          \A x \in IndexType : FromLog(log, x) => FromLog(log, addRecordIndexedLog(x, r.key, SetRecord(r.val)))
    <3> SUFFICES ASSUME r.cmd \in {"SET", "SETCHECKPOINT"}, NEW x \in IndexType, FromLog(log, x)
                 PROVE  FromLog(log, addRecordIndexedLog(x, r.key, SetRecord(r.val)))
      OBVIOUS
    <3>1. r.key \in Key /\ r.val \in Int \cup {NotANumber}
      BY <2>1, RecordFields
    <3>2. SetRecord(r.val) \in IndexRecord /\ SetRecord(r.val).val = r.val
      BY <3>1, IndexRecords, ZenonT(60) DEF SetRecord
    <3>3. \E j \in DOMAIN log : log[j].key = r.key /\ log[j].val = SetRecord(r.val).val
      BY <2>1, <3>2
    <3> HIDE DEF r
    <3> QED BY <3>1, <3>2, <3>3, FromLogUpdates
  <2>6. r.cmd # "CHECKPOINTEND" => r.key \in Key
    BY <2>1, RecordFields
  <2>7. CASE InitialAdd
    <3>1. FromLog(log, index')
      BY <1>0, <2>2, <2>5, <2>7 DEF InitialAdd, InInitial, TypeInv, ThreadInv
    <3> QED BY <2>7, <3>1 DEF InitialAdd, InInitial, process, ValuesInv, Up
  <2>8. CASE InitialRecord
    <3>1. FromLog(log, index')
      BY <1>0, <2>1, <2>2, <2>4, <2>6, <2>8 DEF InitialRecord
    <3> QED BY <2>8, <3>1 DEF InitialRecord, InInitial, process, ValuesInv, Up
  <2>9. CASE InitialReplicaDel
    <3>1. r.key \in Key /\ replicated
      BY <2>6, <2>9 DEF InitialReplicaDel, InInitial, TypeInv, ThreadInv
    <3>2. FromLog(log, replica')
      BY <2>2, <2>4, <2>9, <3>1 DEF InitialReplicaDel
    <3> QED BY <2>9, <3>2 DEF InitialReplicaDel, InInitial, process, ValuesInv, Up
  <2>10. CASE InitialReplicaAdd
    <3>1. r.cmd = "SET" /\ replicated
      BY <2>1, <2>10 DEF InitialReplicaAdd, InInitial, TypeInv, ThreadInv
    <3>2. FromLog(log, replica')
      BY <2>2, <2>5, <2>10, <3>1 DEF InitialReplicaAdd
    <3> QED BY <2>10, <3>2 DEF InitialReplicaAdd, InInitial, process, ValuesInv, Up
  <2> QED BY <1>2, <2>7, <2>8, <2>9, <2>10
<1>3. CASE InitialError
  BY <1>3 DEF InitialError, InInitial, indexes, ValuesInv, Up
<1>4. CASE InitialEnd \/ InitialFopen
  BY <1>4 DEF InitialEnd, InitialFopen, InInitial, indexes, process, ValuesInv, Up
<1>5. CASE InitialFwrite
  BY <1>5 DEF InitialFwrite, InInitial, indexes, ValuesInv, Up
<1>6. CASE InitialClose
  BY <1>6 DEF InitialClose, InInitial, process, ValuesInv, Up
<1>7. CASE InitialReplicaFopen \/ InitialReplicaFwrite
  BY <1>7 DEF InitialReplicaFopen, InitialReplicaFwrite, InInitial, indexes, process, ValuesInv, Up
<1>8. CASE InitialReplicaClose
  <2>1. FromLog(log, replica)
    BY <1>8 DEF InitialReplicaClose, InInitial, TypeInv, ThreadInv, ValuesInv
  <2> QED BY <1>8, <2>1 DEF InitialReplicaClose, InInitial, process, ValuesInv, Up
<1>9. CASE Serve
  BY <1>9 DEF Serve, InInitial, indexes, ValuesInv, Up
<1> QED BY <1>1, <1>2, <1>3, <1>4, <1>5, <1>6, <1>7, <1>8, <1>9, ZenonT(60) DEF Initial

\* Commands without INCR, the flush and the Checkpointer keep it.
LEMMA ServingValuesInv ==
  ASSUME "INCR" \notin Commands, TypeInv, ValuesInv, Client \/ Flush \/ Checkpointer
  PROVE  ValuesInv'
<1>1. CASE Client
  <2> PICK cmd \in Commands, k \in Key, v \in SetValues : Command(cmd, k, v)
    BY <1>1 DEF Client
  <2>1. writing'.cmd # "INCR"
    BY DEF Command
  <2> QED BY <2>1 DEF Command, indexes, thread, ValuesInv, Up
<1>2. CASE Flush
  <2>1. log \in Seq(LogRecord) /\ writing \in LogRecord /\ log' = Append(log, writing)
    BY <1>2 DEF Flush, TypeInv, TypeOK
  <2>2. \A x : FromLog(log, x) => FromLog(log', x)
    BY <2>1, FromLogGrows
  <2>3. \A j \in DOMAIN log' : log'[j].cmd # "INCR"
    BY <1>2, <2>1 DEF Flush, ValuesInv
  <2> QED BY <1>2, <2>2, <2>3 DEF Flush, indexes, thread, ValuesInv, Up
<1>3. CASE Checkpointer
  <2>1. writing' = writing \/ writing'.cmd \in {"SETCHECKPOINT", "CHECKPOINTEND"}
    BY <1>3 DEF Checkpointer, CheckpointBegin, CheckpointKey, CheckpointEnd, CheckpointFopen, CheckpointFwrite, process
  <2>2. UNCHANGED <<log, index, disk, replica, replicaDisk, phase, replicated, pc, start, done>>
    BY <1>3 DEF Checkpointer, CheckpointBegin, CheckpointKey, CheckpointEnd, CheckpointFopen, CheckpointFwrite, indexes, process, thread
  <2> QED BY <2>1, <2>2 DEF ValuesInv, Up
<1> QED BY <1>1, <1>2, <1>3

\* Every outage, every step of a shutdown and a page written early keep it.
LEMMA OutageValuesInv ==
  ASSUME TypeInv, ValuesInv, Fails \/ waitIndexerFinish \/ ShutdownEnd \/ \E k \in Key : Evict(k)
  PROVE  ValuesInv'
<1>1. \A x : FromLog(log, x) => FromLog(log, Kept(x))
  BY FromLogEmpty DEF Kept
<1>2. CASE ProcessDies
  <2>1. /\ FromLog(log, index') /\ FromLog(log, disk') /\ log' = log
        /\ replica' = replica /\ replicaDisk' = replicaDisk /\ writing' = NoValue /\ phase' = "down"
    BY <1>1, <1>2 DEF ProcessDies, ProcessEnds, ValuesInv
  <2> QED BY <2>1 DEF ValuesInv, Up
<1>3. CASE PowerLoss
  <2>1. /\ FromLog(log, index') /\ FromLog(log, disk') /\ log' = log
        /\ replicaDisk' = replicaDisk /\ writing' = NoValue /\ phase' = "down"
    BY <1>1, <1>3 DEF PowerLoss, ProcessEnds, ValuesInv
  <2>2. replica' # NoValue => FromLog(log, replica')
    BY <1>3 DEF PowerLoss, ValuesInv
  <2> QED BY <2>1, <2>2 DEF ValuesInv, Up
<1>4. CASE Stop \/ Corrupt \/ waitIndexerFinish
  <2>1. /\ UNCHANGED <<log, index, disk, replica, replicaDisk, writing, replicated, pc, start, done>>
        /\ Up /\ phase' \in {"corrupted", "stopping", "ending"}
    BY <1>4 DEF Stop, Corrupt, waitIndexerFinish, indexes, thread, Up
  <2> QED BY <2>1 DEF ValuesInv, Up
<1>4a. CASE IndexerOpenError
  BY <1>4a DEF IndexerOpenError, InIndexer, indexes, process, ValuesInv, Up
<1>5. CASE \E k \in Key : Evict(k)
  <2> PICK key \in Key : Evict(key)
    BY <1>5
  <2>1. \A k \in Key : disk'[k] \in {disk[k], index[k]}
    BY DEF Evict, TypeInv, TypeOK, IndexType
  <2>2. FromLog(log, disk')
    BY <2>1 DEF FromLog, ValuesInv
  <2>3. replicaDisk' = replicaDisk \/ (replica # NoValue /\ \A k \in Key : replicaDisk'[k] \in {replicaDisk[k], replica[k]})
    BY DEF Evict, TypeInv, TypeOK, IndexType
  <2>4. FromLog(log, replicaDisk')
    BY <2>3 DEF FromLog, ValuesInv
  <2> QED BY <2>2, <2>4 DEF Evict, process, thread, ValuesInv, Up
<1>6. Kill \/ FlushError \/ InitialReadError \/ IndexerReadError \/ ShutdownEnd => ProcessDies
  BY DEF Kill, FlushError, InitialReadError, IndexerReadError, ShutdownEnd
<1> QED BY <1>2, <1>3, <1>4, <1>4a, <1>5, <1>6, ZenonT(60) DEF Fails

\* Without INCR, and whatever outages happen, with a replica and checkpoints or
\* without, every record of the indexed log carries a value that the sequential log
\* has for that key: a recovery may lose a value, but it never makes one up, and it
\* never gives a key the value of another (writeToIndexedLog's variable "value",
\* the replica that replaces a lost indexed log, the rebuild from a checkpoint).
THEOREM ValuesFromLog == "INCR" \notin Commands => (Spec => []NoFabricatedValues)
<1> SUFFICES ASSUME "INCR" \notin Commands PROVE Spec => []NoFabricatedValues
  OBVIOUS
<1>1. Init => TypeInv /\ ValuesInv
  BY InitTypeInv, InitValuesInv
<1>2. TypeInv /\ ValuesInv /\ [Next]_vars => TypeInv' /\ ValuesInv'
  <2> SUFFICES ASSUME TypeInv, ValuesInv, [Next]_vars PROVE ValuesInv'
    BY NextTypeInv
  <2>1. CASE UNCHANGED vars
    BY <2>1 DEF vars, indexes, process, thread, ValuesInv, Up
  <2>2. CASE Next
    BY <2>2, IndexerValuesInv, InitialValuesInv, ServingValuesInv, OutageValuesInv DEF Next
  <2> QED BY <2>1, <2>2
<1>3. ValuesInv => NoFabricatedValues
  BY DEF ValuesInv, FromLog, NoFabricatedValues
<1> QED BY <1>1, <1>2, <1>3, PTL DEF Spec

-------------------------------------------------------------------------------
(* Checkpoints. *)

\* The configurations with checkpoints in which the claim is made.
Undisturbed == Commands \subseteq {"SET", "DEL"} /\ Outages = {}

\* A checkpoint record repeats the value that its key has before it.
Repeats(r, l, n) == r.cmd = "SETCHECKPOINT" => r.val = LogValue(l, n, r.key)

LogInv ==
  /\ \A i \in DOMAIN log : log[i].cmd # "INCR" /\ Repeats(log[i], log, i - 1)
  /\ writing # NoValue => writing.cmd # "INCR" /\ Repeats(writing, log, Len(log))

\* Before the server serves for the first time there is nothing to index.
FirstStartInv ==
  /\ phase \in {"down", "initial", "serving"}
  /\ phase # "serving" => log = <<>> /\ ~torn /\ writing = NoValue /\ index = EmptyIndex
  /\ phase = "down" => replica = NoValue
  /\ phase # "down" => indexFile
  /\ phase = "initial" =>
       /\ pc \in {"fopen", "fwrite", "close", "serve"}
       /\ start = 0
       /\ done = 0
       /\ pc \in {"close", "serve"} => finalSeek = 0

\* Where the Indexer is while the server serves.
IndexerInv ==
  phase = "serving" =>
    /\ pc \in {"created", "poll", "parse", "write", "add", "fopen", "fwrite"}
    /\ pc = "created" => finalSeek = done
    /\ pc # "created" => indexerOn /\ 0 <= start /\ start <= done /\ done <= seek
    /\ pc \in {"fopen", "fwrite"} => done = seek
    /\ pc = "add" => log[done + 1].cmd = "SETCHECKPOINT" /\ done < seek

CheckpointInv == LogInv /\ FirstStartInv /\ IndexerInv /\ RecoveredIsLogged /\ IndexFollowsLog

\* What the proofs below use of the invariant.
LEMMA CheckpointFacts ==
  ASSUME TypeInv, CheckpointInv
  PROVE  /\ log \in Seq(LogRecord) /\ Len(log) \in Nat /\ done \in Nat /\ start \in Int /\ seek \in Int
         /\ finalSeek \in Int /\ index \in IndexType /\ done <= Len(log) /\ seek <= Len(log)
         /\ \A i \in 1..Len(log) : log[i].cmd # "INCR" /\ log[i] \in LogRecord
         /\ Up <=> phase = "serving"
<1>1. /\ log \in Seq(LogRecord) /\ Len(log) \in Nat /\ done \in Nat /\ start \in Int /\ seek \in Int
      /\ finalSeek \in Int /\ index \in IndexType /\ done <= Len(log) /\ seek <= Len(log)
  BY DEF TypeInv, TypeOK, PositionsInLog
<1>2. \A i \in 1..Len(log) : log[i].cmd # "INCR" /\ log[i] \in LogRecord
  BY <1>1, ElementOfSeq DEF CheckpointInv, LogInv
<1>3. Up <=> phase = "serving"
  BY DEF CheckpointInv, FirstStartInv, Up
<1> QED BY <1>1, <1>2, <1>3

\* A record of a checkpoint, and a record of another key, leave the value of a key.
LEMMA ValueKept ==
  ASSUME NEW l \in Seq(LogRecord),
         NEW n \in Nat, n < Len(l), NEW k,
         l[n + 1].key # k \/ l[n + 1].cmd \in {"SETCHECKPOINT", "CHECKPOINTEND"}
  PROVE  LogValue(l, n + 1, k) = LogValue(l, n, k)
<1>1. n \in 0..Len(l) /\ n + 1 \in n..Len(l)
  OBVIOUS
<1>2. \A i \in n + 1 .. n + 1 : ~(l[i].key = k /\ l[i].cmd \in {"SET", "INCR", "DEL"})
  OBVIOUS
<1> QED BY <1>1, <1>2, LogValueSkip

\* The first start has the invariant.
LEMMA InitCheckpointInv == Init => CheckpointInv
<1> SUFFICES ASSUME Init PROVE CheckpointInv
  OBVIOUS
<1>1. LogInv
  BY DEF Init, LogInv
<1>2. FirstStartInv
  <2>1. ~torn
    BY ZenonT(60) DEF Init
  <2> QED BY <2>1 DEF Init, FirstStartInv
<1> QED BY <1>1, <1>2 DEF Init, CheckpointInv, IndexerInv, RecoveredIsLogged, IndexFollowsLog, Up

\* The first start reads an empty log, and serves an empty database.
LEMMA InitialCheckpointInv ==
  ASSUME TypeInv, CheckpointInv, Initial
  PROVE  CheckpointInv'
<1> USE CheckpointFacts DEF CheckpointInv
<1>1. CASE InitialStart
  <2>1. EmptyLog /\ ~UsesReplica /\ InitialSeek = 0
    BY <1>1 DEF InitialStart, FirstStartInv, EmptyLog, UsesReplica, InitialSeek
  <2>2. index' = EmptyIndex /\ start' = 0 /\ done' = 0 /\ pc' = "fopen" /\ phase' = "initial"
    BY <1>1, <2>1 DEF InitialStart, FirstStartInv
  <2>3. UNCHANGED <<log, torn, writing>> /\ phase = "down" /\ indexFile'
    BY <1>1 DEF InitialStart
  <2> QED BY <2>2, <2>3 DEF LogInv, FirstStartInv, IndexerInv, RecoveredIsLogged, IndexFollowsLog, Up
<1>2. phase = "initial" => pc \notin {"write", "add", "replicaDel", "replicaAdd", "replicaFopen", "replicaFwrite", "replicaClose"}
  BY DEF FirstStartInv
<1>3. CASE InitialFopen \/ InitialFwrite
  <2>1. /\ UNCHANGED <<log, torn, writing, index, indexFile, start, done, phase>>
        /\ phase = "initial"
        /\ pc' \in {"fwrite", "close"}
    BY <1>3, ZenonT(60) DEF InitialFopen, InitialFwrite, InInitial, indexes, process
  <2>2. pc' = "close" => finalSeek' = 0
    <3>1. start = 0 /\ done = 0
      BY <2>1 DEF FirstStartInv
    <3>2. InitialFinalSeek = 0
      BY <3>1 DEF InitialFinalSeek, Missing
    <3> QED BY <1>3, <3>2 DEF InitialFopen, InitialFwrite
  <2> QED BY <2>1, <2>2 DEF LogInv, FirstStartInv, IndexerInv, RecoveredIsLogged, IndexFollowsLog, Up
<1>4. CASE InitialClose
  <2>1. /\ UNCHANGED <<log, torn, writing, index, indexFile, start, done, phase, finalSeek>>
        /\ phase = "initial" /\ pc = "close" /\ log = <<>>
    BY <1>4 DEF InitialClose, InInitial, seeks, process, FirstStartInv
  <2>2. pc' = "serve"
    BY <1>4, <2>1 DEF InitialClose
  <2> QED BY <2>1, <2>2 DEF LogInv, FirstStartInv, IndexerInv, RecoveredIsLogged, IndexFollowsLog, Up
<1>5. CASE Serve
  <2>1. /\ log = <<>> /\ writing = NoValue /\ index = EmptyIndex /\ done = 0 /\ finalSeek = 0
        /\ UNCHANGED <<log, torn, writing, index, indexFile, start, done, finalSeek, indexerOn>>
        /\ indexFile /\ phase' = "serving" /\ pc' = "created" /\ mem' = Restored
    BY <1>5 DEF Serve, InInitial, indexes, seeks, FirstStartInv
  <2>2. \A k \in Key : index[k] = <<>>
    BY <2>1 DEF EmptyIndex
  <2>3. \A k \in Key : TupleValue(index'[k]) = NoValue /\ mem'[k] = NoValue
    BY <2>1, <2>2, TupleValueEmpty DEF Restored
  <2>4. \A k \in Key : LogValue(<<>>, 0, k) = NoValue
    BY LogValueEmpty
  <2>5. Logged' = <<>> /\ log' = <<>> /\ Len(<<>>) = 0 /\ done' = 0
    BY <2>1 DEF Logged
  <2>6. RecoveredIsLogged' /\ IndexFollowsLog'
    BY <2>3, <2>4, <2>5 DEF RecoveredIsLogged, IndexFollowsLog
  <2> QED BY <2>1, <2>6 DEF LogInv, FirstStartInv, IndexerInv
<1> QED BY <1>1, <1>2, <1>3, <1>4, <1>5, ZenonT(60)
        DEF Initial, InitialRecord, InitialAdd, InitialReplicaDel, InitialReplicaAdd, InitialError, InitialEnd,
            InitialReplicaFopen, InitialReplicaFwrite, InitialReplicaClose, InInitial

\* The Indexer writes what the log says of each key, checkpoint records included.
LEMMA WriteCheckpointInv ==
  ASSUME TypeInv, CheckpointInv, IndexerWriteRecord \/ IndexerAdd
  PROVE  IndexFollowsLog'
<1> DEFINE r == log[done + 1]
           n == done + 1
<1>0. /\ phase = "serving" /\ Up /\ UNCHANGED <<log, phase, start>> /\ pc \in {"write", "add"}
      /\ indexerOn /\ 0 <= start /\ start <= done
  <2>1. Up /\ pc \in {"write", "add"} /\ UNCHANGED <<log, phase, start>>
    BY DEF IndexerWriteRecord, IndexerAdd, InIndexer, notIndexer
  <2> QED BY <2>1, CheckpointFacts DEF CheckpointInv, IndexerInv
<1>1. done < Len(log)
  <2>1. done \in Nat /\ seek \in Int /\ seek <= Len(log) /\ Len(log) \in Nat
    BY CheckpointFacts
  <2> QED BY <2>1 DEF IndexerWriteRecord, IndexerAdd, InIndexer, TypeInv, ThreadInv
<1>2. n \in 1..Len(log) /\ r \in LogRecord /\ r.cmd # "INCR" /\ start \in Nat /\ start < n /\ n \in Nat /\ n <= Len(log)
  BY <1>0, <1>1, CheckpointFacts
<1>3. r.cmd \in {"SET", "SETCHECKPOINT"} =>
        /\ r.key \in Key /\ r.val \in Int \cup {NotANumber} /\ ParsedValue(n) = r.val
  <2> SUFFICES ASSUME r.cmd \in {"SET", "SETCHECKPOINT"}
               PROVE  r.key \in Key /\ r.val \in Int \cup {NotANumber} /\ ParsedValue(n) = r.val
    OBVIOUS
  <2>1. r.key \in Key /\ r.val \in Int \cup {NotANumber} /\ r.val # NoValue
    BY <1>2, RecordFields, ValueAssumption
  <2> HIDE DEF n
  <2>2. r = log[n]
    BY DEF n
  <2> HIDE DEF r
  <2> QED BY <1>2, <2>1, <2>2, ParsedValueHere DEF TypeInv
<1>4. \A k : r.key # k \/ r.cmd \in {"SETCHECKPOINT", "CHECKPOINTEND"} => LogValue(log, n, k) = LogValue(log, done, k)
  BY <1>1, CheckpointFacts, ValueKept
<1>5. \A k \in Key : Replacing(k) \/ TupleValue(index[k]) = LogValue(log, done, k)
  BY <1>0 DEF CheckpointInv, IndexFollowsLog
<1>6. \A k \in Key : index[k] \in Seq(IndexRecord)
  BY CheckpointFacts DEF IndexType
<1>7. /\ r.cmd = "SET" => LogValue(log, n, r.key) = r.val
      /\ r.cmd = "DEL" => LogValue(log, n, r.key) = NoValue
  BY <1>1, CheckpointFacts, LogValueHere
<1>8. r.cmd = "SETCHECKPOINT" => LogValue(log, done, r.key) = r.val
  <2>1. n \in DOMAIN log /\ n - 1 = done
    BY <1>2, CheckpointFacts
  <2>2. Repeats(log[n], log, n - 1)
    BY <2>1 DEF CheckpointInv, LogInv
  <2> QED BY <2>1, <2>2 DEF Repeats
<1> SUFFICES ASSUME NEW k \in Key PROVE Replacing(k)' \/ TupleValue(index'[k]) = LogValue(log, done', k)
  BY <1>0 DEF IndexFollowsLog
<1>9. CASE IndexerWriteRecord /\ r.cmd = "SET"
  <2>1. index' = addRecordIndexedLog(index, r.key, SetRecord(r.val)) /\ done' = n /\ pc = "write"
    BY <1>3, <1>9 DEF IndexerWriteRecord, InIndexer
  <2>2. ~Replacing(k)
    BY <2>1 DEF Replacing
  <2>3. CASE k = r.key
    <3>1. index'[k] = Append(index[k], SetRecord(r.val))
      BY <2>1, <2>3, CheckpointFacts DEF addRecordIndexedLog, IndexType
    <3> HIDE DEF r
    <3>2. TupleValue(index'[k]) = r.val
      BY <1>3, <1>6, <1>9, <3>1, TupleValueSet, ZenonT(60)
    <3> QED BY <1>7, <1>9, <2>1, <2>3, <3>2
  <2>4. CASE k # r.key
    <3>1. index'[k] = index[k]
      BY <2>1, <2>4, CheckpointFacts DEF addRecordIndexedLog, IndexType
    <3> QED BY <1>4, <1>5, <2>1, <2>2, <2>4, <3>1
  <2> QED BY <2>3, <2>4
<1>10. CASE IndexerWriteRecord /\ r.cmd \in {"DEL", "SETCHECKPOINT"}
  <2>1. /\ index' = delRecordIndexdLog(index, r.key) /\ pc = "write"
        /\ r.cmd = "DEL" => done' = n
        /\ r.cmd = "SETCHECKPOINT" => done' = done /\ pc' = "add"
    BY <1>10 DEF IndexerWriteRecord, InIndexer
  <2>2. ~Replacing(k)
    BY <2>1 DEF Replacing
  <2>3. CASE k = r.key
    <3>1. index'[k] = <<>>
      BY <2>1, <2>3, CheckpointFacts DEF delRecordIndexdLog, IndexType
    <3>2. r.cmd = "SETCHECKPOINT" => Replacing(k)'
      BY <1>0, <2>1, <2>3 DEF Replacing
    <3> QED BY <1>7, <1>10, <2>1, <2>3, <3>1, <3>2, TupleValueEmpty
  <2>4. CASE k # r.key
    <3>1. index'[k] = index[k]
      BY <2>1, <2>4, CheckpointFacts DEF delRecordIndexdLog, IndexType
    <3> QED BY <1>4, <1>5, <1>10, <2>1, <2>2, <2>4, <3>1
  <2> QED BY <2>3, <2>4
<1>11. CASE IndexerWriteRecord /\ r.cmd = "CHECKPOINTEND"
  <2>1. index' = index /\ done' = n /\ pc = "write"
    BY <1>11 DEF IndexerWriteRecord, InIndexer
  <2>2. ~Replacing(k)
    BY <2>1 DEF Replacing
  <2> QED BY <1>4, <1>5, <1>11, <2>1, <2>2
<1>12. CASE IndexerAdd
  <2>1. r.cmd = "SETCHECKPOINT" /\ pc = "add"
    BY <1>0, <1>12 DEF IndexerAdd, InIndexer, CheckpointInv, IndexerInv
  <2>2. index' = addRecordIndexedLog(index, r.key, SetRecord(r.val)) /\ done' = n
    BY <1>3, <1>12, <2>1 DEF IndexerAdd
  <2>3. CASE k = r.key
    <3>1. index'[k] = Append(index[k], SetRecord(r.val))
      BY <2>2, <2>3, CheckpointFacts DEF addRecordIndexedLog, IndexType
    <3>2. LogValue(log, n, k) = r.val
      BY <1>4, <1>8, <2>1, <2>3
    <3> HIDE DEF r
    <3>3. TupleValue(index'[k]) = r.val
      BY <1>3, <1>6, <2>1, <3>1, TupleValueSet, ZenonT(60)
    <3> QED BY <2>2, <3>2, <3>3
  <2>4. CASE k # r.key
    <3>1. index'[k] = index[k]
      BY <2>2, <2>4, CheckpointFacts DEF addRecordIndexedLog, IndexType
    <3>2. ~Replacing(k)
      BY <2>4 DEF Replacing
    <3> QED BY <1>4, <1>5, <2>2, <2>4, <3>1, <3>2
  <2> QED BY <2>3, <2>4
<1> QED BY <1>2, <1>9, <1>10, <1>11, <1>12, RecordFields

\* Every step of the Indexer thread keeps the invariant.
LEMMA IndexerCheckpointInv ==
  ASSUME TypeInv, CheckpointInv, IndexerStart \/ Indexes
  PROVE  CheckpointInv'
<1>0. /\ log \in Seq(LogRecord) /\ Len(log) \in Nat /\ done \in Nat /\ start \in Int /\ seek \in Int
      /\ finalSeek \in Int /\ (Up <=> phase = "serving")
  BY CheckpointFacts
<1>1. phase = "serving"
  BY <1>0, ZenonT(60) DEF IndexerStart, Indexes, IndexerPoll, IndexerFormatError, IndexerParseRecord, IndexerParseTorn, IndexerParseEnd,
              IndexerWriteRecord, IndexerAdd, IndexerSync, IndexerFopen, IndexerFwrite, IndexerClose, InIndexer
<1>2. /\ pc \in {"created", "poll", "parse", "write", "add", "fopen", "fwrite"}
      /\ pc = "created" => finalSeek = done
      /\ pc # "created" => indexerOn /\ 0 <= start /\ start <= done /\ done <= seek
      /\ pc \in {"fopen", "fwrite"} => done = seek
      /\ pc = "add" => log[done + 1].cmd = "SETCHECKPOINT" /\ done < seek
  BY <1>1 DEF CheckpointInv, IndexerInv
<1>3. ~IndexerFormatError /\ ~IndexerClose
  <2>1. ASSUME IndexerFormatError PROVE FALSE
    <3>1. pc = "poll" /\ seek < 0
      BY <2>1 DEF IndexerFormatError, InIndexer
    <3> QED BY <1>0, <1>2, <3>1
  <2>2. ASSUME IndexerClose PROVE FALSE
    <3>1. pc = "close"
      BY <2>2 DEF IndexerClose, InIndexer
    <3> QED BY <1>2, <3>1
  <2> QED BY <2>1, <2>2
<1>4. UNCHANGED <<log, torn, phase, mem, writing, replica>>
  BY <1>3, ZenonT(60) DEF IndexerStart, Indexes, IndexerPoll, IndexerParseRecord, IndexerParseTorn, IndexerParseEnd,
              IndexerWriteRecord, IndexerAdd, IndexerSync, IndexerFopen, IndexerFwrite, notIndexer, process
<1>4a. indexFile /\ indexFile'
  <2>1. indexFile
    BY <1>1 DEF CheckpointInv, FirstStartInv
  <2> QED BY <1>3, <2>1, ZenonT(60) DEF IndexerStart, Indexes, IndexerPoll, IndexerParseRecord, IndexerParseTorn,
              IndexerParseEnd, IndexerWriteRecord, IndexerAdd, IndexerSync, IndexerFopen, IndexerFwrite, notIndexer
<1>5. LogInv' /\ FirstStartInv' /\ RecoveredIsLogged'
  BY <1>1, <1>4, <1>4a DEF CheckpointInv, LogInv, FirstStartInv, RecoveredIsLogged, Logged, Up
<1>6. IndexerInv'
  <2>1. CASE IndexerStart
    BY <1>0, <1>2, <2>1 DEF IndexerStart, InIndexer, IndexerInv, seeks
  <2>2. CASE IndexerPoll \/ IndexerParseRecord \/ IndexerParseTorn \/ IndexerParseEnd
    BY <1>0, <1>2, <2>2 DEF IndexerPoll, IndexerParseRecord, IndexerParseTorn, IndexerParseEnd, InIndexer, IndexerInv
  <2>3. CASE IndexerWriteRecord
    <3>1. pc = "write" /\ done < seek /\ UNCHANGED <<log, indexerOn, start, seek>>
      BY <2>3 DEF IndexerWriteRecord, InIndexer, notIndexer
    <3>2. \/ done' = done + 1 /\ pc' = "write"
          \/ done' = done /\ pc' = "add" /\ log[done + 1].cmd = "SETCHECKPOINT"
      BY <2>3, <3>1 DEF IndexerWriteRecord
    <3> QED BY <1>0, <1>2, <3>1, <3>2 DEF IndexerInv
  <2>4. CASE IndexerAdd
    <3>1. /\ pc = "add" /\ pc' = "write" /\ done' = done + 1 /\ done < seek
          /\ UNCHANGED <<log, indexerOn, start, seek>>
      BY <1>2, <2>4 DEF IndexerAdd, InIndexer, notIndexer
    <3> QED BY <1>0, <1>2, <3>1 DEF IndexerInv
  <2>5. CASE IndexerSync \/ IndexerFopen \/ IndexerFwrite
    BY <1>0, <1>2, <2>5 DEF IndexerSync, IndexerFopen, IndexerFwrite, InIndexer, IndexerInv
  <2> QED BY <1>3, <2>1, <2>2, <2>3, <2>4, <2>5 DEF Indexes
<1>7. IndexFollowsLog'
  <2>1. CASE IndexerWriteRecord \/ IndexerAdd
    BY <2>1, WriteCheckpointInv
  <2>2. CASE ~(IndexerWriteRecord \/ IndexerAdd)
    <3>1. index' = index /\ pc # "add" /\ pc' # "add"
      BY <1>3, <1>4a, <2>2 DEF IndexerStart, Kept, Indexes, IndexerPoll, IndexerParseRecord, IndexerParseTorn,
                        IndexerParseEnd, IndexerSync, IndexerFopen, IndexerFwrite, InIndexer
    <3>2. done' = done
      BY <1>0, <1>2, <1>3, <2>2 DEF IndexerStart, Indexes, IndexerPoll, IndexerParseRecord, IndexerParseTorn,
                        IndexerParseEnd, IndexerSync, IndexerFopen, IndexerFwrite, InIndexer
    <3> QED BY <1>4, <3>1, <3>2 DEF CheckpointInv, IndexFollowsLog, Replacing, Up
  <2> QED BY <2>1, <2>2
<1> QED BY <1>5, <1>6, <1>7 DEF CheckpointInv

\* The length of a log is a position of it.
LEMMA OwnRange == \A n \in Nat : n \in 0..n
OBVIOUS

\* A command, or a command of the Checkpointer, is executed in memory and waits to be
\* logged: memory is what the log with that record says.
LEMMA WritingCheckpointInv ==
  ASSUME Undisturbed, TypeInv, CheckpointInv, Client \/ Checkpointer
  PROVE  LogInv' /\ RecoveredIsLogged'
<1>0. /\ log \in Seq(LogRecord) /\ Len(log) \in Nat /\ \A i \in 1..Len(log) : log[i].cmd # "INCR"
      /\ Up => phase = "serving"
  BY CheckpointFacts
<1>1. log' = log /\ Up /\ Up'
  BY DEF Client, Command, Checkpointer, CheckpointBegin, CheckpointKey, CheckpointEnd, CheckpointFopen, CheckpointFwrite, process, Up
<1>2. writing = NoValue => \A k \in Key : mem[k] = LogValue(log, Len(log), k)
  BY <1>1 DEF CheckpointInv, RecoveredIsLogged, Logged
<1>3. CASE writing' = writing /\ mem' = mem
  BY <1>1, <1>3 DEF CheckpointInv, LogInv, RecoveredIsLogged, Logged
<1>4. CASE Client
  <2> PICK cmd \in Commands, key \in Key, v \in SetValues : Command(cmd, key, v)
    BY <1>4 DEF Client
  <2> DEFINE w == IF cmd = "SET" THEN v ELSE NoValue
  <2>1. cmd \in {"SET", "DEL"} /\ writing = NoValue
    BY DEF Undisturbed, Command
  <2>2. /\ writing' = [cmd |-> cmd, key |-> key, val |-> w]
        /\ writing' \in LogRecord
    BY <2>1, IndexerAssumption, ZenonT(60) DEF Command, LogRecord
  <2>3. writing' # NoValue /\ writing'.cmd = cmd /\ writing'.key = key /\ writing'.val = w
    BY <2>2, RecordAssumption
  <2>4. mem' = [mem EXCEPT ![key] = w]
    <3>1. Executes(cmd, key, v)
      BY DEF Command
    <3> QED BY <2>1, <3>1, ZenonT(60) DEF Executes
  <2>5. Logged' = Append(log, writing') /\ Len(Append(log, writing')) = Len(log) + 1
    BY <1>0, <1>1, <2>2, <2>3 DEF Logged
  <2> HIDE DEF w
  <2>6. RecoveredIsLogged'
    <3> SUFFICES ASSUME NEW k \in Key PROVE mem'[k] = LogValue(Append(log, writing'), Len(log) + 1, k)
      BY <2>5 DEF RecoveredIsLogged
    <3>1. LogValue(Append(log, writing'), Len(log) + 1, k) = IF key # k THEN LogValue(log, Len(log), k) ELSE w
      <4>1. log \in Seq(LogRecord) /\ writing' \in LogRecord
        BY <1>0, <2>2
      <4>2. key # k => LogValue(Append(log, writing'), Len(log) + 1, k) = LogValue(log, Len(log), k)
        BY <2>3, <4>1, LogValueNext
      <4>3. key = k => LogValue(Append(log, writing'), Len(log) + 1, k) = w
        BY <2>1, <2>3, <4>1, LogValueNext DEF w
      <4> QED BY <4>2, <4>3
    <3>2. mem'[k] = IF key # k THEN mem[k] ELSE w
      BY <2>4 DEF TypeInv, TypeOK, Database
    <3> QED BY <1>2, <2>1, <3>1, <3>2
  <2>7. LogInv'
    BY <1>1, <2>1, <2>3 DEF CheckpointInv, LogInv, Repeats
  <2> QED BY <2>6, <2>7
<1>5. CASE Checkpointer /\ writing' # writing
  <2>1. /\ writing = NoValue /\ mem' = mem
        /\ \/ \E k \in Key : mem[k] # NoValue /\ writing' = [cmd |-> "SETCHECKPOINT", key |-> k, val |-> mem[k]]
           \/ writing' = [cmd |-> "CHECKPOINTEND", key |-> NoValue, val |-> NotANumber]
    BY <1>5 DEF Checkpointer, CheckpointBegin, CheckpointKey, CheckpointEnd, CheckpointFopen, CheckpointFwrite, process
  <2>2. /\ writing' \in LogRecord
        /\ writing'.cmd \in {"SETCHECKPOINT", "CHECKPOINTEND"}
        /\ writing'.cmd = "SETCHECKPOINT" => writing'.val = mem[writing'.key] /\ writing'.key \in Key
    BY <2>1 DEF LogRecord, TypeInv, TypeOK, Database
  <2>3. writing' # NoValue
    BY <2>2, RecordAssumption, ZenonT(60)
  <2> DEFINE l == Append(log, writing')
  <2>3a. log \in Seq(LogRecord) /\ writing' \in LogRecord /\ Len(log) \in Nat /\ Len(log) \in 0..Len(log)
    BY <1>0, <2>2, OwnRange, ZenonT(60)
  <2>3b. Len(l) = Len(log) + 1 /\ l \in Seq(LogRecord) /\ l[Len(log) + 1] = writing'
    BY <2>3a, AppendProperties
  <2>4. Logged' = l
    BY <1>1, <2>3 DEF Logged
  <2>5. ASSUME NEW k \in Key PROVE mem'[k] = LogValue(l, Len(l), k)
    <3>1. LogValue(l, Len(log), k) = LogValue(log, Len(log), k)
      BY <2>3a, LogValueAppend
    <3> HIDE DEF l
    <3>2. LogValue(l, Len(log) + 1, k) = LogValue(l, Len(log), k)
      <4>1. Len(log) < Len(l) /\ l[Len(log) + 1].cmd \in {"SETCHECKPOINT", "CHECKPOINTEND"}
        BY <2>2, <2>3a, <2>3b
      <4> QED BY <2>3a, <2>3b, <4>1, ValueKept
    <3>3. mem[k] = LogValue(log, Len(log), k) /\ mem' = mem
      BY <1>2, <2>1
    <3> QED BY <2>3b, <3>1, <3>2, <3>3
  <2>6. RecoveredIsLogged'
    BY <2>4, <2>5 DEF RecoveredIsLogged
  <2>7. LogInv'
    <3>1. Repeats(writing', log, Len(log))
      BY <1>2, <2>1, <2>2 DEF Repeats
    <3> QED BY <1>1, <2>2, <3>1 DEF CheckpointInv, LogInv
  <2> QED BY <2>6, <2>7
<1> QED
  <2>1. Checkpointer => mem' = mem
    BY DEF Checkpointer, CheckpointBegin, CheckpointKey, CheckpointEnd, CheckpointFopen, CheckpointFwrite, process
  <2> QED BY <1>3, <1>4, <1>5, <2>1

\* A command and the Checkpointer leave the files and the Indexer as they are.
LEMMA ServingCheckpointInv ==
  ASSUME Undisturbed, TypeInv, CheckpointInv, Client \/ Checkpointer
  PROVE  CheckpointInv'
<1>1. Up /\ phase = "serving"
  <2>1. Up
    BY DEF Client, Command, Checkpointer, CheckpointBegin, CheckpointKey, CheckpointEnd, CheckpointFopen, CheckpointFwrite, Up
  <2> QED BY <2>1, CheckpointFacts
<1>2. UNCHANGED <<log, torn, index, indexFile, replica, phase, pc, indexerOn, start, done, seek, finalSeek>>
  BY DEF Client, Command, Checkpointer, CheckpointBegin, CheckpointKey, CheckpointEnd, CheckpointFopen, CheckpointFwrite,
         indexes, seeks, process, thread
<1>3. FirstStartInv' /\ IndexerInv' /\ IndexFollowsLog'
  BY <1>1, <1>2 DEF CheckpointInv, FirstStartInv, IndexerInv, IndexFollowsLog, Replacing, Up
<1> QED BY <1>3, WritingCheckpointInv DEF CheckpointInv

\* The record that waits is appended to the log: values of earlier positions stay.
LEMMA FlushCheckpointInv ==
  ASSUME TypeInv, CheckpointInv, Flush
  PROVE  CheckpointInv'
<1>0. /\ log \in Seq(LogRecord) /\ Len(log) \in Nat /\ done \in Nat /\ done <= Len(log) /\ seek \in Int
      /\ seek <= Len(log) /\ (Up <=> phase = "serving")
  BY CheckpointFacts
<1>1. writing # NoValue /\ writing \in LogRecord /\ log' = Append(log, writing) /\ writing' = NoValue
  BY DEF Flush, TypeInv, TypeOK
<1>2. UNCHANGED <<torn, index, indexFile, replica, phase, mem, pc, indexerOn, start, done, seek, finalSeek>>
  BY DEF Flush, indexes, seeks, thread
<1>3. phase = "serving"
  BY <1>1 DEF CheckpointInv, FirstStartInv
<1>4. \A n \in 0..Len(log) : \A k : LogValue(log', n, k) = LogValue(log, n, k)
  BY <1>0, <1>1, LogValueAppend
<1>5. LogInv'
  <2> SUFFICES ASSUME NEW i \in DOMAIN log' PROVE log'[i].cmd # "INCR" /\ Repeats(log'[i], log', i - 1)
    BY <1>1 DEF LogInv
  <2>1. CASE i \in DOMAIN log
    <3>1. log'[i] = log[i] /\ i - 1 \in 0..Len(log)
      BY <1>0, <1>1, <2>1
    <3>2. log[i].cmd # "INCR" /\ Repeats(log[i], log, i - 1)
      BY <2>1 DEF CheckpointInv, LogInv
    <3> QED BY <1>4, <3>1, <3>2 DEF Repeats
  <2>2. CASE i \notin DOMAIN log
    <3>1. log'[i] = writing /\ i - 1 = Len(log) /\ Len(log) \in 0..Len(log)
      BY <1>0, <1>1, <2>2
    <3>2. writing.cmd # "INCR" /\ Repeats(writing, log, Len(log))
      BY <1>1 DEF CheckpointInv, LogInv
    <3> QED BY <1>4, <3>1, <3>2 DEF Repeats
  <2> QED BY <2>1, <2>2
<1>6. FirstStartInv'
  BY <1>2, <1>3 DEF CheckpointInv, FirstStartInv
<1>7. pc = "add" => log'[done + 1] = log[done + 1]
  BY <1>0, <1>1, <1>3 DEF CheckpointInv, IndexerInv
<1>8. IndexerInv'
  BY <1>2, <1>3, <1>7 DEF CheckpointInv, IndexerInv
<1>9. RecoveredIsLogged'
  <2>1. Logged' = Logged
    BY <1>1 DEF Logged
  <2> QED BY <1>2, <2>1 DEF CheckpointInv, RecoveredIsLogged, Up
<1>10. IndexFollowsLog'
  <2>1. \A k \in Key : LogValue(log', done, k) = LogValue(log, done, k)
    BY <1>0, <1>4
  <2>2. \A k \in Key : Replacing(k)' <=> Replacing(k)
    BY <1>2, <1>7 DEF Replacing
  <2>3. \A k \in Key : Replacing(k) \/ TupleValue(index[k]) = LogValue(log, done, k)
    BY <1>0, <1>3 DEF CheckpointInv, IndexFollowsLog
  <2> QED BY <1>2, <2>1, <2>2, <2>3 DEF IndexFollowsLog
<1> QED BY <1>5, <1>6, <1>8, <1>9, <1>10 DEF CheckpointInv

\* The invariant holds throughout a run that no outage disturbs.
LEMMA CheckpointInvariant == Undisturbed => (Spec => []CheckpointInv)
<1> SUFFICES ASSUME Undisturbed PROVE Spec => []CheckpointInv
  OBVIOUS
<1>1. Init => TypeInv /\ CheckpointInv
  BY InitTypeInv, InitCheckpointInv
<1>2. TypeInv /\ CheckpointInv /\ [Next]_vars => TypeInv' /\ CheckpointInv'
  <2> SUFFICES ASSUME TypeInv, CheckpointInv, [Next]_vars PROVE CheckpointInv'
    BY NextTypeInv
  <2>1. CASE UNCHANGED vars
    BY <2>1 DEF vars, indexes, process, thread, seeks, CheckpointInv, LogInv, FirstStartInv, IndexerInv,
                RecoveredIsLogged, IndexFollowsLog, Replacing, Logged, Up
  <2>2. ~Fails /\ ~(\E k \in Key : Evict(k))
    BY DEF Undisturbed, CheckpointInv, FirstStartInv, Fails, Kill, PowerLoss, FlushError, InitialReadError,
           IndexerReadError, IndexerOpenError, Stop, Corrupt, Outage, Evict
  <2>3. ~waitIndexerFinish /\ ~ShutdownEnd
    BY DEF waitIndexerFinish, ShutdownEnd, CheckpointInv, FirstStartInv
  <2>4. CASE Next
    BY <2>2, <2>3, <2>4, InitialCheckpointInv, IndexerCheckpointInv, ServingCheckpointInv, FlushCheckpointInv DEF Next
  <2> QED BY <2>1, <2>4
<1> QED BY <1>1, <1>2, PTL DEF Spec

\* Without INCR and without outages, the checkpoints that compact the indexed log
\* never change what it says: at every moment it is the database after exactly the
\* records that the Indexer has written, except for the one key whose records a
\* SETCHECKPOINT is replacing (setCheckpointCommand, writeToIndexedLog).  Commands
\* run between the keys of a checkpoint, so its records may be older than the
\* commands the Indexer has still to write.
THEOREM CheckpointsKeepIndex == Undisturbed => (Spec => []IndexFollowsLog)
<1>1. CheckpointInv => IndexFollowsLog
  BY DEF CheckpointInv
<1> QED BY <1>1, CheckpointInvariant, PTL

===============================================================================
