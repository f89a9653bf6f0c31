---------------------------- MODULE RecoveryProofs ----------------------------
(***************************************************************************)
(* Recovery is exact: without checkpoints or a graceful stop, kills, I/O   *)
(* errors and losses of power while serving never make the recovered       *)
(* database differ from the sequential log, in its keys whatever the       *)
(* commands, and in its values too where there is no INCR.                 *)
(***************************************************************************)
EXTENDS RecoveryIndexer

\* The time that a leaf may take.
USE SMTT(60), ZenonT(60)

-------------------------------------------------------------------------------
(* The initial indexing. *)

\* It starts at the position file.
LEMMA InitialStartKeeps ==
  ASSUME Plain, TypeInv, RecoveryInv, InitialStart
  PROVE  RecoveryInv'
<1>0. /\ PlainLog /\ log \in Seq(LogRecord) /\ Len(log) \in Nat
      /\ 0 <= SeekPos /\ SeekPos <= Len(log)
  BY LogFacts
<1> USE <1>0 DEF RecoveryInv
<1>0a. phase = "down" /\ index' = index /\ log' = log /\ finalSeek' = finalSeek /\ SeekPos' = SeekPos
  <2>1. phase = "down" /\ log' = log /\ finalSeek' = finalSeek
    BY DEF InitialStart, seeks
  <2>2. CASE finalSeek = Missing
    <3>1. index = EmptyIndex /\ (UsesReplica => replica = EmptyIndex)
      BY <2>1, <2>2 DEF FreshInv, UsesReplica
    <3> QED BY <2>1, <3>1 DEF InitialStart, SeekPos
  <2>3. CASE finalSeek # Missing
    <3>1. ~UsesReplica /\ ~LosesIndex
      BY <2>3 DEF PlainInv, UsesReplica, LosesIndex
    <3> QED BY <2>1, <3>1 DEF InitialStart, SeekPos
  <2> QED BY <2>2, <2>3
<1>0b. InitialSeek = SeekPos /\ SeekPos \in Nat /\ (EmptyLog => SeekPos = Len(log))
  <2>1. SeekPos \in Nat /\ (EmptyLog => SeekPos = Len(log) /\ SeekPos = 0)
    BY DEF TypeInv, TypeOK, EmptyLog, SeekPos
  <2>2. CASE finalSeek = Missing
    BY <1>0a, <2>1, <2>2, ZenonT(60) DEF FreshInv, InitialSeek
  <2>3. CASE finalSeek # Missing
    <3>1. ~UsesReplica /\ ~FromCheckpoint
      BY <2>3 DEF PlainInv, UsesReplica, LosesIndex, FromCheckpoint
    <3> QED BY <2>1, <2>3, <3>1, ZenonT(60) DEF InitialSeek, SeekPos
  <2> QED BY <2>1, <2>2, <2>3
<1>1. PlainInv'
  BY <1>0a DEF PlainInv, InitialStart, seeks, Up
<1>1a. FreshInv'
  <2> SUFFICES ASSUME finalSeek = Missing PROVE FreshInv'
    BY <1>0a DEF FreshInv
  <2>1. EmptyLog /\ index = EmptyIndex /\ replica \in {NoValue, EmptyIndex}
    BY <1>0a DEF FreshInv
  <2>2. replica' \in {NoValue, EmptyIndex}
    BY <2>1 DEF InitialStart
  <2>3. EmptyLog'
    BY <2>1 DEF InitialStart, EmptyLog
  <2> QED BY <1>0a, <2>1, <2>2, <2>3 DEF FreshInv
<1>2. SeekInv'
  BY <1>0a, SeekInvSame
<1>3. InitialInv'
  <2>1. start' = SeekPos /\ done' = SeekPos /\ SeekPos' = SeekPos /\ index' = index /\ log' = log
    <3>1. start' = SeekPos /\ done' = SeekPos
      BY <1>0b DEF InitialStart
    <3> QED BY <1>0a, <3>1
  <2>2. \A k \in Key : Mends(index, log, done, k)'
    BY <2>1 DEF SeekInv, Mends, WrittenAfter
  <2>3. pc' = IF EmptyLog THEN "fopen" ELSE "write"
    BY DEF InitialStart
  <2>4. EmptyLog => SeekPos = Len(log)
    BY <1>0b
  <2> QED BY <1>0b, <2>1, <2>2, <2>3, <2>4 DEF InitialInv, AfterClose
<1>4. ServingInv'
  BY DEF ServingInv, InitialStart
<1> QED BY <1>1, <1>1a, <1>2, <1>3, <1>4

\* A record is applied, a SET in two steps.
LEMMA InitialRecordKeeps ==
  ASSUME Plain, TypeInv, RecoveryInv, InitialRecord \/ InitialAdd
  PROVE  RecoveryInv'
<1>0. /\ PlainLog /\ log \in Seq(LogRecord) /\ Len(log) \in Nat
      /\ 0 <= SeekPos /\ SeekPos <= Len(log)
  BY LogFacts
<1> USE <1>0 DEF RecoveryInv
<1> DEFINE r == log[done + 1]
           Applied(recs) == /\ index' = [index EXCEPT ![r.key] = recs]
                            /\ \/ done' = done /\ pc' = "add" /\ r.cmd = "SET"
                               \/ /\ Leaves(log[done + 1], TupleValue(recs))
                                  /\ \/ done' = done + 1 /\ pc' = "write"
                                     \/ done' = done /\ pc' \in {"replicaDel", "replicaAdd"}
<1>0a. /\ phase = "initial" /\ done \in Nat /\ done < Len(log) /\ SeekPos \in 0..done /\ index \in IndexType
       /\ done + 1 \in 1..Len(log)
  BY DEF TypeInv, TypeOK, PositionsInLog, ThreadInv, InitialInv, InitialRecord, InitialAdd, InInitial, SeekPos, Missing
<1>0b. r \in LogRecord /\ r.cmd \in {"SET", "INCR", "DEL"} /\ r.key \in Key /\ index[r.key] \in Seq(IndexRecord)
  <2>1. r \in LogRecord /\ r.cmd \in {"SET", "INCR", "DEL"}
    BY <1>0a, ElementOfSeq DEF PlainInv, PlainRecord
  <2> QED BY <1>0a, <2>1, RecordFields DEF IndexType
<1>0c. log' = log /\ seeks' = seeks /\ process' = process /\ start' = start /\ indexFile' = indexFile /\ ckpt' = ckpt
  BY DEF InitialRecord, InitialAdd
<1>0d. SeekPos' = SeekPos /\ phase' = "initial"
  BY <1>0a, <1>0c DEF seeks, process, SeekPos
<1>0e. \E recs : Applied(recs)
  <2>1. CASE InitialAdd
    <3>1. r.cmd = "SET"
      BY <1>0a, <2>1 DEF InitialAdd, InInitial, InitialInv
    <3>2. /\ index' = [index EXCEPT ![r.key] = Append(index[r.key], SetRecord(r.val))]
          /\ \/ done' = done + 1 /\ pc' = "write"
             \/ done' = done /\ pc' \in {"replicaDel", "replicaAdd"}
      BY <2>1 DEF InitialAdd, ThenReplica, addRecordIndexedLog
    <3>3. Leaves(r, TupleValue(Append(index[r.key], SetRecord(r.val))))
      BY <1>0b, <3>1, RecordFields, TupleValueSet DEF Leaves
    <3>4. Applied(Append(index[r.key], SetRecord(r.val)))
      BY <3>2, <3>3
    <3> HIDE DEF Applied
    <3> QED BY <3>4
  <2>2. CASE InitialRecord
    <3>1. pc = "write"
      BY <2>2 DEF InitialRecord, InInitial
    <3>2. ASSUME r.cmd = "SET" PROVE Applied(<<>>)
      <4>1. index' = [index EXCEPT ![r.key] = <<>>] /\ done' = done /\ pc' = "add"
        BY <2>2, <3>2 DEF InitialRecord, delRecordIndexdLog
      <4> QED BY <3>2, <4>1
    <3>3. ASSUME r.cmd = "DEL" PROVE Applied(<<>>)
      <4>1. /\ index' = [index EXCEPT ![r.key] = <<>>]
            /\ \/ done' = done + 1 /\ pc' = "write"
               \/ done' = done /\ pc' \in {"replicaDel", "replicaAdd"}
        BY <2>2, <3>1, <3>3 DEF InitialRecord, ThenReplica, delRecordIndexdLog
      <4>2. Leaves(r, TupleValue(<<>>))
        BY <3>3, TupleValueEmpty DEF Leaves
      <4> QED BY <4>1, <4>2
    <3>4. ASSUME r.cmd = "INCR" PROVE Applied(Append(index[r.key], IncrRecord))
      <4>1. /\ index' = [index EXCEPT ![r.key] = Append(index[r.key], IncrRecord)]
            /\ \/ done' = done + 1 /\ pc' = "write"
               \/ done' = done /\ pc' \in {"replicaDel", "replicaAdd"}
        BY <2>2, <3>1, <3>4, ZenonT(60) DEF InitialRecord, ThenReplica, addRecordIndexedLog
      <4>2. Append(index[r.key], IncrRecord) \in Seq(IndexRecord) /\ Append(index[r.key], IncrRecord) # <<>>
        BY <1>0b DEF IncrRecord, IndexRecord
      <4>3. TupleValue(Append(index[r.key], IncrRecord)) # NoValue
        BY <4>2, TupleValueType, ValueAssumption, ZenonT(60)
      <4>4. Leaves(r, TupleValue(Append(index[r.key], IncrRecord)))
        BY <3>4, <4>3 DEF Leaves
      <4> QED BY <4>1, <4>4
    <3> HIDE DEF Applied
    <3> QED BY <1>0b, <3>2, <3>3, <3>4
  <2> QED BY <2>1, <2>2
<1>0f. PICK recs : Applied(recs)
  BY <1>0e, ZenonT(60)
<1>0g. index' = [index EXCEPT ![log[done + 1].key] = recs]
  BY <1>0f
<1>1. PlainInv'
  BY <1>0a, <1>0c DEF PlainInv, seeks, process, Up
<1>2. SeekInv'
  <2> SUFFICES ASSUME NEW k \in Key PROVE Mends(index', log, SeekPos, k)
    BY <1>0c, <1>0d DEF SeekInv, Mends, WrittenAfter
  <2>1. Mends(index, log, SeekPos, k)
    BY DEF SeekInv
  <2> QED BY <1>0a, <1>0g, <2>1, ReplaceMends, ZenonT(60)
<1>3. InitialInv'
  <2>1. ASSUME NEW k \in Key, done' = done PROVE Mends(index', log, done', k)
    <3>1. Mends(index, log, done, k) /\ done \in 0..done
      BY <1>0a DEF InitialInv
    <3>2. Mends(index', log, done, k)
      BY <1>0a, <1>0g, <3>1, ReplaceMends, ZenonT(60)
    <3> QED BY <2>1, <3>2
  <2>2. ASSUME NEW k \in Key, Leaves(log[done + 1], TupleValue(recs)) PROVE Mends(index', log, done + 1, k)
    <3>1. Mends(index, log, done, k)
      BY <1>0a DEF InitialInv
    <3> QED BY <1>0a, <1>0g, <2>2, <3>1, ApplyRecord, ZenonT(60)
  <2>3. \A k \in Key : Mends(index, log, done, k)'
    <3>1. done' = done \/ (done' = done + 1 /\ Leaves(log[done + 1], TupleValue(recs)))
      BY <1>0f
    <3>2. \A k \in Key : Mends(index', log, done', k)
      BY <2>1, <2>2, <3>1
    <3> QED BY <1>0c, <3>2 DEF Mends, WrittenAfter
  <2>4. pc' \in {"replicaDel", "replicaAdd"} => \A k \in Key : Mends(index, log, done + 1, k)'
    <3> SUFFICES ASSUME pc' \in {"replicaDel", "replicaAdd"} PROVE \A k \in Key : Mends(index, log, done + 1, k)'
      OBVIOUS
    <3>1. done' = done /\ Leaves(log[done + 1], TupleValue(recs))
      BY <1>0f
    <3> QED BY <1>0c, <2>2, <3>1 DEF Mends, WrittenAfter
  <2>5. /\ 0 <= start' /\ SeekPos' <= done' /\ pc' \in {"add", "write", "replicaDel", "replicaAdd"}
        /\ pc' = "add" => log'[done' + 1].cmd = "SET"
    BY <1>0a, <1>0c, <1>0d, <1>0f DEF InitialInv
  <2> QED BY <2>3, <2>4, <2>5 DEF InitialInv, AfterClose
<1>4. ServingInv'
  BY <1>0d DEF ServingInv
<1>5. FreshInv'
  BY <1>0a, <1>0c DEF FreshInv, EmptyLog, seeks
<1> QED BY <1>1, <1>2, <1>3, <1>4, <1>5

\* The ends of the initial indexing, and the file of its position.
LEMMA InitialEndKeeps ==
  ASSUME Plain, TypeInv, RecoveryInv, InitialEnd \/ InitialError \/ InitialFopen \/ InitialFwrite
  PROVE  RecoveryInv'
<1>0. /\ PlainLog /\ log \in Seq(LogRecord) /\ Len(log) \in Nat
      /\ 0 <= SeekPos /\ SeekPos <= Len(log)
  BY LogFacts
<1> USE <1>0 DEF RecoveryInv
<1>0a. /\ phase = "initial" /\ done \in 0..Len(log) /\ start >= 0
       /\ log' = log /\ index' = index /\ indexFile' = indexFile /\ writing' = writing /\ ckpt' = ckpt
       /\ ckptSeek' = ckptSeek /\ start' = start /\ done' = done /\ replica' = replica /\ torn' = torn
  <2>1. phase = "initial"
    BY DEF InitialEnd, InitialError, InitialFopen, InitialFwrite, InInitial
  <2>2. done \in 0..Len(log) /\ start >= 0
    BY <2>1 DEF TypeInv, TypeOK, PositionsInLog, InitialInv
  <2>3. /\ log' = log /\ index' = index /\ indexFile' = indexFile /\ writing' = writing /\ ckpt' = ckpt
        /\ ckptSeek' = ckptSeek /\ start' = start /\ done' = done /\ replica' = replica /\ torn' = torn
    BY DEF InitialEnd, InitialError, InitialFopen, InitialFwrite, indexes, seeks, process
  <2> QED BY <2>1, <2>2, <2>3
<1>0b. SeekPos' \in {SeekPos, 0, done} /\ SeekPos' <= done /\ finalSeek' >= Missing
  <2>1. SeekPos <= done /\ finalSeek >= -1 /\ finalSeek \in Int
    BY <1>0a DEF TypeInv, TypeOK, PlainInv, InitialInv, Missing
  <2>2. finalSeek' \in {finalSeek, 0, done}
    BY <1>0a DEF InitialEnd, InitialError, InitialFopen, InitialFwrite, seeks, InitialFinalSeek, Missing
  <2> QED BY <1>0a, <2>1, <2>2 DEF SeekPos, Missing
<1>0c. phase' \in {"initial", "exited"}
  BY <1>0a DEF InitialEnd, InitialError, InitialFopen, InitialFwrite, process
<1>1. PlainInv'
  BY <1>0a, <1>0b, <1>0c DEF PlainInv, Up
<1>2. SeekInv'
  <2> SUFFICES ASSUME NEW k \in Key PROVE Mends(index, log, SeekPos', k)
    BY <1>0a DEF SeekInv, Mends, WrittenAfter
  <2>1. Mends(index, log, SeekPos, k) /\ Mends(index, log, done, k)
    BY <1>0a DEF SeekInv, InitialInv
  <2>2. Mends(index, log, 0, k)
    BY <1>0a, <2>1, MendsEarlier
  <2> QED BY <1>0b, <2>1, <2>2
<1>3. InitialInv'
  <2>1. \A k \in Key : Mends(index, log, done, k)'
    BY <1>0a DEF InitialInv, Mends, WrittenAfter
  <2>2. phase' = "initial" => /\ pc' \in {"fopen", "fwrite", "close"}
                              /\ done' = Len(log')
                              /\ pc' = "close" => finalSeek' = done'
    BY <1>0a DEF InitialInv, InitialEnd, InitialError, InitialFopen, InitialFwrite, InInitial, InitialFinalSeek, Missing
  <2> QED BY <1>0a, <1>0b, <2>1, <2>2 DEF InitialInv, AfterClose
<1>4. ServingInv'
  BY <1>0c DEF ServingInv
<1>5. FreshInv'
  <2>1. finalSeek' = Missing => finalSeek = Missing
    BY <1>0a DEF InitialEnd, InitialError, InitialFopen, InitialFwrite, seeks, InitialFinalSeek, Missing
  <2> QED BY <1>0a, <2>1, ZenonT(60) DEF FreshInv, EmptyLog
<1> QED BY <1>1, <1>2, <1>3, <1>4, <1>5

\* The same record is applied to the replica, the indexed logs are closed, and the
\* position of the replica is written: none of it touches the indexed log.
LEMMA InitialReplicaKeeps ==
  ASSUME Plain, TypeInv, RecoveryInv,
         InitialReplicaDel \/ InitialReplicaAdd \/ InitialClose
           \/ InitialReplicaFopen \/ InitialReplicaFwrite \/ InitialReplicaClose
  PROVE  RecoveryInv'
<1>0. /\ PlainLog /\ log \in Seq(LogRecord) /\ Len(log) \in Nat
      /\ 0 <= SeekPos /\ SeekPos <= Len(log)
  BY LogFacts
<1> USE <1>0 DEF RecoveryInv
<1>1. /\ phase = "initial" /\ process' = process /\ log' = log /\ index' = index /\ indexFile' = indexFile
      /\ ckpt' = ckpt /\ ckptSeek' = ckptSeek /\ finalSeek' = finalSeek /\ start' = start
  BY DEF InitialReplicaDel, InitialReplicaAdd, InitialClose, InitialReplicaFopen, InitialReplicaFwrite,
         InitialReplicaClose, InInitial, indexes, seeks
<1>2. phase' = "initial" /\ writing' = writing /\ SeekPos' = SeekPos
  BY <1>1 DEF process, SeekPos
<1>3. done \in Nat /\ SeekPos <= done /\ 0 <= start /\ \A k \in Key : Mends(index, log, done, k)
  BY <1>1 DEF TypeInv, TypeOK, InitialInv
<1>4. ASSUME InitialReplicaDel \/ InitialReplicaAdd
      PROVE  finalSeek # Missing /\ InitialInv'
  <2>1. pc \in {"replicaDel", "replicaAdd"}
    BY <1>4 DEF InitialReplicaDel, InitialReplicaAdd, InInitial
  <2>2. \A k \in Key : Mends(index, log, done + 1, k)
    BY <1>1, <2>1 DEF InitialInv
  <2>3. done < Len(log)
    BY <2>1 DEF TypeInv, ThreadInv
  <2>4. \/ done' = done + 1 /\ pc' = "write"
        \/ done' = done /\ pc' = "replicaAdd"
    BY <1>4 DEF InitialReplicaDel, InitialReplicaAdd
  <2>5. \A k \in Key : Mends(index, log, done, k)'
    <3>1. \A k \in Key : Mends(index, log, done', k)
      BY <1>3, <2>2, <2>4
    <3> QED BY <1>1, <3>1 DEF Mends, WrittenAfter
  <2>6. done' = done => \A k \in Key : Mends(index, log, done + 1, k)'
    BY <1>1, <2>2 DEF Mends, WrittenAfter
  <2>7. InitialInv'
    <3>0. SeekPos \in Int
      BY DEF SeekPos, TypeInv, TypeOK
    <3>1. 0 <= start' /\ SeekPos' <= done' /\ pc' \in {"write", "replicaAdd"}
      BY <1>1, <1>2, <1>3, <2>4, <3>0
    <3>2. pc' = "replicaAdd" => \A k \in Key : Mends(index, log, done + 1, k)'
      BY <2>4, <2>6
    <3> QED BY <2>5, <3>1, <3>2 DEF InitialInv, AfterClose
  <2>8. finalSeek # Missing
    <3>1. Len(log) # 0
      BY <1>3, <2>3
    <3> QED BY <1>1, <3>1 DEF FreshInv, EmptyLog
  <2> QED BY <2>7, <2>8
<1>5. ASSUME InitialClose \/ InitialReplicaFopen \/ InitialReplicaFwrite \/ InitialReplicaClose
      PROVE  finalSeek # Missing /\ InitialInv'
  <2>1. pc \in {"close"} \cup AfterClose /\ done' = done
    BY <1>5 DEF InitialClose, InitialReplicaFopen, InitialReplicaFwrite, InitialReplicaClose, InInitial, AfterClose
  <2>2. done = Len(log) /\ finalSeek = done
    BY <1>1, <2>1 DEF InitialInv
  <2>3. pc' \in AfterClose
    BY <1>5 DEF InitialClose, InitialReplicaFopen, InitialReplicaFwrite, InitialReplicaClose, AfterClose
  <2>4. disk' = index
    BY <1>1, <1>5 DEF InitialClose, InitialReplicaFopen, InitialReplicaFwrite, InitialReplicaClose, InInitial,
                      InitialInv, AfterClose, indexes
  <2>5. \A k \in Key : Mends(index, log, done, k)'
    BY <1>1, <1>3, <2>1 DEF Mends, WrittenAfter
  <2>6. InitialInv'
    BY <1>1, <1>2, <1>3, <2>1, <2>2, <2>3, <2>4, <2>5 DEF InitialInv, AfterClose
  <2>7. finalSeek # Missing
    BY <1>3, <2>2 DEF Missing
  <2> QED BY <2>6, <2>7
<1>6. finalSeek # Missing /\ InitialInv'
  BY <1>4, <1>5
<1>7. PlainInv'
  BY <1>1, <1>2 DEF PlainInv, Up
<1>8. FreshInv' /\ ServingInv'
  BY <1>1, <1>2, <1>6 DEF FreshInv, ServingInv
<1>9. SeekInv'
  BY <1>1, SeekInvSame
<1> QED BY <1>6, <1>7, <1>8, <1>9

\* The database is restored: nothing was left to repair.
LEMMA ServeKeeps ==
  ASSUME Plain, TypeInv, RecoveryInv, Serve
  PROVE  RecoveryInv'
<1>0. /\ PlainLog /\ log \in Seq(LogRecord) /\ Len(log) \in Nat
      /\ 0 <= SeekPos /\ SeekPos <= Len(log)
  BY LogFacts
<1> USE <1>0 DEF RecoveryInv
<1>0a. /\ phase = "initial" /\ done = Len(log) /\ finalSeek = done /\ writing = NoValue
       /\ SeekPos = finalSeek /\ disk = index
  BY DEF PlainInv, InitialInv, AfterClose, Serve, InInitial, Up, SeekPos, Missing
<1>0b. /\ log' = log /\ index' = index /\ disk' = index /\ finalSeek' = finalSeek /\ done' = done
       /\ writing' = writing /\ phase' = "serving" /\ pc' = "created" /\ mem' = Restored
  BY <1>0a DEF Serve, indexes, seeks
<1>0c. ASSUME NEW k \in Key PROVE Agrees(TupleValue(index[k]), LogValue(log, Len(log), k))
  <2>1. Mends(index, log, Len(log), k)
    BY <1>0a DEF InitialInv
  <2> QED BY <2>1, MendsAtEnd
<1>1. PlainInv'
  BY <1>0a, <1>0b DEF PlainInv, Serve, indexes, seeks, Up
<1>2. SeekInv'
  BY <1>0b DEF SeekInv, SeekPos, Mends, WrittenAfter
<1>3. InitialInv'
  BY <1>0b DEF InitialInv
<1>4. ServingInv'
  <2>1. \A k \in Key : Agrees(TupleValue(index[k]), LogValue(log, done, k))'
    BY <1>0a, <1>0b, <1>0c DEF Agrees
  <2>2. \A k \in Key : Mends(disk, log, finalSeek, k)'
    BY <1>0a, <1>0b, <1>0c DEF Mends, Agrees, WrittenAfter
  <2>3. \A k \in Key : Agrees(mem[k], LogValue(Logged, Len(Logged), k))'
    BY <1>0a, <1>0b, <1>0c DEF Logged, Restored, Agrees
  <2> QED BY <1>0a, <1>0b, <2>1, <2>2, <2>3 DEF ServingInv
<1>5. FreshInv'
  BY <1>0b DEF FreshInv
<1> QED BY <1>1, <1>2, <1>3, <1>4, <1>5

-------------------------------------------------------------------------------

\* A step that changes nothing.
LEMMA StutterKeeps ==
  ASSUME RecoveryInv, UNCHANGED vars
  PROVE  RecoveryInv'
<1>0. /\ log' = log /\ index' = index /\ disk' = disk /\ indexFile' = indexFile /\ ckpt' = ckpt
      /\ finalSeek' = finalSeek /\ ckptSeek' = ckptSeek
      /\ phase' = phase /\ mem' = mem /\ writing' = writing
      /\ pc' = pc /\ indexerOn' = indexerOn /\ start' = start /\ done' = done /\ seek' = seek
  BY DEF vars, indexes, seeks, process, thread
<1>1. PlainInv' /\ SeekInv'
  BY <1>0 DEF RecoveryInv, PlainInv, SeekInv, SeekPos, Mends, Agrees, WrittenAfter, Up
<1>1a. FreshInv'
  BY ZenonT(60) DEF RecoveryInv, FreshInv, EmptyLog, vars, indexes, seeks, process
<1>2. InitialInv' /\ ServingInv'
  BY <1>0, ZenonT(60) DEF RecoveryInv, InitialInv, ServingInv, SeekPos, Mends, Agrees, WrittenAfter, Logged
<1> QED BY <1>1, <1>1a, <1>2 DEF RecoveryInv

\* Every step keeps the invariant.
LEMMA NextKeeps ==
  ASSUME Plain, TypeInv, RecoveryInv, [Next]_vars
  PROVE  RecoveryInv'
<1>1. CASE Client
  BY <1>1, CommandKeeps DEF Client
<1>2. CASE Flush
  BY <1>2, FlushKeeps
<1>3. CASE Initial
  BY <1>3, InitialStartKeeps, InitialRecordKeeps, InitialEndKeeps, InitialReplicaKeeps, ServeKeeps,
     ZenonT(60) DEF Initial
<1>4. CASE IndexerStart \/ Indexes
  BY <1>4, StartKeeps, QuietIndexer, WriteKeeps, SyncKeeps, FopenKeeps, FwriteKeeps, ExcludedSteps DEF Indexes
<1>5. CASE Checkpointer \/ Fails \/ waitIndexerFinish \/ ShutdownEnd
  BY <1>5, KillKeeps, PowerLossKeeps, OpenErrorKeeps, ExcludedSteps, ZenonT(60) DEF Fails
<1>6. CASE \E k \in Key : Evict(k)
  BY <1>6, EvictKeeps
<1>7. CASE UNCHANGED vars
  BY <1>7, StutterKeeps
<1> QED BY <1>1, <1>2, <1>3, <1>4, <1>5, <1>6, <1>7 DEF Next

-------------------------------------------------------------------------------
(* The theorems. *)

\* Every reachable state of these configurations has the invariant.
LEMMA RecoveryInvariance ==
  ASSUME Plain
  PROVE  Spec => [](TypeInv /\ RecoveryInv)
<1>1. Init => TypeInv /\ RecoveryInv
  BY InitTypeInv, InitRecoveryInv
<1>2. TypeInv /\ RecoveryInv /\ [Next]_vars => TypeInv' /\ RecoveryInv'
  BY NextTypeInv, NextKeeps
<1> QED BY <1>1, <1>2, PTL DEF Spec

\* Whatever the commands, INCR included: in the configurations of Plain, for every
\* set of keys and values and any number of records, kills, I/O errors and losses of
\* power while serving, a restart neither loses a key that the sequential log leaves
\* present nor brings back one that it deletes, although the Indexer adds an INCR
\* as a SET of the value it parsed before (writeToIndexedLog, loadRecordFromIndexedLog).
THEOREM RecoveryKeepsPresence ==
  ASSUME Plain
  PROVE  Spec => []PresenceRecovered
<1>1. TypeInv /\ RecoveryInv => PresenceRecovered
  BY DEF RecoveryInv, PlainInv, ServingInv, Up, PresenceRecovered, Agrees
<1> QED BY <1>1, RecoveryInvariance, PTL

\* Without INCR memory is exactly what the sequential log says: the indexed log and
\* the records after the position file together restore the logged database, for
\* every number of kills, of failed reads and writes of the sequential log and of
\* losses of power while serving.  The code is writeToIndexedLog's order of sync
\* and writeFinalLogSeek, and the re-indexing from that position at a restart.
THEOREM RecoveryExact ==
  ASSUME Plain, NoIncr
  PROVE  Spec => []RecoveredIsLogged
<1>1. TypeInv /\ RecoveryInv => RecoveredIsLogged
  BY DEF RecoveryInv, PlainInv, ServingInv, Up, RecoveredIsLogged, Agrees
<1> QED BY <1>1, RecoveryInvariance, PTL

\* Without INCR the indexed log is the database at the record that the Indexer has
\* reached, however its batches were cut by kills and losses of power and whatever
\* of them is applied a second time (writeToIndexedLog).
THEOREM IndexExact ==
  ASSUME Plain, NoIncr
  PROVE  Spec => []IndexFollowsLog
<1>1. TypeInv /\ RecoveryInv => IndexFollowsLog
  BY DEF RecoveryInv, PlainInv, ServingInv, Up, IndexFollowsLog, Agrees
<1> QED BY <1>1, RecoveryInvariance, PTL

\* Without INCR the pages of the indexed log on disk lack nothing that comes before
\* the position in finalLogSeek.dat: the sync comes before writeFinalLogSeek, and a
\* loss of power may keep any older page.
THEOREM IndexDurable ==
  ASSUME Plain, NoIncr
  PROVE  Spec => []DurableUpToSeek
<1>1. ASSUME TypeInv, RecoveryInv PROVE DurableUpToSeek
  <2>0. phase = "serving" => finalSeek \in 0..Len(log) /\ Len(log) \in Nat
    BY <1>1, ServingFacts, LogFacts
  <2> SUFFICES ASSUME phase = "serving", NEW k \in Key PROVE Repairable(disk, finalSeek, k)
    BY <1>1 DEF RecoveryInv, PlainInv, Up, DurableUpToSeek
  <2>1. CASE Agrees(TupleValue(disk[k]), LogValue(log, finalSeek, k))
    BY <2>1 DEF Agrees, Repairable
  <2>2. CASE WrittenAfter(log, finalSeek, k)
    <3>1. PICK i \in finalSeek + 1 .. Len(log) : log[i].key = k
      BY <2>2 DEF WrittenAfter
    <3>2. i \in 1..Len(log)
      BY <2>0
    <3>3. log[i].cmd \in {"SET", "DEL"}
      BY <1>1, <3>2 DEF RecoveryInv, PlainInv, PlainRecord
    <3> QED BY <3>1, <3>3 DEF Repairable, OverwrittenAfter
  <2> QED BY <1>1, <2>1, <2>2 DEF RecoveryInv, ServingInv, Mends
<1> QED BY <1>1, RecoveryInvariance, PTL

===============================================================================
