--------------------------- MODULE RecoveryIndexer ----------------------------
(***************************************************************************)
(* The steps of the Indexer thread while Redis-IR serves keep the invariant*)
(* of RecoveryInvariant.                                                   *)
(***************************************************************************)
EXTENDS RecoveryInvariant

\* The time that a leaf may take.
USE SMTT(60), ZenonT(60)

\* Steps that leave the logs and the position file alone.
LEMMA QuietIndexer ==
  ASSUME Plain, TypeInv, RecoveryInv, IndexerPoll \/ IndexerParseRecord \/ IndexerParseTorn \/ IndexerParseEnd
  PROVE  RecoveryInv'
<1>0. /\ PlainLog /\ log \in Seq(LogRecord) /\ Len(log) \in Nat
      /\ 0 <= SeekPos /\ SeekPos <= Len(log)
  BY LogFacts
<1> USE <1>0 DEF RecoveryInv
<1>0a. phase = "serving" /\ pc \in {"poll", "parse"}
  BY DEF PlainInv, IndexerPoll, IndexerParseRecord, IndexerParseTorn, IndexerParseEnd, InIndexer, Up
<1>0b. UNCHANGED <<notIndexer, index, disk, finalSeek, indexerOn, start, done>>
  BY DEF IndexerPoll, IndexerParseRecord, IndexerParseTorn, IndexerParseEnd
<1>0c. /\ indexerOn /\ 0 <= start /\ start <= done /\ done <= seek /\ seek \in Int /\ done \in Nat
       /\ 0 <= finalSeek /\ finalSeek <= done
  BY <1>0a DEF TypeInv, TypeOK, ServingInv
<1>0d. pc' \in {"poll", "parse", "write"} /\ done <= seek'
  <2>1. CASE IndexerPoll
    BY <1>0a, <1>0c, <2>1 DEF IndexerPoll
  <2>2. CASE IndexerParseRecord
    BY <1>0a, <1>0c, <2>2 DEF IndexerParseRecord
  <2>3. CASE IndexerParseTorn
    BY <1>0a, <1>0c, <2>3 DEF IndexerParseTorn
  <2>4. CASE IndexerParseEnd
    BY <1>0a, <1>0c, <2>4 DEF IndexerParseEnd
  <2> QED BY <2>1, <2>2, <2>3, <2>4
<1>1. PlainInv'
  BY <1>0b DEF PlainInv, notIndexer, Up
<1>2. SeekInv'
  BY <1>0b, SeekInvSame DEF notIndexer
<1>3. InitialInv'
  BY <1>0a, <1>0b DEF InitialInv, notIndexer
<1>4. ServingInv'
  <2>1. \A k \in Key : Mends(disk, log, finalSeek, k)'
    <3>1. \A k \in Key : Mends(disk, log, finalSeek, k)
      BY <1>0a DEF ServingInv
    <3> QED BY <1>0b, <3>1, DiskMends DEF notIndexer
  <2>2. \A k \in Key : Agrees(mem[k], LogValue(Logged, Len(Logged), k))'
    BY <1>0a, <1>0b, MemorySame DEF notIndexer
  <2>3. \A k \in Key : Agrees(TupleValue(index[k]), LogValue(log, done, k))'
    BY <1>0a, <1>0b DEF ServingInv, Agrees, notIndexer
  <2> QED BY <1>0b, <1>0c, <1>0d, <2>1, <2>2, <2>3 DEF ServingInv
<1>5. FreshInv'
  BY <1>0a, <1>0b DEF FreshInv, notIndexer
<1> QED BY <1>1, <1>2, <1>3, <1>4, <1>5

\* Steps that cannot happen in these configurations.
LEMMA ExcludedSteps ==
  ASSUME Plain, TypeInv, RecoveryInv
  PROVE  /\ ~IndexerAdd /\ ~IndexerClose /\ ~IndexerFormatError
         /\ ~Stop /\ ~Corrupt /\ ~waitIndexerFinish /\ ~ShutdownEnd /\ ~Checkpointer
<1>1. ~IndexerAdd /\ ~IndexerClose /\ ~waitIndexerFinish /\ ~ShutdownEnd
  BY DEF RecoveryInv, PlainInv, ServingInv, IndexerAdd, IndexerClose, InIndexer, waitIndexerFinish, ShutdownEnd, Up
<1>2. ~IndexerFormatError
  BY DEF TypeInv, TypeOK, RecoveryInv, PlainInv, ServingInv, IndexerFormatError, InIndexer, Up
<1>3. ~Stop /\ ~Corrupt
  BY DEF Plain, RecoveryInv, PlainInv, Stop, Corrupt, Outage
<1>4. ~Checkpointer
  BY DEF Plain, RecoveryInv, PlainInv, Checkpointer, CheckpointBegin, CheckpointKey, CheckpointEnd,
    CheckpointFopen, CheckpointFwrite
<1> QED BY <1>1, <1>2, <1>3, <1>4

\* Starting the Indexer at the position of finalLogSeek.dat keeps the invariant.
LEMMA StartKeeps ==
  ASSUME Plain, TypeInv, RecoveryInv, IndexerStart
  PROVE  RecoveryInv'
<1>0. /\ PlainLog /\ log \in Seq(LogRecord) /\ Len(log) \in Nat
      /\ 0 <= SeekPos /\ SeekPos <= Len(log)
  BY LogFacts
<1> USE <1>0 DEF RecoveryInv
<1>0a. phase = "serving" /\ pc = "created" /\ indexFile
  BY DEF IndexerStart, InIndexer, PlainInv, Up
<1>0b. finalSeek \in 0..Len(log) /\ done = finalSeek
  BY <1>0a, ServingFacts DEF ServingInv
<1>0c. /\ UNCHANGED <<log, index, disk, seeks, process, ckpt>> /\ indexFile' /\ indexerOn' /\ pc' = "poll"
       /\ start' = finalSeek /\ seek' = finalSeek /\ done' = done
  BY <1>0a, <1>0b DEF IndexerStart, Kept
<1>1. PlainInv'
  BY <1>0c DEF PlainInv, seeks, process, Up
<1>2. SeekInv'
  BY <1>0c, SeekInvSame DEF seeks
<1>3. InitialInv'
  BY <1>0a, <1>0c DEF InitialInv, process
<1>4. ServingInv'
  <2>1. \A k \in Key : Mends(disk, log, finalSeek, k)'
    <3>1. \A k \in Key : Mends(disk, log, finalSeek, k)
      BY <1>0a DEF ServingInv
    <3> QED BY <1>0c, <3>1, DiskMends DEF seeks
  <2>2. \A k \in Key : Agrees(mem[k], LogValue(Logged, Len(Logged), k))'
    BY <1>0a, <1>0c, MemorySame DEF process
  <2>3. \A k \in Key : Agrees(TupleValue(index[k]), LogValue(log, done, k))'
    BY <1>0a, <1>0c DEF ServingInv, Agrees
  <2> QED BY <1>0b, <1>0c, <2>1, <2>2, <2>3 DEF ServingInv, seeks
<1>5. FreshInv'
  BY <1>0a, <1>0c DEF FreshInv, process
<1> QED BY <1>1, <1>2, <1>3, <1>4, <1>5

\* An Indexer that cannot open the indexed log leaves it as it is.
LEMMA OpenErrorKeeps ==
  ASSUME Plain, TypeInv, RecoveryInv, IndexerOpenError
  PROVE  RecoveryInv'
<1> USE DEF RecoveryInv
<1>1. /\ phase = "serving" /\ pc = "created" /\ pc' = "off" /\ log' = log /\ index' = index /\ disk' = disk
      /\ UNCHANGED <<indexFile, finalSeek, ckptSeek, phase, mem, writing, start, done, seek, indexerOn, ckpt>>
  BY DEF IndexerOpenError, InIndexer, indexes, seeks, process, PlainInv, Up
<1>2. PlainInv' /\ InitialInv' /\ FreshInv'
  BY <1>1 DEF PlainInv, InitialInv, FreshInv, Up
<1>3. SeekInv'
  BY <1>1, SeekInvSame
<1>4. ServingInv'
  <2>1. \A k \in Key : Mends(disk, log, finalSeek, k)'
    BY <1>1 DEF ServingInv, Mends, WrittenAfter
  <2>2. \A k \in Key : Agrees(mem[k], LogValue(Logged, Len(Logged), k))'
    BY <1>1, MemorySame
  <2>3. \A k \in Key : Agrees(TupleValue(index[k]), LogValue(log, done, k))'
    BY <1>1 DEF ServingInv, Agrees
  <2> QED BY <1>1, <2>1, <2>2, <2>3 DEF ServingInv
<1> QED BY <1>2, <1>3, <1>4

\* The value that the Indexer has parsed with a SET is that SET's own.
LEMMA ParsedValueSet ==
  ASSUME TypeOK, start \in Nat, NEW n \in Nat, start < n, n <= Len(log), log[n].cmd = "SET"
  PROVE  ParsedValue(n) = log[n].val
<1>1. log[n] \in LogRecord
  BY ElementOfSeq DEF TypeOK
<1>2. log[n].val # NoValue
  BY <1>1, RecordFields, ValueAssumption
<1> QED BY <1>2, ParsedValueHere

\* The Indexer applies the next record of its batch.
LEMMA WriteKeeps ==
  ASSUME Plain, TypeInv, RecoveryInv, IndexerWriteRecord
  PROVE  RecoveryInv'
<1>0. /\ PlainLog /\ log \in Seq(LogRecord) /\ Len(log) \in Nat
      /\ 0 <= SeekPos /\ SeekPos <= Len(log)
  BY LogFacts
<1> USE <1>0 DEF RecoveryInv
<1> DEFINE r == log[done + 1]
<1>1. /\ phase = "serving" /\ pc = "write" /\ start \in Nat /\ start <= done
      /\ done \in Nat /\ done < Len(log) /\ finalSeek \in 0..done /\ SeekPos = finalSeek
      /\ index \in IndexType
  <2>1. phase = "serving" /\ pc = "write" /\ done < seek
    BY DEF PlainInv, IndexerWriteRecord, InIndexer, Up
  <2>2. start \in Int /\ done \in Nat /\ seek \in Int /\ seek <= Len(log) /\ index \in IndexType
    BY DEF TypeInv, TypeOK, PositionsInLog
  <2>3. 0 <= start /\ start <= done
    BY <2>1 DEF ServingInv
  <2> QED BY <2>1, <2>2, <2>3, ServingFacts
<1>2. r \in LogRecord /\ r.cmd \in {"SET", "INCR", "DEL"} /\ r.key \in Key
  <2>1. r \in LogRecord /\ r.cmd \in {"SET", "INCR", "DEL"}
    BY <1>1, ElementOfSeq DEF PlainInv, PlainRecord
  <2> QED BY <2>1, RecordFields
<1>3. \E recs : index' = [index EXCEPT ![r.key] = recs] /\ Leaves(log[done + 1], TupleValue(recs))
  <2>0. index[r.key] \in Seq(IndexRecord)
    BY <1>1, <1>2 DEF IndexType
  <2>1. CASE r.cmd \in {"SET", "INCR"}
    <3> DEFINE v == ParsedValue(done + 1)
    <3>1. r.cmd = "SET" => v = r.val
      BY <1>1, <2>1, ParsedValueSet DEF TypeInv
    <3>2. index' = [index EXCEPT ![r.key] = Append(index[r.key], SetRecord(v))]
      BY <2>1 DEF IndexerWriteRecord, addRecordIndexedLog
    <3>3. v \in Int \cup {NotANumber}
      BY <1>1, ParsedValueType DEF TypeInv
    <3> HIDE DEF v
    <3>4. TupleValue(Append(index[r.key], SetRecord(v))) = v
      BY <2>0, <3>3, TupleValueSet, ZenonT(60)
    <3>5. v # NoValue
      BY <3>3, ValueAssumption
    <3>6. Leaves(r, v)
      BY <2>1, <3>1, <3>5 DEF Leaves
    <3> QED BY <3>2, <3>4, <3>6, ZenonT(60)
  <2>2. CASE r.cmd = "DEL"
    <3>1. index' = [index EXCEPT ![r.key] = <<>>]
      BY <2>2 DEF IndexerWriteRecord, delRecordIndexdLog
    <3> QED BY <2>2, <3>1, TupleValueEmpty, ZenonT(60) DEF Leaves
  <2> QED BY <1>2, <2>1, <2>2
<1>4. PICK recs : index' = [index EXCEPT ![r.key] = recs] /\ Leaves(log[done + 1], TupleValue(recs))
  BY <1>3, ZenonT(60)
<1>5. done' = done + 1 /\ pc' = "write" /\ log' = log /\ finalSeek' = finalSeek /\ disk' = disk
  BY <1>1, <1>2 DEF IndexerWriteRecord, notIndexer
<1>6. PlainInv'
  BY <1>1 DEF PlainInv, IndexerWriteRecord, notIndexer, Up
<1>7. SeekInv'
  <2>1. SeekPos' = finalSeek
    BY <1>1, <1>5 DEF SeekPos
  <2> SUFFICES ASSUME NEW k \in Key PROVE Mends(index', log, finalSeek, k)
    BY <1>5, <2>1 DEF SeekInv, Mends, WrittenAfter
  <2>2. Mends(index, log, finalSeek, k)
    BY <1>1 DEF SeekInv
  <2>3. Mends([index EXCEPT ![log[done + 1].key] = recs], log, finalSeek, k)
    BY <1>1, <2>2, ReplaceMends, ZenonT(60)
  <2> QED BY <1>4, <2>3
<1>8. InitialInv'
  BY <1>1 DEF InitialInv, IndexerWriteRecord, notIndexer
<1>9. ServingInv'
  <2>1. ASSUME NEW k \in Key PROVE Agrees(TupleValue(index'[k]), LogValue(log, done + 1, k))
    <3>1. Agrees(TupleValue(index[k]), LogValue(log, done, k))
      BY <1>1 DEF ServingInv
    <3>2. Leaves(log[done + 1], TupleValue(recs))
      BY <1>4
    <3>3. Agrees(TupleValue([index EXCEPT ![log[done + 1].key] = recs][k]), LogValue(log, done + 1, k))
      BY <1>1, <3>1, <3>2, ApplyAgrees
    <3> QED BY <1>4, <3>3
  <2>2. \A k \in Key : Mends(disk, log, finalSeek, k)'
    <3>1. \A k \in Key : Mends(disk, log, finalSeek, k)
      BY <1>1 DEF ServingInv
    <3> QED BY <1>5, <3>1, DiskMends
  <2>3. \A k \in Key : Agrees(mem[k], LogValue(Logged, Len(Logged), k))'
    BY <1>1, MemorySame DEF IndexerWriteRecord, notIndexer
  <2>4. indexerOn' /\ 0 <= start' /\ start' <= done' /\ done' <= seek' /\ finalSeek' <= done' /\ 0 <= finalSeek'
    BY <1>1, <1>5 DEF TypeInv, TypeOK, ServingInv, IndexerWriteRecord
  <2>5. \A k \in Key : Agrees(TupleValue(index[k]), LogValue(log, done, k))'
    BY <1>5, <2>1 DEF Agrees
  <2> QED BY <1>5, <2>2, <2>3, <2>4, <2>5 DEF ServingInv
<1>10. FreshInv'
  BY <1>1 DEF FreshInv, IndexerWriteRecord, notIndexer
<1> QED BY <1>6, <1>7, <1>8, <1>9, <1>10

\* The end of a batch: dbp->sync brings the pages on disk up to date, ...
LEMMA SyncKeeps ==
  ASSUME Plain, TypeInv, RecoveryInv, IndexerSync
  PROVE  RecoveryInv'
<1>0. /\ PlainLog /\ log \in Seq(LogRecord) /\ Len(log) \in Nat
      /\ 0 <= SeekPos /\ SeekPos <= Len(log)
  BY LogFacts
<1> USE <1>0 DEF RecoveryInv
<1>0a. phase = "serving" /\ pc = "write"
  BY DEF PlainInv, IndexerSync, InIndexer, Up
<1>0b. /\ indexerOn /\ 0 <= start /\ start <= done /\ done = seek /\ done \in Nat
       /\ finalSeek \in 0..done /\ SeekPos = finalSeek
  <2>1. indexerOn /\ 0 <= start /\ start <= done
    BY <1>0a DEF ServingInv
  <2>2. done = seek
    BY <2>1 DEF IndexerSync
  <2>3. finalSeek \in 0..Len(log) /\ done \in 0..Len(log) /\ finalSeek <= done /\ SeekPos = finalSeek
    BY <1>0a, ServingFacts
  <2> QED BY <2>1, <2>2, <2>3
<1>0c. /\ disk' = index /\ pc' = "fopen"
       /\ UNCHANGED <<notIndexer, index, finalSeek, indexerOn, start, done, seek>>
  BY DEF IndexerSync
<1>1. PlainInv'
  BY <1>0c DEF PlainInv, notIndexer, Up
<1>2. SeekInv'
  BY <1>0c, SeekInvSame DEF notIndexer
<1>3. InitialInv'
  BY <1>0a, <1>0c DEF InitialInv, notIndexer
<1>4. ServingInv'
  <2>1. \A k \in Key : Mends(disk, log, finalSeek, k)'
    BY <1>0b, <1>0c, DiskMends DEF SeekInv, notIndexer
  <2>2. \A k \in Key : Agrees(mem[k], LogValue(Logged, Len(Logged), k))'
    BY <1>0a, <1>0c, MemorySame DEF notIndexer
  <2>3. \A k \in Key : Agrees(TupleValue(index[k]), LogValue(log, done, k))'
    BY <1>0a, <1>0c DEF ServingInv, Agrees, notIndexer
  <2>4. /\ 0 <= finalSeek' /\ finalSeek' <= done'
        /\ indexerOn' /\ 0 <= start' /\ start' <= done' /\ done' <= seek' /\ done' = seek' /\ disk' = index'
    BY <1>0b, <1>0c
  <2> QED BY <1>0a, <1>0c, <2>1, <2>2, <2>3, <2>4 DEF ServingInv
<1>5. FreshInv'
  BY <1>0a, <1>0c DEF FreshInv, notIndexer
<1> QED BY <1>1, <1>2, <1>3, <1>4, <1>5

\* ... the position file is emptied, ...
LEMMA FopenKeeps ==
  ASSUME Plain, TypeInv, RecoveryInv, IndexerFopen
  PROVE  RecoveryInv'
<1>0. /\ PlainLog /\ log \in Seq(LogRecord) /\ Len(log) \in Nat
      /\ 0 <= SeekPos /\ SeekPos <= Len(log)
  BY LogFacts
<1> USE <1>0 DEF RecoveryInv
<1>0a. phase = "serving" /\ pc = "fopen"
  BY DEF PlainInv, IndexerFopen, InIndexer, Up
<1>0b. finalSeek \in 0..Len(log) /\ SeekPos = finalSeek /\ done \in Nat
  BY <1>0a, ServingFacts
<1>0c. /\ finalSeek' = 0 /\ pc' = "fwrite"
       /\ UNCHANGED <<notIndexer, index, disk, indexerOn, start, done, seek>>
  BY DEF IndexerFopen
<1>1. PlainInv'
  BY <1>0a, <1>0c DEF PlainInv, notIndexer, Missing, Up
<1>2. SeekInv'
  <2>1. \A k \in Key : Mends(index, log, 0, k)
    BY <1>0b, MendsEarlier DEF SeekInv
  <2>2. SeekPos' = 0
    BY <1>0c DEF SeekPos
  <2> QED BY <1>0c, <2>1, <2>2, IndexMends DEF notIndexer
<1>3. InitialInv'
  BY <1>0a, <1>0c DEF InitialInv, notIndexer
<1>4. ServingInv'
  <2>1. \A k \in Key : Mends(disk, log, 0, k)
    <3>1. \A k \in Key : Mends(disk, log, finalSeek, k)
      BY <1>0a DEF ServingInv
    <3> QED BY <1>0b, <3>1, MendsEarlier
  <2>2. \A k \in Key : Mends(disk, log, finalSeek, k)'
    BY <1>0c, <2>1, DiskMends DEF notIndexer
  <2>3. \A k \in Key : Agrees(mem[k], LogValue(Logged, Len(Logged), k))'
    BY <1>0a, <1>0c, MemorySame DEF notIndexer
  <2>4. \A k \in Key : Agrees(TupleValue(index[k]), LogValue(log, done, k))'
    BY <1>0a, <1>0c DEF ServingInv, Agrees, notIndexer
  <2>5. /\ 0 <= finalSeek' /\ finalSeek' <= done'
        /\ indexerOn' /\ 0 <= start' /\ start' <= done' /\ done' <= seek' /\ done' = seek' /\ disk' = index'
    BY <1>0a, <1>0b, <1>0c DEF ServingInv
  <2> QED BY <1>0c, <2>2, <2>3, <2>4, <2>5 DEF ServingInv
<1>5. FreshInv'
  BY <1>0a, <1>0c DEF FreshInv, notIndexer
<1> QED BY <1>1, <1>2, <1>3, <1>4, <1>5

\* ... and the position is written.
LEMMA FwriteKeeps ==
  ASSUME Plain, TypeInv, RecoveryInv, IndexerFwrite
  PROVE  RecoveryInv'
<1>0. /\ PlainLog /\ log \in Seq(LogRecord) /\ Len(log) \in Nat
      /\ 0 <= SeekPos /\ SeekPos <= Len(log)
  BY LogFacts
<1> USE <1>0 DEF RecoveryInv
<1>0a. phase = "serving" /\ pc = "fwrite"
  BY DEF PlainInv, IndexerFwrite, InIndexer, Up
<1>0b. /\ done = seek /\ disk = index /\ done \in 0..Len(log)
       /\ indexerOn /\ 0 <= start /\ start <= done
       /\ \A k \in Key : Agrees(TupleValue(index[k]), LogValue(log, done, k))
  BY <1>0a, ServingFacts DEF ServingInv
<1>0c. /\ finalSeek' = done /\ pc' = "poll"
       /\ UNCHANGED <<notIndexer, index, disk, indexerOn, start, done, seek>>
  BY <1>0b DEF IndexerFwrite
<1>0d. \A k \in Key : Mends(index, log, done, k)
  BY <1>0b DEF Mends
<1>1. PlainInv'
  <2>1. finalSeek' >= Missing
    BY <1>0b, <1>0c DEF Missing
  <2> QED BY <1>0a, <1>0c, <2>1 DEF PlainInv, notIndexer, Up
<1>2. SeekInv'
  <2>1. SeekPos' = done
    BY <1>0b, <1>0c DEF SeekPos, Missing
  <2> QED BY <1>0c, <1>0d, <2>1, IndexMends DEF notIndexer
<1>3. InitialInv'
  BY <1>0a, <1>0c DEF InitialInv, notIndexer
<1>4. ServingInv'
  <2>1. \A k \in Key : Mends(disk, log, finalSeek, k)'
    BY <1>0b, <1>0c, <1>0d, DiskMends DEF notIndexer
  <2>2. \A k \in Key : Agrees(mem[k], LogValue(Logged, Len(Logged), k))'
    BY <1>0a, <1>0c, MemorySame DEF notIndexer
  <2>3. \A k \in Key : Agrees(TupleValue(index[k]), LogValue(log, done, k))'
    BY <1>0b, <1>0c DEF Agrees, notIndexer
  <2>4. /\ 0 <= finalSeek' /\ finalSeek' <= done'
        /\ indexerOn' /\ 0 <= start' /\ start' <= done' /\ done' <= seek'
    BY <1>0b, <1>0c
  <2> QED BY <1>0c, <2>1, <2>2, <2>3, <2>4 DEF ServingInv
<1>5. FreshInv'
  BY <1>0a, <1>0c DEF FreshInv, notIndexer
<1> QED BY <1>1, <1>2, <1>3, <1>4, <1>5

===============================================================================
