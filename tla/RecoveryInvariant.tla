-------------------------- MODULE RecoveryInvariant ---------------------------
(***************************************************************************)
(* The invariant from which it follows that recovery is exact, lemmas about*)
(* repairable indexed logs, and that commands and outages keep the         *)
(* invariant.                                                              *)
(***************************************************************************)
EXTENDS IndexerProofs

\* The time that a leaf may take.
USE SMTT(60), ZenonT(60)

\* The configurations in which the claims are made, with a replica or without.
\* Each clause excludes a part of the code for which a run of the model shows that
\* they are false.
Plain ==
  /\ Outages \subseteq {"kill", "power", "ioerror"}
  /\ ~Checkpointing

\* Without INCR recovery is exact; with it the Indexer writes wrong values, but
\* still a record where one is due.
NoIncr == "INCR" \notin Commands

\* What recovery makes of a value: the same one without INCR, and no key lost or
\* brought back in any case.
Agrees(u, v) == (u = NoValue <=> v = NoValue) /\ (NoIncr => u = v)

-------------------------------------------------------------------------------
(* The inductive invariant. *)

\* Where an initial indexing that started now would start.
SeekPos == IF finalSeek = Missing THEN 0 ELSE finalSeek

\* The records that the configuration allows.
PlainRecord(r) == r.cmd \in {"SET", "INCR", "DEL"} /\ (NoIncr => r.cmd # "INCR")

\* What the configuration leaves unused.
PlainInv ==
  /\ \A i \in 1..Len(log) : PlainRecord(log[i])
  /\ writing # NoValue => PlainRecord(writing)
  /\ ckpt = NoValue
  /\ ckptSeek = Missing
  /\ finalSeek >= Missing
  /\ phase \in {"down", "initial", "serving", "exited"}
  /\ indexFile \/ (phase = "down" /\ finalSeek = Missing)
  /\ Up \/ writing = NoValue

\* Without a position file no record has been written, and a replica is empty.
FreshInv ==
  finalSeek = Missing /\ phase # "serving" =>
    EmptyLog /\ index = EmptyIndex /\ replica \in {NoValue, EmptyIndex}

\* Some record of the log l after position n writes k.
WrittenAfter(l, n, k) == \E i \in n + 1 .. Len(l) : l[i].key = k

\* Indexing the records of l after n on top of x yields what l says of k.
Mends(x, l, n, k) == Agrees(TupleValue(x[k]), LogValue(l, n, k)) \/ WrittenAfter(l, n, k)

\* The indexed log can be repaired from the position file, at every moment.
SeekInv == \A k \in Key : Mends(index, log, SeekPos, k)

\* The last steps of the initial indexing: the indexed log is closed.
AfterClose == {"replicaFopen", "replicaFwrite", "replicaClose", "serve"}

\* During the initial indexing it can be repaired from where the thread is; while
\* a record is applied to the replica, from the next one.
InitialInv ==
  phase = "initial" =>
    /\ 0 <= start
    /\ SeekPos <= done
    /\ \A k \in Key : Mends(index, log, done, k)
    /\ pc \in {"write", "add", "replicaDel", "replicaAdd", "fopen", "fwrite", "close"} \cup AfterClose
    /\ pc = "add" => log[done + 1].cmd = "SET"
    /\ pc \in {"replicaDel", "replicaAdd"} => \A k \in Key : Mends(index, log, done + 1, k)
    /\ pc \in {"fopen", "fwrite", "close"} \cup AfterClose => done = Len(log)
    /\ pc \in {"close"} \cup AfterClose => finalSeek = done
    /\ pc \in AfterClose => disk = index

\* While serving it agrees with the log at where the Indexer is, and the position
\* file is behind that; the pages on disk can be repaired from the position file.
ServingInv ==
  phase = "serving" =>
    /\ 0 <= finalSeek /\ finalSeek <= done
    /\ \A k \in Key : Agrees(TupleValue(index[k]), LogValue(log, done, k))
    /\ \A k \in Key : Mends(disk, log, finalSeek, k)
    /\ \A k \in Key : Agrees(mem[k], LogValue(Logged, Len(Logged), k))
    /\ pc \in {"off", "created", "poll", "parse", "write", "fopen", "fwrite"}
    /\ pc \in {"off", "created"} => done = finalSeek
    /\ pc \notin {"off", "created"} => indexerOn /\ 0 <= start /\ start <= done /\ done <= seek
    /\ pc \in {"fopen", "fwrite"} => done = seek /\ disk = index

RecoveryInv == PlainInv /\ FreshInv /\ SeekInv /\ InitialInv /\ ServingInv

-------------------------------------------------------------------------------
(* Repairing. *)

\* A log of SETs, INCRs and DELs.
PlainLog == log \in Seq(LogRecord) /\ \A i \in 1..Len(log) : PlainRecord(log[i])

\* What can be repaired from a position can be repaired from an earlier one.
LEMMA MendsEarlier ==
  ASSUME PlainLog, NEW x, NEW k, NEW n \in 0..Len(log), NEW m \in 0..n, Mends(x, log, n, k)
  PROVE  Mends(x, log, m, k)
<1>0. log \in Seq(LogRecord) /\ Len(log) \in Nat
  BY DEF PlainLog
<1> SUFFICES ASSUME ~WrittenAfter(log, m, k) PROVE Agrees(TupleValue(x[k]), LogValue(log, m, k))
  BY DEF Mends
<1>1. \A i \in m + 1 .. Len(log) : log[i].key # k
  BY DEF WrittenAfter
<1>2. ~WrittenAfter(log, n, k)
  BY <1>0, <1>1 DEF WrittenAfter
<1>3. Agrees(TupleValue(x[k]), LogValue(log, n, k))
  BY <1>2 DEF Mends
<1>4. LogValue(log, n, k) = LogValue(log, m, k)
  <2>1. m \in 0..Len(log) /\ n \in m..Len(log)
    BY <1>0
  <2>2. \A i \in m + 1 .. n : ~(log[i].key = k /\ log[i].cmd \in {"SET", "INCR", "DEL"})
    BY <1>0, <1>1
  <2> QED BY <1>0, <2>1, <2>2, LogValueSkip
<1> QED BY <1>3, <1>4

\* At the end of the log there is nothing left to repair.
LEMMA MendsAtEnd ==
  ASSUME PlainLog, NEW x, NEW k, Mends(x, log, Len(log), k)
  PROVE  Agrees(TupleValue(x[k]), LogValue(log, Len(log), k))
BY DEF Mends, WrittenAfter, PlainLog

\* Replacing the records of the key of record n + 1 leaves an indexed log
\* repairable from every position up to n.
LEMMA ReplaceMends ==
  ASSUME PlainLog, NEW x \in IndexType, NEW n \in Nat, n < Len(log), NEW m \in 0..n, NEW recs,
         NEW k \in Key, Mends(x, log, m, k)
  PROVE  Mends([x EXCEPT ![log[n + 1].key] = recs], log, m, k)
<1>0. Len(log) \in Nat
  BY DEF PlainLog
<1>1. CASE log[n + 1].key = k
  <2>1. n + 1 \in m + 1 .. Len(log)
    BY <1>0
  <2>2. WrittenAfter(log, m, k)
    BY <1>1, <2>1 DEF WrittenAfter
  <2> QED BY <2>2 DEF Mends
<1>2. CASE log[n + 1].key # k
  BY <1>2 DEF Mends, IndexType
<1> QED BY <1>1, <1>2

\* v is a value that the record r may leave its key with.
Leaves(r, v) ==
  /\ r.cmd = "SET" => v = r.val
  /\ r.cmd = "DEL" => v = NoValue
  /\ r.cmd = "INCR" => v # NoValue

\* Any two such values agree.
LEMMA LeavesAgree ==
  ASSUME NEW r \in LogRecord, PlainRecord(r), NEW u, NEW v, Leaves(r, u), Leaves(r, v)
  PROVE  Agrees(u, v)
BY DEF PlainRecord, Leaves, Agrees

\* Applying record n + 1 moves an indexed log, exact or repairable, from n to n + 1.
LEMMA ApplyRecord ==
  ASSUME PlainLog, NEW x \in IndexType, NEW n \in Nat, n < Len(log), NEW recs,
         Leaves(log[n + 1], TupleValue(recs)), NEW k \in Key
  PROVE  LET y == [x EXCEPT ![log[n + 1].key] = recs]
         IN  /\ Agrees(TupleValue(x[k]), LogValue(log, n, k)) => Agrees(TupleValue(y[k]), LogValue(log, n + 1, k))
             /\ Mends(x, log, n, k) => Mends(y, log, n + 1, k)
<1> DEFINE y == [x EXCEPT ![log[n + 1].key] = recs]
<1>0. /\ log \in Seq(LogRecord) /\ Len(log) \in Nat
      /\ n \in 0..Len(log) /\ n + 1 \in n..Len(log) /\ n + 1 \in 1..Len(log)
  BY DEF PlainLog
<1>0a. log[n + 1] \in LogRecord /\ PlainRecord(log[n + 1])
  BY <1>0, ElementOfSeq DEF PlainLog
<1>1. CASE log[n + 1].key = k
  <2>1. y[k] = recs
    BY <1>1 DEF IndexType
  <2>2. Leaves(log[n + 1], LogValue(log, n + 1, k))
    BY <1>0, <1>1, LogValueHere DEF Leaves
  <2> HIDE DEF y
  <2>3. Agrees(TupleValue(y[k]), LogValue(log, n + 1, k))
    BY <1>0a, <2>1, <2>2, LeavesAgree
  <2>4. Mends(y, log, n + 1, k)
    BY <2>3 DEF Mends
  <2> QED BY <2>3, <2>4 DEF y
<1>2. CASE log[n + 1].key # k
  <2>1. y[k] = x[k]
    BY <1>2 DEF IndexType
  <2>2. \A i \in n + 1 .. n + 1 : ~(log[i].key = k /\ log[i].cmd \in {"SET", "INCR", "DEL"})
    BY <1>2
  <2>3. LogValue(log, n + 1, k) = LogValue(log, n, k)
    BY <1>0, <2>2, LogValueSkip
  <2>4. WrittenAfter(log, n, k) => WrittenAfter(log, n + 1, k)
    BY <1>0, <1>2 DEF WrittenAfter
  <2> HIDE DEF y
  <2>5. Mends(x, log, n, k) => Mends(y, log, n + 1, k)
    BY <2>1, <2>3, <2>4 DEF Mends
  <2> QED BY <2>1, <2>3, <2>5 DEF y
<1> QED BY <1>1, <1>2

\* Applying record n + 1 to an indexed log that agrees with the log at n makes it
\* agree with it at n + 1.
LEMMA ApplyAgrees ==
  ASSUME PlainLog, NEW x \in IndexType, NEW n \in Nat, n < Len(log), NEW recs,
         Leaves(log[n + 1], TupleValue(recs)), NEW k \in Key, Agrees(TupleValue(x[k]), LogValue(log, n, k))
  PROVE  Agrees(TupleValue([x EXCEPT ![log[n + 1].key] = recs][k]), LogValue(log, n + 1, k))
BY ApplyRecord, ZenonT(60)

-------------------------------------------------------------------------------
(* What the invariant says, and the steps that leave parts of it alone. *)

\* What the invariants say of the sequential log and of the position file.
LEMMA LogFacts ==
  ASSUME TypeInv, RecoveryInv
  PROVE  /\ PlainLog /\ log \in Seq(LogRecord) /\ Len(log) \in Nat
         /\ 0 <= SeekPos /\ SeekPos <= Len(log)
<1>1. log \in Seq(LogRecord) /\ finalSeek \in Int /\ finalSeek <= Len(log)
  BY DEF TypeInv, TypeOK, PositionsInLog
<1>2. finalSeek >= -1 /\ \A i \in 1..Len(log) : PlainRecord(log[i])
  BY DEF RecoveryInv, PlainInv, Missing
<1> QED BY <1>1, <1>2 DEF PlainLog, SeekPos, Missing

\* What they say of the positions while serving.
LEMMA ServingFacts ==
  ASSUME TypeInv, RecoveryInv, phase = "serving"
  PROVE  /\ finalSeek \in 0..Len(log) /\ done \in 0..Len(log) /\ finalSeek <= done
         /\ SeekPos = finalSeek
<1>1. log \in Seq(LogRecord) /\ finalSeek \in Int /\ done \in Nat /\ done <= Len(log)
  BY DEF TypeInv, TypeOK, PositionsInLog
<1>2. 0 <= finalSeek /\ finalSeek <= done
  BY DEF RecoveryInv, ServingInv
<1> QED BY <1>1, <1>2 DEF SeekPos, Missing

\* The first start has the recovery invariant.
LEMMA InitRecoveryInv == Init => RecoveryInv
<1> SUFFICES ASSUME Init PROVE RecoveryInv
  OBVIOUS
<1>1. \A k \in Key : LogValue(<<>>, 0, k) = NoValue
  BY LogValueEmpty
<1>2. \A k \in Key : TupleValue(index[k]) = NoValue
  BY TupleValueEmpty DEF Init, EmptyIndex
<1>3. SeekInv
  BY <1>1, <1>2 DEF Init, SeekInv, SeekPos, Mends, Agrees, Missing
<1>4. PlainInv /\ InitialInv /\ ServingInv
  BY DEF Init, PlainInv, InitialInv, ServingInv, Up, Missing
<1>5. FreshInv
  BY DEF Init, FreshInv, EmptyLog
<1> QED BY <1>3, <1>4, <1>5 DEF RecoveryInv

\* The repairability of the pages on disk after a step that leaves the log alone, ...
LEMMA DiskMends ==
  ASSUME NEW x, NEW n, log' = log, disk' = x, finalSeek' = n, \A k \in Key : Mends(x, log, n, k)
  PROVE  \A k \in Key : Mends(disk, log, finalSeek, k)'
BY DEF Mends, WrittenAfter

\* ... that of the indexed log, ...
LEMMA IndexMends ==
  ASSUME NEW x, NEW n, log' = log, index' = x, SeekPos' = n, \A k \in Key : Mends(x, log, n, k)
  PROVE  SeekInv'
BY DEF SeekInv, Mends, WrittenAfter

\* ... and memory after a step that is no command.
LEMMA MemorySame ==
  ASSUME ServingInv, phase = "serving", log' = log, writing' = writing, mem' = mem
  PROVE  \A k \in Key : Agrees(mem[k], LogValue(Logged, Len(Logged), k))'
BY DEF ServingInv, Logged, Agrees

\* A step that leaves the log, the indexed log and the position file alone.
LEMMA SeekInvSame ==
  ASSUME SeekInv, log' = log, index' = index, finalSeek' = finalSeek
  PROVE  SeekInv'
BY DEF SeekInv, SeekPos, Mends, WrittenAfter

-------------------------------------------------------------------------------
(* Serving. *)

\* A command: the record it appends gives its key the value that memory has.
LEMMA CommandKeeps ==
  ASSUME Plain, TypeInv, RecoveryInv, NEW cmd \in Commands, NEW key \in Key, NEW v \in SetValues, Command(cmd, key, v)
  PROVE  RecoveryInv'
<1>0. /\ PlainLog /\ log \in Seq(LogRecord) /\ Len(log) \in Nat
      /\ 0 <= SeekPos /\ SeekPos <= Len(log)
  BY LogFacts
<1> USE <1>0 DEF RecoveryInv
<1>0a. phase = "serving" /\ cmd \in {"SET", "INCR", "DEL"} /\ writing = NoValue /\ Logged = log
  <2>1. cmd \in {"SET", "INCR", "DEL"}
    BY IndexerAssumption
  <2>2. phase = "serving" /\ writing = NoValue
    BY DEF PlainInv, Command, Up
  <2> QED BY <2>1, <2>2 DEF Logged
<1>0b. /\ writing' = [cmd |-> cmd, key |-> key, val |-> IF cmd = "SET" THEN v ELSE NoValue]
       /\ writing' \in LogRecord
  BY <1>0a, IndexerAssumption DEF Command, LogRecord
<1>0c. writing' # NoValue /\ PlainRecord(writing')
  BY <1>0a, <1>0b, RecordAssumption DEF PlainRecord, NoIncr
<1>1. PlainInv'
  BY <1>0a, <1>0c DEF PlainInv, Command, indexes, seeks, thread, Up
<1>2. SeekInv'
  BY SeekInvSame DEF Command, indexes, seeks
<1>3. InitialInv'
  BY <1>0a DEF InitialInv, Command
<1>4. ServingInv'
  <2>1. ASSUME NEW k \in Key PROVE Agrees(mem[k], LogValue(Logged, Len(Logged), k))'
    <3> DEFINE u == LogValue(Append(log, writing'), Len(log) + 1, k)
    <3>1. Logged' = Append(log, writing') /\ Len(Append(log, writing')) = Len(log) + 1
      BY <1>0b, <1>0c DEF Logged, Command
    <3>2. writing'.cmd = cmd /\ writing'.key = key /\ writing'.val = IF cmd = "SET" THEN v ELSE NoValue
      BY <1>0b
    <3>3. key # k => u = LogValue(log, Len(log), k)
      BY <1>0b, <3>2, LogValueNext
    <3>4. key = k => Leaves(writing', u)
      BY <1>0b, <3>2, LogValueNext DEF Leaves
    <3>5. Agrees(mem[k], LogValue(log, Len(log), k))
      BY <1>0a DEF ServingInv
    <3>6. mem \in Database /\ Executes(cmd, key, v)
      BY DEF TypeInv, TypeOK, Command
    <3>7. key # k => mem'[k] = mem[k]
      BY <1>0a, <3>6, ZenonT(60) DEF Executes, Database
    <3>8. key = k => Leaves(writing', mem'[k])
      <4>1. CASE cmd = "SET"
        BY <3>2, <3>6, <4>1 DEF Executes, Database, Leaves
      <4>2. CASE cmd = "DEL"
        BY <3>2, <3>6, <4>2 DEF Executes, Database, Leaves
      <4>3. CASE cmd = "INCR"
        <5>1. mem[key] \in Int \cup {NoValue} /\ mem' = [mem EXCEPT ![key] = IF @ = NoValue THEN 1 ELSE @ + 1]
          BY <3>6, <4>3 DEF Executes, Database
        <5>2. mem'[key] \in Int
          BY <3>6, <5>1 DEF Database
        <5> QED BY <3>2, <4>3, <5>2, ValueAssumption DEF Leaves
      <4> QED BY <1>0a, <4>1, <4>2, <4>3
    <3> HIDE DEF u
    <3>9. Agrees(mem'[k], u)
      BY <1>0b, <1>0c, <3>3, <3>4, <3>5, <3>7, <3>8, LeavesAgree
    <3> QED BY <3>1, <3>9 DEF u, Agrees
  <2>2. \A k \in Key : Mends(disk, log, finalSeek, k)'
    BY <1>0a DEF ServingInv, Mends, WrittenAfter, Command, indexes, seeks
  <2> QED BY <1>0a, <2>1, <2>2 DEF ServingInv, Command, indexes, seeks, thread
<1>5. FreshInv'
  BY <1>0a DEF FreshInv, Command
<1> QED BY <1>1, <1>2, <1>3, <1>4, <1>5

\* Appending a record keeps what can be repaired repairable.
LEMMA MendsGrow ==
  ASSUME PlainLog, NEW r \in LogRecord, NEW x, NEW n \in 0..Len(log), NEW k
  PROVE  /\ LogValue(Append(log, r), n, k) = LogValue(log, n, k)
         /\ Mends(x, log, n, k) => Mends(x, Append(log, r), n, k)
<1> DEFINE l == Append(log, r)
<1>1. LogValue(l, n, k) = LogValue(log, n, k)
  BY LogValueAppend DEF PlainLog
<1>2. Len(l) = Len(log) + 1 /\ Len(log) \in Nat /\ \A i \in 1..Len(log) : l[i] = log[i]
  BY DEF PlainLog
<1> HIDE DEF l
<1>3. ASSUME WrittenAfter(log, n, k) PROVE WrittenAfter(l, n, k)
  <2>1. PICK i \in n + 1 .. Len(log) : log[i].key = k
    BY <1>3 DEF WrittenAfter
  <2>2. i \in n + 1 .. Len(l) /\ l[i] = log[i]
    BY <1>2
  <2> QED BY <2>1, <2>2 DEF WrittenAfter
<1>4. Mends(x, log, n, k) => Mends(x, l, n, k)
  BY <1>1, <1>3 DEF Mends
<1> QED BY <1>1, <1>4 DEF l

\* The record reaches the sequential log.
LEMMA FlushKeeps ==
  ASSUME Plain, TypeInv, RecoveryInv, Flush
  PROVE  RecoveryInv'
<1>0. /\ PlainLog /\ log \in Seq(LogRecord) /\ Len(log) \in Nat
      /\ 0 <= SeekPos /\ SeekPos <= Len(log)
  BY LogFacts
<1> USE <1>0 DEF RecoveryInv
<1>0a. /\ phase = "serving" /\ writing \in LogRecord /\ PlainRecord(writing)
       /\ log' = Append(log, writing)
  BY DEF TypeInv, TypeOK, PlainInv, Flush, Up
<1>0b. SeekPos = finalSeek /\ finalSeek \in 0..Len(log) /\ done \in 0..Len(log)
  BY <1>0a, ServingFacts
<1>1. PlainInv'
  <2>1. \A i \in 1..Len(log') : log'[i] = writing \/ (i \in 1..Len(log) /\ log'[i] = log[i])
    BY <1>0a
  <2>2. \A i \in 1..Len(log') : PlainRecord(log'[i])
    BY <1>0a, <2>1 DEF PlainLog
  <2> QED BY <2>2 DEF PlainInv, Flush, indexes, seeks, Up
<1>2. SeekInv'
  <2> SUFFICES ASSUME NEW k \in Key PROVE Mends(index', log', SeekPos', k)
    BY DEF SeekInv
  <2>1. Mends(index, log, finalSeek, k)
    BY <1>0b DEF SeekInv
  <2>2. SeekPos' = finalSeek /\ index' = index
    BY <1>0b DEF Flush, SeekPos, indexes, seeks
  <2> QED BY <1>0a, <1>0b, <2>1, <2>2, MendsGrow
<1>3. InitialInv'
  BY <1>0a DEF InitialInv, Flush
<1>4. ServingInv'
  <2>1. ASSUME NEW k \in Key PROVE Agrees(TupleValue(index[k]), LogValue(log, done, k))'
    <3>1. Agrees(TupleValue(index[k]), LogValue(log, done, k))
      BY <1>0a DEF ServingInv
    <3>2. LogValue(log', done, k) = LogValue(log, done, k)
      BY <1>0a, <1>0b, MendsGrow
    <3>3. index' = index /\ done' = done
      BY DEF Flush, indexes, thread
    <3> QED BY <3>1, <3>2, <3>3 DEF Agrees
  <2>2. ASSUME NEW k \in Key PROVE Mends(disk', log', finalSeek', k)
    <3>1. Mends(disk, log, finalSeek, k)
      BY <1>0a DEF ServingInv
    <3>2. finalSeek' = finalSeek /\ disk' = disk
      BY DEF Flush, indexes, seeks
    <3> QED BY <1>0a, <1>0b, <3>1, <3>2, MendsGrow
  <2>3. \A k \in Key : Agrees(mem[k], LogValue(Logged, Len(Logged), k))'
    BY <1>0a DEF ServingInv, Logged, Flush, Agrees
  <2> QED BY <1>0a, <2>1, <2>2, <2>3 DEF ServingInv, Flush, indexes, seeks, thread
<1>5. FreshInv'
  BY <1>0a DEF FreshInv, Flush
<1> QED BY <1>1, <1>2, <1>3, <1>4, <1>5

-------------------------------------------------------------------------------
(* Outages. *)

\* The end of the process keeps the indexed log and the position file.
LEMMA DeathKeeps ==
  ASSUME Plain, TypeInv, RecoveryInv, ProcessDies, phase = "serving" \/ torn' = torn
  PROVE  RecoveryInv'
<1> USE DEF RecoveryInv
<1>1. phase' = "down" /\ writing' = NoValue /\ ckpt' = NoValue
  BY DEF ProcessDies, ProcessEnds
<1>2. log' = log /\ finalSeek' = finalSeek /\ ckptSeek' = ckptSeek /\ indexFile' = indexFile /\ replica' = replica
  BY DEF ProcessDies, seeks
<1>3. index' = index
  <2>1. CASE indexFile
    BY <2>1 DEF ProcessDies, Kept
  <2>2. CASE ~indexFile
    BY <2>2 DEF ProcessDies, Kept, PlainInv, FreshInv
  <2> QED BY <2>1, <2>2
<1>4. PlainInv'
  BY <1>1, <1>2 DEF PlainInv, ServingInv, Up, Missing
<1>5. FreshInv'
  <2>1. CASE phase = "serving"
    <3>1. finalSeek # Missing
      BY <2>1, ServingFacts DEF Missing
    <3> QED BY <1>2, <3>1 DEF FreshInv
  <2>2. CASE phase # "serving"
    BY <1>2, <1>3, <2>2, ZenonT(60) DEF FreshInv, EmptyLog
  <2> QED BY <2>1, <2>2
<1>6. SeekInv'
  BY <1>2, <1>3, SeekInvSame
<1>7. InitialInv' /\ ServingInv'
  BY <1>1 DEF InitialInv, ServingInv
<1> QED BY <1>4, <1>5, <1>6, <1>7

\* A kill, an error of a write of the sequential log, and an error of a read.
LEMMA KillKeeps ==
  ASSUME Plain, TypeInv, RecoveryInv, Kill \/ FlushError \/ InitialReadError \/ IndexerReadError
  PROVE  RecoveryInv'
<1>1. ProcessDies
  BY DEF Kill, FlushError, InitialReadError, IndexerReadError
<1>2. phase = "serving" \/ torn' = torn
  BY ZenonT(60) DEF Kill, FlushError, InitialReadError, IndexerReadError, RecoveryInv, PlainInv, Up
<1> QED BY <1>1, <1>2, DeathKeeps

\* A loss of power leaves the pages on disk, which the position file is not ahead of.
LEMMA PowerLossKeeps ==
  ASSUME Plain, TypeInv, RecoveryInv, PowerLoss
  PROVE  RecoveryInv'
<1>0. /\ PlainLog /\ log \in Seq(LogRecord) /\ Len(log) \in Nat
      /\ 0 <= SeekPos /\ SeekPos <= Len(log)
  BY LogFacts
<1> USE <1>0 DEF RecoveryInv
<1>0a. phase = "serving" /\ indexFile /\ phase' = "down" /\ writing' = NoValue /\ ckpt' = NoValue
  BY DEF Plain, PlainInv, PowerLoss, Outage, ProcessEnds, Up
<1>0b. /\ log' = log /\ index' = disk /\ ckptSeek' = ckptSeek /\ indexFile' = indexFile
       /\ finalSeek' \in {finalSeek, 0} /\ finalSeek \in 0..Len(log)
  <2>1. finalSeek \in 0..Len(log)
    BY <1>0a, ServingFacts
  <2>2. log' = log /\ index' = disk /\ ckptSeek' = ckptSeek /\ indexFile' = indexFile /\ finalSeek' \in {finalSeek, 0}
    BY <1>0a DEF PowerLoss, Kept, Unsynced, PlainInv
  <2> QED BY <2>1, <2>2
<1>1. PlainInv'
  BY <1>0a, <1>0b DEF PlainInv, Missing, Up
<1>2. SeekInv'
  <2>1. ASSUME NEW k \in Key PROVE Mends(disk, log, finalSeek, k) /\ Mends(disk, log, 0, k)
    <3>1. Mends(disk, log, finalSeek, k)
      BY <1>0a DEF ServingInv
    <3> QED BY <1>0b, <3>1, MendsEarlier
  <2>2. SeekPos' = finalSeek'
    BY <1>0b DEF SeekPos, Missing
  <2>3. \A k \in Key : Mends(disk, log, finalSeek', k)
    BY <1>0b, <2>1
  <2> QED BY <1>0b, <2>2, <2>3, ZenonT(60) DEF SeekInv, Mends, WrittenAfter
<1>3. InitialInv'
  BY <1>0a DEF InitialInv
<1>4. ServingInv'
  BY <1>0a DEF ServingInv
<1>5. FreshInv'
  BY <1>0b DEF FreshInv, Missing
<1> QED BY <1>1, <1>2, <1>3, <1>4, <1>5

\* A page that the cache writes is as good as the indexed log itself.
LEMMA EvictKeeps ==
  ASSUME Plain, TypeInv, RecoveryInv, NEW key \in Key, Evict(key)
  PROVE  RecoveryInv'
<1>0. /\ PlainLog /\ log \in Seq(LogRecord) /\ Len(log) \in Nat
      /\ 0 <= SeekPos /\ SeekPos <= Len(log)
  BY LogFacts
<1> USE <1>0 DEF RecoveryInv
<1>0a. /\ log' = log /\ index' = index /\ indexFile' = indexFile /\ ckpt' = ckpt
       /\ finalSeek' = finalSeek /\ ckptSeek' = ckptSeek
       /\ phase' = phase /\ mem' = mem /\ writing' = writing
       /\ pc' = pc /\ indexerOn' = indexerOn /\ start' = start /\ done' = done /\ seek' = seek
       /\ replica' = replica /\ torn' = torn
  BY DEF Evict, seeks, process, thread
<1>0b. disk' = disk \/ (disk # index /\ disk' = [disk EXCEPT ![key] = index[key]])
  BY DEF Evict
<1>1. PlainInv'
  BY <1>0a DEF PlainInv, Up
<1>2. SeekInv'
  BY <1>0a, SeekInvSame
<1>3. InitialInv'
  BY <1>0a, <1>0b, ZenonT(60) DEF InitialInv, SeekPos, Mends, WrittenAfter
<1>4. ServingInv'
  <2> SUFFICES ASSUME phase = "serving" PROVE ServingInv'
    BY <1>0a, ZenonT(60) DEF ServingInv
  <2>1. ASSUME NEW k \in Key PROVE Mends(disk, log, finalSeek, k)'
    <3>1. Mends(disk, log, finalSeek, k) /\ Mends(index, log, finalSeek, k)
      BY DEF ServingInv, SeekInv, SeekPos, Missing
    <3>2. disk'[k] \in {disk[k], index[k]}
      BY <1>0b DEF TypeInv, TypeOK, IndexType
    <3> QED BY <1>0a, <3>1, <3>2 DEF Mends, WrittenAfter
  <2>2. \A k \in Key : Agrees(mem[k], LogValue(Logged, Len(Logged), k))'
    BY <1>0a DEF ServingInv, Logged
  <2> QED BY <1>0a, <1>0b, <2>1, <2>2, ZenonT(60) DEF ServingInv
<1>5. FreshInv'
  BY <1>0a, ZenonT(60) DEF FreshInv, EmptyLog
<1> QED BY <1>1, <1>2, <1>3, <1>4, <1>5

===============================================================================
