---------------------------- MODULE RestorerProofs ----------------------------
(***************************************************************************)
(* Proofs about Restorer: types, for every choice of the constants, and    *)
(* that the restorer implements InstantStore.                              *)
(***************************************************************************)
EXTENDS Restorer, SequenceTheorems, WellFoundedInduction, NaturalsInduction, TLAPS

\* The time that a leaf may take.
USE SMTT(60), ZenonT(60)

-------------------------------------------------------------------------------
(* Types. *)

\* The sets of TypeOK that the proofs need not look into.
Databases == [Key -> Value]
LoggedRecord == [cmd : Commands, key : Key, val : Int \cup {NoValue}]
Reply == [cmd : Commands, key : Key, result : Value]
Tuple == [key : Key, val : Value]

\* TypeOK, in two parts and in terms of these sets.
ServerTypes ==
  /\ mode \in Modes /\ mem \in Databases /\ index \in Databases /\ log \in Seq(LoggedRecord)
  /\ reply \in Reply \cup {NoValue} /\ count \in 0..MaxCommands
  /\ restored \subseteq Key /\ raced \subseteq restored
  /\ performing \in BOOLEAN /\ down \in BOOLEAN /\ stop \in {"none", "main", "thread"}

ThreadTypes ==
  /\ pc \in {"start", "open", "loop", "skip", "read", "send", "wait", "mark", "marking", "clear", "index", "finish", "done"}
  /\ current \in Key \cup {NoValue} /\ held \in Tuple \cup {NoValue}
  /\ indexer \in {"none", "created", "on", "off"} /\ indexerOn \in BOOLEAN
  /\ indexed \in 0..Len(log) /\ parsed \in Int \cup {NotANumber}

\* What the loader's steps rely on: it has a key where it reads one and a tuple
\* where it restores one, and the main thread races it only while it marks.
LoaderInv ==
  /\ pc = "read" => current \in Key
  /\ pc \in {"send", "wait", "mark", "marking"} => held \in Tuple
  /\ raced # {} => pc = "marking"

TypeInv == ServerTypes /\ ThreadTypes /\ LoaderInv

\* The two parts are TypeOK.
LEMMA TypesAreTypeOK == TypeOK <=> ServerTypes /\ ThreadTypes
BY DEF TypeOK, ServerTypes, ThreadTypes, Databases, LoggedRecord, Reply, Tuple

\* A non-empty set of keys has a least element: the key that the loader's cursor
\* comes to next exists.
LEMMA MinInSet ==
  ASSUME NEW S, S \subseteq Nat, S # {}
  PROVE  Min(S) \in S /\ \A y \in S : Min(S) <= y
<1> DEFINE R == OpToRel(<, Nat)
<1>1. PICK m \in S : \A y \in S : ~(<<y, m>> \in R)
  BY NatLessThanWellFounded, WFMin
<1>2. \A x, y \in Nat : x < y => <<x, y>> \in R
  BY DEF OpToRel
<1>3. S \subseteq Nat /\ m \in S
  OBVIOUS
<1> HIDE DEF R
<1>4. \A y \in S : ~(y < m)
  BY <1>1, <1>2, <1>3, ZenonT(60)
<1>5. \A y \in S : m <= y
  BY <1>3, <1>4
<1> QED BY <1>3, <1>5, ZenonT(60) DEF Min

\* The cursor moves to a later key with records, and skips none (the DB_NEXT of
\* loadDBFromIndexedLog).
LEMMA FirstKeyNext ==
  ASSUME NEW from \in Int
  PROVE  /\ FirstKey(from) \in Key \cup {NoValue}
         /\ \A k \in Key : k > from /\ index[k] # NoValue =>
              FirstKey(from) # NoValue /\ FirstKey(from) <= k
<1> DEFINE later == {k \in Key : k > from /\ index[k] # NoValue}
<1>1. later \subseteq Nat /\ later \subseteq Key
  BY RestorerAssumption, ZenonT(60)
<1>2. NoValue \notin Key
  <2>1. NoValue \notin Int
    BY RestorerAssumption
  <2>2. Key \subseteq Int
    BY RestorerAssumption
  <2> QED BY <2>1, <2>2, ZenonT(60)
<1>3. CASE later = {}
  BY <1>3 DEF FirstKey
<1>4. CASE later # {}
  <2>1. FirstKey(from) = Min(later)
    BY <1>4 DEF FirstKey
  <2>2. Min(later) \in later /\ \A y \in later : Min(later) <= y
    <3> HIDE DEF later
    <3> QED BY <1>1, <1>4, MinInSet, ZenonT(60)
  <2> QED BY <1>1, <1>2, <2>1, <2>2
<1> QED BY <1>3, <1>4

\* The types of what a client's command computes: the database that it acts on
\* after the on-demand restore, and its effect.
LEMMA CommandTypes ==
  ASSUME mem \in Databases, index \in Databases,
         NEW cmd \in Commands, NEW k \in Key, NEW v \in SetValues,
         NEW opened \in BOOLEAN, Command(cmd, k, v, opened)
  PROVE  LoadRecord(cmd, k, opened) \in Databases /\ mem' \in Databases /\ reply' \in Reply
<1> DEFINE m == LoadRecord(cmd, k, opened)
<1>0. v \in Int /\ cmd \in {"SET", "GET", "INCR", "DEL"} /\ NoValue \notin Int /\ NotANumber \notin Int
  BY RestorerAssumption
<1>1. m \in [Key -> Value]
  BY DEF LoadRecord, SetIfAbsent, Databases
<1>2. Executes(cmd, k, v, m)
  BY DEF Command
<1> HIDE DEF m
<1>3. mem' \in [Key -> Value] /\ reply' \in Reply
  <2>1. CASE cmd = "SET"
    BY <1>0, <1>1, <1>2, <2>1 DEF Executes, Value, Reply
  <2>2. CASE cmd = "GET"
    BY <1>0, <1>1, <1>2, <2>2 DEF Executes, Value, Reply
  <2>3. CASE cmd = "INCR"
    <3>1. mem' \in [Key -> Value]
      BY <1>0, <1>1, <1>2, <2>3 DEF Executes, Value, Reply
    <3> QED BY <1>2, <2>3, <3>1 DEF Executes, Reply
  <2>4. CASE cmd = "DEL"
    BY <1>0, <1>1, <1>2, <2>4 DEF Executes, Value, Reply
  <2> QED BY <1>0, <2>1, <2>2, <2>3, <2>4
<1> QED BY <1>1, <1>3 DEF m, Databases

\* The recovery starts with the type invariant.
LEMMA InitTypeInv == Init => TypeInv
<1> SUFFICES ASSUME Init PROVE TypeInv
  OBVIOUS
<1>1. mem \in Databases /\ index \in Databases
  BY RestorerAssumption, ZenonT(60) DEF Init, Value, Databases
<1>2. performing \in BOOLEAN /\ down \in BOOLEAN /\ indexerOn \in BOOLEAN
  BY ZenonT(60) DEF Init
<1>3. log \in Seq(LoggedRecord) /\ indexed \in 0..Len(log) /\ count \in 0..MaxCommands
  BY RestorerAssumption DEF Init
<1>4. ServerTypes
  BY <1>1, <1>2, <1>3 DEF Init, ServerTypes
<1>5. ThreadTypes
  BY <1>2, <1>3 DEF Init, ThreadTypes
<1> QED BY <1>4, <1>5 DEF Init, TypeInv, LoaderInv

\* The record that a command appends.
CommandRecord(cmd, k, v) == [cmd |-> cmd, key |-> k, val |-> IF cmd = "SET" THEN v ELSE NoValue]

\* A command appends its record or nothing.
LEMMA CommandLogs ==
  ASSUME TypeInv, NEW cmd \in Commands, NEW k \in Key, NEW v \in SetValues,
         NEW opened \in BOOLEAN, Command(cmd, k, v, opened)
  PROVE  /\ log' = log \/ log' = Append(log, CommandRecord(cmd, k, v))
         /\ CommandRecord(cmd, k, v) \in LoggedRecord
         /\ CommandRecord(cmd, k, v).key = k
         /\ log' \in Seq(LoggedRecord) /\ Len(log') >= Len(log)
<1>1. log \in Seq(LoggedRecord)
  BY DEF TypeInv, ServerTypes
<1>2. CommandRecord(cmd, k, v) \in LoggedRecord /\ CommandRecord(cmd, k, v).key = k
  BY RestorerAssumption DEF CommandRecord, LoggedRecord
<1>3. log' = log \/ log' = Append(log, CommandRecord(cmd, k, v))
  BY DEF Command, CommandRecord
<1> QED BY <1>1, <1>2, <1>3

\* A client's command keeps the types.
LEMMA CommandTypeInv ==
  ASSUME TypeInv, NEW cmd \in Commands, NEW k \in Key, NEW v \in SetValues,
         NEW opened \in BOOLEAN, Command(cmd, k, v, opened)
  PROVE  TypeInv'
<1>1. mem' \in Databases /\ reply' \in Reply
  BY CommandTypes DEF TypeInv, ServerTypes
<1>2. log' \in Seq(LoggedRecord) /\ Len(log') >= Len(log) /\ Len(log) \in Nat /\ Len(log') \in Nat
  BY CommandLogs DEF TypeInv, ServerTypes
<1>3. restored' \subseteq Key /\ raced' \subseteq restored'
  BY DEF Command, TypeInv, ServerTypes
<1>4. raced' # {} => pc = "marking"
  BY DEF Command, TypeInv, LoaderInv
<1>5. count' \in 0..MaxCommands
  BY RestorerAssumption DEF Command, TypeInv, ServerTypes
<1>6. UNCHANGED <<mode, index, performing, stop, down, pc, current, held, indexer, indexerOn, indexed, parsed>>
  BY DEF Command, loader, indexing
<1>7. ServerTypes'
  BY <1>1, <1>2, <1>3, <1>5, <1>6 DEF TypeInv, ServerTypes
<1>8. ThreadTypes'
  BY <1>2, <1>6 DEF TypeInv, ThreadTypes
<1>9. LoaderInv'
  BY <1>4, <1>6 DEF TypeInv, LoaderInv
<1> QED BY <1>7, <1>8, <1>9 DEF TypeInv

\* A step of the loader, and the setIR that it sends, keep the types.
LEMMA LoaderTypeInv == TypeInv /\ (SetIR \/ Loader) => TypeInv'
<1> SUFFICES ASSUME TypeInv, SetIR \/ Loader PROVE TypeInv'
  OBVIOUS
<1>0. Key \subseteq Int /\ NoValue \notin Int
  BY RestorerAssumption
<1> USE DEF TypeInv, ServerTypes, ThreadTypes, LoaderInv, server, hash, indexing
<1>1. CASE SetIR
  <2>1. held.key \in Key /\ held.val \in Value
    BY <1>1 DEF SetIR, Tuple
  <2>2. mem' \in Databases
    BY <1>1, <2>1 DEF SetIR, SetIfAbsent, Databases
  <2> QED BY <1>1, <2>2 DEF SetIR
<1>2. CASE LoaderStart
  BY <1>2 DEF LoaderStart
<1>3. CASE LoaderOpen
  <2>1. current' = FirstKey(-1) /\ -1 \in Int
    BY <1>3 DEF LoaderOpen
  <2>2. current' \in Key \cup {NoValue}
    BY <2>1, FirstKeyNext
  <2> QED BY <1>3, <2>2 DEF LoaderOpen
<1>4. CASE LoaderLoop
  BY <1>4 DEF LoaderLoop
<1>5. CASE LoaderSkip
  <2>1. current' = current \/ (current # NoValue /\ current' = FirstKey(current))
    BY <1>5 DEF LoaderSkip
  <2>2. current' \in Key \cup {NoValue}
    BY <1>0, <2>1, FirstKeyNext
  <2> QED BY <1>5, <2>2 DEF LoaderSkip
<1>6. CASE LoaderRead
  <2>0. current \in Key /\ index \in Databases /\ current' = FirstKey(current)
    BY <1>6 DEF LoaderRead
  <2>1. current' \in Key \cup {NoValue}
    BY <1>0, <2>0, FirstKeyNext
  <2>2. held' \in Tuple
    BY <1>6, <2>0 DEF LoaderRead, Databases, Tuple
  <2> QED BY <1>6, <2>1, <2>2 DEF LoaderRead
<1>7. CASE LoaderSend
  BY <1>7 DEF LoaderSend
<1>8. CASE LoaderMark
  BY <1>8 DEF LoaderMark
<1>9. CASE LoaderMarked
  <2>1. held.key \in Key
    BY <1>9 DEF LoaderMarked, Tuple
  <2> QED BY <1>9, <2>1 DEF LoaderMarked
<1>10. CASE LoaderClear
  BY <1>10 DEF LoaderClear
<1>11. CASE LoaderIndex
  BY <1>11 DEF LoaderIndex
<1>12. CASE LoaderFinish
  BY <1>12, ZenonT(60) DEF LoaderFinish
<1> QED BY <1>1, <1>2, <1>3, <1>4, <1>5, <1>6, <1>7, <1>8, <1>9, <1>10, <1>11, <1>12, ZenonT(60) DEF Loader

\* What a record of the sequential log makes of the indexed log, and of the
\* Indexer's variable "value", has the types of both.
LEMMA IndexerRecordTypes ==
  ASSUME TypeInv, IndexerRecord
  PROVE  /\ indexed + 1 \in DOMAIN log
         /\ log[indexed + 1].key \in Key
         /\ index' \in Databases
         /\ parsed' \in Int \cup {NotANumber}
         /\ indexed' \in 0..Len(log)
<1> DEFINE r == log[indexed + 1]
           v == IF r.val = NoValue THEN parsed ELSE r.val
<1>0. /\ log \in Seq(LoggedRecord) /\ Len(log) \in Nat /\ index \in Databases /\ indexed \in 0..Len(log)
      /\ parsed \in Int \cup {NotANumber}
  BY DEF TypeInv, ServerTypes, ThreadTypes
<1>1. indexed < Len(log) /\ indexed' = indexed + 1
  BY DEF IndexerRecord
<1>2. indexed' \in 0..Len(log) /\ indexed + 1 \in 1..Len(log) /\ indexed + 1 \in DOMAIN log
  BY <1>0, <1>1
<1>3. r \in LoggedRecord
  BY <1>0, <1>2, ElementOfSeq
<1>4. parsed' = v /\ index' = [index EXCEPT ![r.key] = IndexedValue(r, @, v)]
  BY DEF IndexerRecord
<1> HIDE DEF r
<1>5. r.cmd \in Commands /\ r.key \in Key /\ r.val \in Int \cup {NoValue}
  BY <1>3 DEF LoggedRecord
<1>6. v \in Int \cup {NotANumber}
  BY <1>0, <1>5
<1> HIDE DEF v
<1>7. index[r.key] \in Value
  BY <1>0, <1>5 DEF Databases
<1>8. IndexedValue(r, index[r.key], v) \in Value
  BY <1>5, <1>6, <1>7 DEF IndexedValue, Value
<1>9. index' \in Databases
  BY <1>0, <1>4, <1>5, <1>8 DEF Databases
<1> QED BY <1>2, <1>4, <1>5, <1>6, <1>9 DEF r

\* A step of the Indexer, a stop and the exit keep the types.
LEMMA OthersTypeInv ==
  TypeInv /\ (Indexer \/ (\E who \in Stops : Stop(who)) \/ Exit) => TypeInv'
<1> SUFFICES ASSUME TypeInv, Indexer \/ (\E who \in Stops : Stop(who)) \/ Exit PROVE TypeInv'
  OBVIOUS
<1> USE DEF TypeInv, ServerTypes, ThreadTypes, LoaderInv, server, hash, loader, indexing
<1>1. CASE IndexerStart
  BY <1>1 DEF IndexerStart
<1>2. CASE IndexerRecord
  <2>1. /\ index' \in Databases /\ parsed' \in Int \cup {NotANumber}
        /\ indexed' \in 0..Len(log)
    BY <1>2, IndexerRecordTypes
  <2>2. UNCHANGED <<mode, mem, log, reply, count, restored, raced, performing, stop, down,
                    pc, current, held, indexer, indexerOn>>
    BY <1>2 DEF IndexerRecord
  <2> QED BY <2>1, <2>2
<1>3. CASE IndexerStop
  BY <1>3 DEF IndexerStop
<1>4. CASE \E who \in Stops : Stop(who)
  <2> PICK who \in Stops : Stop(who)
    BY <1>4
  <2>1. stop' \in {"none", "main", "thread"}
    BY RestorerAssumption DEF Stop
  <2>2. UNCHANGED <<mode, mem, index, log, reply, count, restored, raced, performing, down,
                    pc, current, held, indexer, indexed, parsed>> /\ indexerOn' \in BOOLEAN
    BY ZenonT(60) DEF Stop
  <2> QED BY <2>1, <2>2
<1>5. CASE Exit
  BY <1>5 DEF Exit
<1> QED BY <1>1, <1>2, <1>3, <1>4, <1>5 DEF Indexer

\* Every step keeps the type invariant.
LEMMA NextTypeInv ==
  ASSUME TypeInv, [Next]_vars
  PROVE  TypeInv'
<1>1. CASE UNCHANGED vars
  BY <1>1 DEF vars, server, hash, loader, indexing, TypeInv, ServerTypes, ThreadTypes, LoaderInv
<1>2. CASE Next
  BY <1>2, CommandTypeInv, LoaderTypeInv, OthersTypeInv DEF Next
<1> QED BY <1>1, <1>2

\* Whatever the commands, the mode of indexing, the stops and their interleaving,
\* the threads' variables keep their types: in particular the loader always has a
\* key where it reads the records of one and a tuple where it restores one
\* (loadDBFromIndexedLog, addRestoredTuple).
THEOREM RestorerTypeCorrect == Spec => []TypeOK
<1>1. Init => TypeInv
  BY InitTypeInv
<1>2. TypeInv /\ [Next]_vars => TypeInv'
  BY NextTypeInv
<1>3. TypeInv => TypeOK
  BY TypesAreTypeOK DEF TypeInv
<1> QED BY <1>1, <1>2, <1>3, PTL DEF Spec

-------------------------------------------------------------------------------
(* The restorer implements the store. *)

\* The configurations in which the claim is made: the loader thread runs before
\* the first command, the indexed log opens for every on-demand restore, no DEL
\* during the recovery, and no programmed restart during it.  Each clause excludes
\* a part of the code for which TLC shows a reply that the store would not give.
Instant == LoaderFirst /\ ~OpenFails /\ "DEL" \notin Commands /\ Stops \subseteq {"main"}

\* Nothing is left to restore for k.
Complete(k) == mem[k] # NoValue \/ index[k] = NoValue

\* The loader's cursor has passed k.
Passed(k) == current = NoValue \/ k < current

\* A key that is logged is in memory, so that what the Indexer does to its records
\* is not seen; a marked key is complete; the tuple that the loader holds is that of
\* the indexed log unless the main thread was faster.
TupleInv ==
  /\ \A i \in DOMAIN log : mem[log[i].key] # NoValue
  /\ \A k \in restored : Complete(k)
  /\ pc \in {"send", "wait"} => mem[held.key] # NoValue \/ held.val = index[held.key]

\* The loader leaves complete what it passes, but for the tuple that it holds; it
\* ends with every key complete, unless the server stops.
PassedInv ==
  /\ pc \in {"loop", "skip", "read", "mark", "marking"} => \A k \in Key : Passed(k) => Complete(k)
  /\ pc \in {"send", "wait"} => \A k \in Key : Passed(k) => Complete(k) \/ k = held.key
  /\ pc \in {"mark", "marking"} => Complete(held.key)
  /\ pc \in {"clear", "index", "finish", "done"} => stop = "main" \/ \A k \in Key : Complete(k)

\* Commands are restored on demand between the start of the loader and its end.
PerformingInv ==
  /\ stop \in {"none", "main"}
  /\ performing <=> pc \notin {"start", "done"}

StoreInv == TupleInv /\ PassedInv /\ PerformingInv

\* Memory only gains keys, and the indexed log only changes for keys in memory.
Gains ==
  /\ \A k \in Key : mem[k] # NoValue => mem'[k] # NoValue
  /\ \A k \in Key : index'[k] = index[k] \/ mem[k] # NoValue

\* The records of the sequential log are of keys.
LEMMA LoggedKeys ==
  ASSUME TypeInv
  PROVE  \A i \in DOMAIN log : log[i].key \in Key
<1>1. log \in Seq(LoggedRecord)
  BY DEF TypeInv, ServerTypes
<1>2. \A i \in DOMAIN log : log[i] \in LoggedRecord
  BY <1>1, ElementOfSeq
<1> QED BY <1>2 DEF LoggedRecord

\* What is complete stays complete, and the tuple that the loader holds good.
LEMMA CompleteStays ==
  ASSUME TypeInv, Gains
  PROVE  /\ \A k \in Key : Complete(k) => Complete(k)'
         /\ pc \in {"send", "wait", "mark", "marking"} => held.key \in Key
         /\ pc \in {"send", "wait"} /\ (mem[held.key] # NoValue \/ held.val = index[held.key]) =>
              mem'[held.key] # NoValue \/ held.val = index'[held.key]
<1>1. pc \in {"send", "wait", "mark", "marking"} => held.key \in Key
  BY DEF TypeInv, LoaderInv, Tuple
<1> QED BY <1>1 DEF Gains, Complete

\* A step of the main thread, of the Indexer or of a stop leaves the loader alone.
LEMMA OutsideKeeps ==
  ASSUME TypeInv, StoreInv, Gains, UNCHANGED <<loader, performing>>,
         stop' \in {stop, "main"},
         \A k \in restored' : k \in restored \/ Complete(k)',
         \A i \in DOMAIN log' : (i \in DOMAIN log /\ log'[i] = log[i]) \/ mem'[log'[i].key] # NoValue
  PROVE  StoreInv'
<1>1. /\ \A k \in Key : Complete(k) => Complete(k)'
      /\ held' = held /\ pc' = pc /\ current' = current /\ performing' = performing
  BY CompleteStays DEF loader
<1>2. restored \subseteq Key /\ \A i \in DOMAIN log : log[i].key \in Key
  BY LoggedKeys DEF TypeInv, ServerTypes
<1>3. TupleInv'
  <2>1. \A i \in DOMAIN log' : mem'[log'[i].key] # NoValue
    BY <1>2 DEF Gains, StoreInv, TupleInv
  <2>2. \A k \in restored' : Complete(k)'
    BY <1>1, <1>2 DEF StoreInv, TupleInv
  <2>3. pc' \in {"send", "wait"} => mem'[held'.key] # NoValue \/ held'.val = index'[held'.key]
    BY <1>1, CompleteStays DEF StoreInv, TupleInv
  <2> QED BY <2>1, <2>2, <2>3 DEF TupleInv
<1>4. PassedInv'
  <2>1. \A k \in Key : Passed(k)' <=> Passed(k)
    BY <1>1 DEF Passed
  <2>2. pc \in {"mark", "marking"} => held.key \in Key
    BY CompleteStays
  <2> QED BY <1>1, <2>1, <2>2 DEF StoreInv, PassedInv
<1>5. PerformingInv'
  <2>1. stop' \in {"none", "main"}
    BY DEF StoreInv, PerformingInv
  <2>2. performing <=> pc \notin {"start", "done"}
    BY DEF StoreInv, PerformingInv
  <2>3. performing' <=> pc' \notin {"start", "done"}
    BY <1>1, <2>2, ZenonT(60)
  <2> QED BY <2>1, <2>3 DEF PerformingInv
<1> QED BY <1>3, <1>4, <1>5 DEF StoreInv

\* A client's command acts on the value of its key in the whole database, and on
\* no other key (the on-demand restore of call).
LEMMA ActsOnDatabase ==
  ASSUME Instant, TypeInv, StoreInv,
         NEW cmd \in Commands, NEW k \in Key, NEW v \in SetValues,
         NEW opened \in BOOLEAN, Command(cmd, k, v, opened)
  PROVE  /\ LoadRecord(cmd, k, opened)[k] = Database[k]
         /\ \A j \in Key \ {k} : LoadRecord(cmd, k, opened)[j] = mem[j]
         /\ mem[k] # NoValue => Database[k] # NoValue
         /\ Database[k] = NoValue => index[k] = NoValue
<1>1. mem \in [Key -> Value] /\ cmd \in {"SET", "GET", "INCR"}
  BY RestorerAssumption DEF TypeInv, ServerTypes, Databases, Instant
<1>2. Database[k] = IF mem[k] # NoValue THEN mem[k] ELSE index[k]
  BY DEF Database
<1>0. Loads(cmd, k, opened) <=> OnDemand(cmd, k)
  BY ZenonT(60) DEF Command, Instant, Loads
<1>3. CASE OnDemand(cmd, k)
  BY <1>0, <1>1, <1>2, <1>3 DEF LoadRecord, SetIfAbsent
<1>4. CASE ~OnDemand(cmd, k)
  <2>1. Complete(k)
    <3>1. CASE performing
      BY <1>1, <1>4, <3>1 DEF OnDemand, StoreInv, TupleInv
    <3>2. CASE ~performing
      <4>1. pc = "done" /\ stop = "none"
        BY <3>2 DEF StoreInv, PerformingInv, Command, Instant, Serving
      <4> QED BY <4>1 DEF StoreInv, PassedInv
    <3> QED BY <3>1, <3>2
  <2> QED BY <1>0, <1>1, <1>2, <1>4, <2>1 DEF Complete, LoadRecord
<1> QED BY <1>3, <1>4

\* The value that a command gives to its key, and its reply, from the value in the
\* whole database.
LEMMA CommandEffect ==
  ASSUME Instant, TypeInv, StoreInv,
         NEW cmd \in Commands, NEW k \in Key, NEW v \in SetValues,
         NEW opened \in BOOLEAN, Command(cmd, k, v, opened)
  PROVE  /\ \A j \in Key \ {k} : mem'[j] = mem[j]
         /\ cmd = "SET" => mem'[k] = v
         /\ cmd = "GET" => mem'[k] = Database[k]
         /\ cmd = "INCR" => mem'[k] = IF Database[k] = NotANumber THEN Database[k]
                                      ELSE IF Database[k] = NoValue THEN 1 ELSE Database[k] + 1
         /\ reply' = [cmd |-> cmd, key |-> k, result |-> mem'[k]]
         /\ cmd \in {"SET", "GET", "INCR"}
<1> DEFINE m == LoadRecord(cmd, k, opened)
<1>1. m \in [Key -> Value] /\ cmd \in {"SET", "GET", "INCR"}
  <2>1. m \in Databases
    BY CommandTypes DEF TypeInv, ServerTypes
  <2> QED BY <2>1, RestorerAssumption DEF Databases, Instant
<1>2. m[k] = Database[k] /\ \A j \in Key \ {k} : m[j] = mem[j]
  BY ActsOnDatabase
<1>3. Executes(cmd, k, v, m)
  BY DEF Command
<1> HIDE DEF m
<1>4. CASE cmd = "SET"
  BY <1>1, <1>2, <1>3, <1>4 DEF Executes
<1>5. CASE cmd = "GET"
  BY <1>1, <1>2, <1>3, <1>5 DEF Executes
<1>6. CASE cmd = "INCR"
  BY <1>1, <1>2, <1>3, <1>6 DEF Executes
<1> QED BY <1>1, <1>4, <1>5, <1>6

\* A command leaves its key complete, and present unless it is a GET of a key that
\* the database does not have.
LEMMA CommandPresent ==
  ASSUME Instant, TypeInv, StoreInv,
         NEW cmd \in Commands, NEW k \in Key, NEW v \in SetValues,
         NEW opened \in BOOLEAN, Command(cmd, k, v, opened)
  PROVE  /\ mem'[k] # NoValue \/ (cmd = "GET" /\ Database[k] = NoValue /\ index[k] = NoValue)
         /\ mem[k] # NoValue => mem'[k] # NoValue
<1>1. v \in Int /\ NoValue \notin Int /\ NoValue # NotANumber
  BY RestorerAssumption
<1>2. Database[k] \in Value
  BY DEF Database, TypeInv, ServerTypes, Databases
<1>3. (mem[k] # NoValue => Database[k] # NoValue) /\ (Database[k] = NoValue => index[k] = NoValue)
  BY ActsOnDatabase
<1>4. CASE cmd = "SET"
  BY <1>1, <1>4, CommandEffect
<1>5. CASE cmd = "GET"
  BY <1>3, <1>5, CommandEffect
<1>6. CASE cmd = "INCR"
  <2>1. mem'[k] = IF Database[k] = NotANumber THEN Database[k]
                  ELSE IF Database[k] = NoValue THEN 1 ELSE Database[k] + 1
    BY <1>6, CommandEffect
  <2>2. mem'[k] \in Int \cup {NotANumber}
    BY <1>2, <2>1 DEF Value
  <2> QED BY <1>1, <2>2
<1> QED BY <1>4, <1>5, <1>6, CommandEffect

\* The recovery starts with the invariant.
LEMMA InitStoreInv == Init => StoreInv
<1> SUFFICES ASSUME Init PROVE StoreInv
  OBVIOUS
<1>1. TupleInv /\ PassedInv
  BY DEF Init, TupleInv, PassedInv
<1>2. ~performing /\ pc = "start" /\ stop = "none"
  BY ZenonT(60) DEF Init
<1>3. PerformingInv
  BY <1>2 DEF PerformingInv
<1> QED BY <1>1, <1>3 DEF StoreInv

\* A client's command keeps the invariant.
LEMMA CommandKeeps ==
  ASSUME Instant, TypeInv, StoreInv,
         NEW cmd \in Commands, NEW k \in Key, NEW v \in SetValues,
         NEW opened \in BOOLEAN, Command(cmd, k, v, opened)
  PROVE  StoreInv'
<1>1. \A j \in Key \ {k} : mem'[j] = mem[j]
  BY CommandEffect
<1>2. /\ mem'[k] # NoValue \/ (cmd = "GET" /\ Database[k] = NoValue /\ index[k] = NoValue)
      /\ mem[k] # NoValue => mem'[k] # NoValue
  BY CommandPresent
<1>3. index' = index /\ stop' = stop /\ UNCHANGED <<loader, performing>>
  BY DEF Command, indexing
<1>4. Gains
  BY <1>1, <1>2, <1>3 DEF Gains
<1>5. \A j \in restored' : j \in restored \/ Complete(j)'
  <2>1. Complete(k)'
    BY <1>2, <1>3 DEF Complete
  <2> QED BY <2>1 DEF Command
<1>6. \A i \in DOMAIN log' : (i \in DOMAIN log /\ log'[i] = log[i]) \/ mem'[log'[i].key] # NoValue
  <2> DEFINE r == CommandRecord(cmd, k, v)
  <2>1. CASE Dirty(cmd, k, opened)
    <3>1. mem'[k] # NoValue
      <4> SUFFICES ASSUME cmd = "GET", Database[k] = NoValue, index[k] = NoValue PROVE FALSE
        BY <1>2
      <4>1. ~Changes(cmd, k, LoadRecord(cmd, k, opened))
        BY DEF Changes
      <4>2. LoadRecord(cmd, k, opened) = mem
        <5>1. mem \in [Key -> Value] /\ mem[k] = NoValue
          BY <1>2, CommandEffect DEF TypeInv, ServerTypes, Databases
        <5> QED BY <5>1 DEF LoadRecord, SetIfAbsent
      <4> QED BY <2>1, <4>1, <4>2 DEF Dirty
    <3>2. log \in Seq(LoggedRecord) /\ r \in LoggedRecord /\ r.key = k
      BY CommandLogs DEF TypeInv, ServerTypes
    <3>3. log' = Append(log, r)
      BY <2>1 DEF Command, CommandRecord
    <3> HIDE DEF r
    <3>4. \A i \in DOMAIN log' : (i \in DOMAIN log /\ log'[i] = log[i]) \/ log'[i] = r
      BY <3>2, <3>3
    <3> QED BY <3>1, <3>2, <3>4
  <2>2. CASE ~Dirty(cmd, k, opened)
    BY <2>2 DEF Command
  <2> QED BY <2>1, <2>2
<1> QED BY <1>3, <1>4, <1>5, <1>6, OutsideKeeps

\* The setIR of the loader completes its key.
LEMMA SetIRKeeps ==
  ASSUME TypeInv, StoreInv, SetIR
  PROVE  StoreInv' /\ Database' = Database
<1>1. /\ held.key \in Key /\ mem \in [Key -> Value] /\ index' = index
      /\ restored' = restored /\ restored \subseteq Key
      /\ log' = log /\ held' = held /\ current' = current /\ stop' = stop /\ performing' = performing
      /\ pc = "wait" /\ pc' = "mark"
  BY DEF SetIR, TypeInv, ServerTypes, LoaderInv, Databases, Tuple, hash, indexing
<1>2. mem' = [mem EXCEPT ![held.key] = IF @ = NoValue THEN held.val ELSE @]
  BY DEF SetIR, SetIfAbsent
<1>3. Gains
  BY <1>1, <1>2 DEF Gains
<1>4. \A k \in Key : Complete(k) => Complete(k)'
  BY <1>3, CompleteStays
<1>5. mem[held.key] # NoValue \/ held.val = index[held.key]
  BY <1>1 DEF StoreInv, TupleInv
<1>6. Complete(held.key)'
  BY <1>1, <1>2, <1>5 DEF Complete
<1>7. TupleInv'
  <2>1. \A i \in DOMAIN log : mem'[log[i].key] # NoValue
    BY <1>3, LoggedKeys DEF Gains, StoreInv, TupleInv
  <2>2. \A k \in restored' : Complete(k)'
    BY <1>1, <1>4 DEF StoreInv, TupleInv
  <2> QED BY <1>1, <1>2, <1>5, <2>1, <2>2 DEF TupleInv
<1>8. PassedInv'
  <2>1. \A k \in Key : Passed(k)' => Complete(k)'
    BY <1>1, <1>4, <1>6 DEF StoreInv, PassedInv, Passed
  <2> QED BY <1>1, <1>6, <2>1 DEF PassedInv
<1>9. PerformingInv'
  BY <1>1 DEF StoreInv, PerformingInv
<1>10. Database' = Database
  BY <1>1, <1>2, <1>5 DEF Database
<1> QED BY <1>7, <1>8, <1>9, <1>10 DEF StoreInv

\* The steps of the loader that neither move its cursor nor hold a new tuple.
LEMMA LoaderStaysKeeps ==
  ASSUME TypeInv, StoreInv, LoaderStart \/ LoaderLoop \/ LoaderSend \/ LoaderMark \/ LoaderIndex \/ LoaderFinish
  PROVE  StoreInv'
<1> USE DEF StoreInv, TupleInv, PassedInv, PerformingInv, Passed, Complete, server, hash, indexing
<1>1. CASE LoaderStart
  BY <1>1, ZenonT(60) DEF LoaderStart
<1>2. CASE LoaderLoop
  BY <1>2 DEF LoaderLoop
<1>3. CASE LoaderSend
  BY <1>3 DEF LoaderSend
<1>4. CASE LoaderMark
  BY <1>4 DEF LoaderMark
<1>5. CASE LoaderIndex
  BY <1>5 DEF LoaderIndex
<1>6. CASE LoaderFinish
  BY <1>6 DEF LoaderFinish
<1> QED BY <1>1, <1>2, <1>3, <1>4, <1>5, <1>6, ZenonT(60)

\* The steps by which the cursor moves: the keys that it passes have no records.
LEMMA CursorKeeps ==
  ASSUME TypeInv, StoreInv, LoaderOpen \/ LoaderSkip \/ LoaderRead
  PROVE  StoreInv'
<1>0. Key \subseteq Nat /\ NoValue \notin Int /\ restored \subseteq Key
  BY RestorerAssumption DEF TypeInv, ServerTypes
<1>1. CASE LoaderOpen
  <2>1. \A k \in Key : Passed(k)' => Complete(k)
    <3>1. current' = FirstKey(-1) /\ -1 \in Int
      BY <1>1 DEF LoaderOpen
    <3>2. current' \in Key \cup {NoValue}
      BY <1>0, <3>1, FirstKeyNext
    <3>3. \A k \in Key : k > -1 /\ index[k] # NoValue => current' # NoValue /\ current' <= k
      BY <1>0, <3>1, FirstKeyNext
    <3> QED BY <1>0, <3>2, <3>3 DEF Passed, Complete
  <2> QED BY <1>1, <2>1 DEF LoaderOpen, StoreInv, TupleInv, PassedInv, PerformingInv, Complete, server, hash
<1>2. CASE LoaderSkip
  <2>1. \A k \in Key : Passed(k)' => Complete(k)
    <3>1. CASE current' = current
      BY <1>2, <3>1 DEF LoaderSkip, StoreInv, PassedInv, Passed
    <3>2. CASE current # NoValue /\ current \in restored /\ current' = FirstKey(current)
      <4>1. current \in Int /\ Complete(current)
        <5>1. current \in Key /\ Complete(current)
          BY <1>0, <3>2 DEF StoreInv, TupleInv
        <5> QED BY <1>0, <5>1
      <4>2. \A k \in Key : k > current /\ index[k] # NoValue => current' # NoValue /\ current' <= k
        BY <1>0, <3>2, <4>1, FirstKeyNext
      <4>3. current' \in Key \cup {NoValue}
        BY <1>0, <3>2, <4>1, FirstKeyNext
      <4>4. \A k \in Key : k < current => Complete(k)
        BY <1>2 DEF LoaderSkip, StoreInv, PassedInv, Passed
      <4> QED BY <1>0, <4>1, <4>2, <4>3, <4>4 DEF Passed, Complete
    <3> QED BY <1>2, <3>1, <3>2 DEF LoaderSkip
  <2>2. pc' = "clear" => \A k \in Key : Complete(k)
    BY <1>2 DEF LoaderSkip, StoreInv, PassedInv, Passed
  <2> QED BY <1>2, <2>1, <2>2 DEF LoaderSkip, StoreInv, TupleInv, PassedInv, PerformingInv, Complete, server, hash, indexing
<1>3. CASE LoaderRead
  <2>0. current \in Key /\ pc = "read"
    BY <1>3 DEF LoaderRead, TypeInv, LoaderInv
  <2>1. current \in Key /\ current \in Int /\ pc = "read"
    BY <1>0, <2>0
  <2>2. \A k \in Key : k > current /\ index[k] # NoValue => current' # NoValue /\ current' <= k
    BY <1>0, <1>3, <2>1, FirstKeyNext DEF LoaderRead
  <2>3. current' \in Key \cup {NoValue}
    BY <1>0, <1>3, <2>1, FirstKeyNext DEF LoaderRead
  <2>4. \A k \in Key : k < current => Complete(k)
    BY <2>1 DEF StoreInv, PassedInv, Passed
  <2>5. \A k \in Key : Passed(k)' => Complete(k) \/ k = current
    BY <1>0, <2>1, <2>2, <2>3, <2>4 DEF Passed, Complete
  <2>6. held'.key = current /\ held'.val = index[current] /\ pc' = "send"
    BY <1>3 DEF LoaderRead
  <2> QED BY <1>3, <2>1, <2>5, <2>6 DEF LoaderRead, StoreInv, TupleInv, PassedInv, PerformingInv, Complete, server, hash, indexing
<1> QED BY <1>1, <1>2, <1>3

\* The marks: those that a race loses are missing, none is added but that of the
\* loader's key; clearing them all leaves none.
LEMMA MarksKeep ==
  ASSUME TypeInv, StoreInv, LoaderMarked \/ LoaderClear
  PROVE  StoreInv'
<1> USE DEF StoreInv, TupleInv, PassedInv, PerformingInv, Passed, Complete, server, hash, indexing
<1>1. CASE LoaderMarked
  <2>1. restored' \subseteq restored \cup {held.key}
    BY <1>1 DEF LoaderMarked
  <2> QED BY <1>1, <2>1, ZenonT(60) DEF LoaderMarked
<1>2. CASE LoaderClear
  BY <1>2 DEF LoaderClear
<1> QED BY <1>1, <1>2

\* The Indexer changes the records of keys that are in memory only.
LEMMA IndexerKeeps ==
  ASSUME TypeInv, StoreInv, Indexer
  PROVE  StoreInv' /\ Database' = Database
<1> USE DEF server, hash, loader, indexing
<1>1. CASE IndexerStart \/ IndexerStop
  <2>1. Gains
    BY <1>1 DEF IndexerStart, IndexerStop, Gains
  <2>2. StoreInv'
    BY <1>1, <2>1, OutsideKeeps DEF IndexerStart, IndexerStop
  <2> QED BY <1>1, <2>2 DEF IndexerStart, IndexerStop, Database
<1>2. CASE IndexerRecord
  <2> DEFINE r == log[indexed + 1]
  <2>1. r.key \in Key /\ index \in [Key -> Value]
    BY <1>2, IndexerRecordTypes DEF TypeInv, ServerTypes, Databases
  <2>2. indexed + 1 \in DOMAIN log
    BY <1>2, IndexerRecordTypes
  <2>3. mem[r.key] # NoValue
    BY <2>2 DEF StoreInv, TupleInv
  <2>4. \A k \in Key \ {r.key} : index'[k] = index[k]
    BY <1>2, <2>1 DEF IndexerRecord
  <2>5. mem' = mem
    BY <1>2 DEF IndexerRecord
  <2> HIDE DEF r
  <2>6. Gains
    BY <2>3, <2>4, <2>5 DEF Gains
  <2>7. StoreInv'
    BY <1>2, <2>6, OutsideKeeps DEF IndexerRecord
  <2>8. Database' = Database
    BY <2>3, <2>4, <2>5 DEF Database
  <2> QED BY <2>7, <2>8
<1> QED BY <1>1, <1>2 DEF Indexer

\* Every step keeps the invariant.
LEMMA NextStoreInv ==
  ASSUME Instant, TypeInv, StoreInv, [Next]_vars
  PROVE  StoreInv'
<1>1. CASE UNCHANGED vars
  BY <1>1, ZenonT(60) DEF vars, server, hash, loader, indexing, StoreInv, TupleInv, PassedInv, PerformingInv, Passed, Complete
<1>2. CASE \E cmd \in Commands, k \in Key, v \in SetValues, opened \in BOOLEAN : Command(cmd, k, v, opened)
  BY <1>2, CommandKeeps
<1>3. CASE SetIR
  BY <1>3, SetIRKeeps
<1>4. CASE Loader
  BY <1>4, LoaderStaysKeeps, CursorKeeps, MarksKeep DEF Loader
<1>5. CASE Indexer
  BY <1>5, IndexerKeeps
<1>6. CASE \E who \in Stops : Stop(who)
  <2> PICK who \in Stops : Stop(who)
    BY <1>6
  <2>1. who = "main"
    BY DEF Instant
  <2>2. Gains
    BY DEF Stop, Gains, server
  <2> QED BY <2>1, <2>2, OutsideKeeps DEF Stop, server, hash, loader
<1>7. CASE Exit
  <2>1. Gains
    BY <1>7 DEF Exit, Gains, server, indexing
  <2> QED BY <1>7, <2>1, OutsideKeeps DEF Exit, server, hash, loader
<1> QED BY <1>1, <1>2, <1>3, <1>4, <1>5, <1>6, <1>7 DEF Next

\* The database that the clients see after a command.
LEMMA DatabaseUpdate ==
  ASSUME Instant, TypeInv, StoreInv,
         NEW cmd \in Commands, NEW k \in Key, NEW v \in SetValues,
         NEW opened \in BOOLEAN, Command(cmd, k, v, opened)
  PROVE  Database' = [Database EXCEPT ![k] = mem'[k]]
<1>1. \A j \in Key \ {k} : mem'[j] = mem[j]
  BY CommandEffect
<1>2. index' = index
  BY DEF Command, indexing
<1>3. mem'[k] # NoValue \/ (mem'[k] = NoValue /\ index[k] = NoValue)
  BY CommandPresent
<1> QED BY <1>1, <1>2, <1>3, ZenonT(60) DEF Database

\* A client's command is the store's operation of that name.
LEMMA CommandActs ==
  ASSUME Instant, TypeInv, StoreInv,
         NEW cmd \in Commands, NEW k \in Key, NEW v \in SetValues,
         NEW opened \in BOOLEAN, Command(cmd, k, v, opened)
  PROVE  Store!Next
<1>1. Database' = [Database EXCEPT ![k] = mem'[k]]
  BY DatabaseUpdate
<1>2. Database' = [j \in Key |-> Database'[j]] /\ Database = [j \in Key |-> Database[j]]
  BY DEF Database
<1>3. Database'[k] = mem'[k]
  BY <1>1, <1>2
<1>4. CASE cmd = "SET"
  <2>1. Store!Set(k, v)
    BY <1>1, <1>4, CommandEffect, ZenonT(60) DEF Store!Set, Store!Answer
  <2> QED BY <2>1 DEF Store!Next
<1>5. CASE cmd = "GET"
  <2>1. Database' = Database
    BY <1>1, <1>2, <1>5, CommandEffect
  <2>2. Store!Get(k)
    BY <1>5, <2>1, CommandEffect DEF Store!Get, Store!Answer
  <2> QED BY <2>2 DEF Store!Next
<1>6. CASE cmd = "INCR"
  <2>1. Store!Incr(k)
    BY <1>1, <1>3, <1>6, CommandEffect, ZenonT(60) DEF Store!Incr, Store!Answer
  <2> QED BY <2>1 DEF Store!Next
<1> QED BY <1>4, <1>5, <1>6, CommandEffect

\* Every step is a step of the store or leaves it as it is.
LEMMA StepActs ==
  ASSUME Instant, TypeInv, StoreInv, [Next]_vars
  PROVE  [Store!Next]_<<Database, reply>>
<1>1. CASE \E cmd \in Commands, k \in Key, v \in SetValues, opened \in BOOLEAN : Command(cmd, k, v, opened)
  BY <1>1, CommandActs
<1>2. CASE SetIR
  BY <1>2, SetIRKeeps DEF SetIR
<1>3. CASE Indexer
  <2>1. reply' = reply
    BY <1>3 DEF Indexer, IndexerStart, IndexerRecord, IndexerStop, server
  <2> QED BY <1>3, <2>1, IndexerKeeps
<1>4. CASE Loader \/ (\E who \in Stops : Stop(who)) \/ Exit \/ UNCHANGED vars
  <2>1. UNCHANGED <<mem, index, reply>>
    BY <1>4, ZenonT(60) DEF Loader, LoaderStart, LoaderOpen, LoaderLoop, LoaderSkip, LoaderRead, LoaderSend, LoaderMark,
                LoaderMarked, LoaderClear, LoaderIndex, LoaderFinish, Stop, Exit, vars, server, indexing
  <2> QED BY <2>1 DEF Database
<1> QED BY <1>1, <1>2, <1>3, <1>4 DEF Next

\* Instant recovery is transparent: for every set of keys, values and commands SET,
\* GET and INCR, every indexed log and every interleaving of clients, loader and
\* Indexer, the server acts and replies as a store that holds the whole database
\* from the first command on (call's on-demand restore, setIRCommand,
\* loadDBFromIndexedLog, hash_restored_tuples).
THEOREM RestorerActsAsStore == Instant => (Spec => ActsAsStore)
<1> SUFFICES ASSUME Instant PROVE Spec => Store!Spec
  BY DEF ActsAsStore
<1>1. Init => TypeInv /\ StoreInv
  BY InitTypeInv, InitStoreInv
<1>2. TypeInv /\ StoreInv /\ [Next]_vars => TypeInv' /\ StoreInv'
  BY NextTypeInv, NextStoreInv
<1>3. Init => Store!Init
  <2> SUFFICES ASSUME Init PROVE Store!Init
    OBVIOUS
  <2>1. Database \in [Key -> Value]
    BY InitTypeInv DEF Database, TypeInv, ServerTypes, Databases
  <2> QED BY <2>1 DEF Init, Store!Init, Value
<1>4. TypeInv /\ StoreInv /\ [Next]_vars => [Store!Next]_<<Database, reply>>
  BY StepActs
<1> QED BY <1>1, <1>2, <1>3, <1>4, PTL DEF Spec, Store!Spec

===============================================================================
