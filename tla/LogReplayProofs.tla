---------------------------- MODULE LogReplayProofs ----------------------------
(***************************************************************************)
(* Instant recovery equals sequential recovery, for every log: the loops   *)
(* of LogReplay compute the closed forms of IndexedLog, and the initial    *)
(* indexing keeps these equal.                                             *)
(***************************************************************************)
EXTENDS LogReplay, IndexedLogProofs

\* The time that a leaf may take.
USE SMTT(60), ZenonT(60)

-------------------------------------------------------------------------------
(* The loops.  Each is a recursive function: it exists, is determined by its  *)
(* equation, and one more record takes it one step further.                   *)

\* v holds the value of k after each of the first n records of the log.
IsReplay(v, log, k, n) == v = [i \in 0..n |-> IF i = 0 THEN NoValue ELSE ReplayRecord(k, v[i - 1], log[i])]

\* The replay of every log has a value after each record.
LEMMA ReplayExists ==
  ASSUME NEW log, NEW k, NEW n \in Nat
  PROVE  \E v : IsReplay(v, log, k, n)
<1> DEFINE S == {m \in Nat : ~\E v : IsReplay(v, log, k, m)}
           R == OpToRel(<, Nat)
<1> SUFFICES ASSUME S # {} PROVE FALSE
  OBVIOUS
<1>1. PICK m \in S : \A y \in S : ~(<<y, m>> \in R)
  BY NatLessThanWellFounded, WFMin
<1>2. \A x, y \in Nat : x < y => <<x, y>> \in R
  BY DEF OpToRel
<1> HIDE DEF R
<1>3. m # 0
  <2> DEFINE v == [i \in 0..0 |-> NoValue]
  <2>1. IsReplay(v, log, k, 0)
    BY DEF IsReplay
  <2> HIDE DEF v
  <2> QED BY <2>1
<1>4. m - 1 \in Nat /\ m \in Nat /\ m - 1 < m
  BY <1>3
<1>5. PICK v : IsReplay(v, log, k, m - 1)
  <2>1. <<m - 1, m>> \in R
    BY <1>2, <1>4
  <2>2. m - 1 \notin S
    BY <1>1, <2>1
  <2> QED BY <1>4, <2>2
<1> DEFINE w == [i \in 0..m |-> IF i < m THEN v[i] ELSE ReplayRecord(k, v[m - 1], log[m])]
<1>6. ASSUME NEW i \in 0..m PROVE w[i] = IF i = 0 THEN NoValue ELSE ReplayRecord(k, w[i - 1], log[i])
  <2>1. CASE i < m
    <3>1. i \in 0..(m - 1)
      BY <1>4, <2>1
    <3>2. v[i] = IF i = 0 THEN NoValue ELSE ReplayRecord(k, v[i - 1], log[i])
      BY <1>5, <3>1 DEF IsReplay
    <3>3. w[i] = v[i] /\ (i # 0 => w[i - 1] = v[i - 1])
      BY <1>4, <2>1
    <3> QED BY <3>2, <3>3
  <2>2. CASE i = m
    <3>1. w[m] = ReplayRecord(k, v[m - 1], log[m]) /\ w[m - 1] = v[m - 1]
      BY <1>4
    <3> QED BY <1>3, <2>2, <3>1
  <2> QED BY <1>4, <2>1, <2>2
<1>7. w = [i \in 0..m |-> IF i = 0 THEN NoValue ELSE ReplayRecord(k, w[i - 1], log[i])]
  BY <1>6
<1> HIDE DEF w
<1>8. IsReplay(w, log, k, m)
  BY <1>7 DEF IsReplay
<1> QED BY <1>8

\* Two replays agree on the records that their logs share.
LEMMA ReplayUnique ==
  ASSUME NEW v, NEW w, NEW l, NEW log, NEW k, NEW n \in Nat,
         IsReplay(v, l, k, n), IsReplay(w, log, k, n + 1), \A i \in 1..n : l[i] = log[i]
  PROVE  v[n] = w[n]
<1> DEFINE S == {i \in 0..n : v[i] # w[i]}
           R == OpToRel(<, Nat)
<1> SUFFICES ASSUME S # {} PROVE FALSE
  OBVIOUS
<1>0. S \subseteq Nat
  OBVIOUS
<1>1. PICK i \in S : \A y \in S : ~(<<y, i>> \in R)
  BY <1>0, NatLessThanWellFounded, WFMin
<1>2. \A x, y \in Nat : x < y => <<x, y>> \in R
  BY DEF OpToRel
<1> HIDE DEF R
<1>3. i \in 0..n /\ i \in 0..(n + 1) /\ v[i] # w[i]
  OBVIOUS
<1>4. v[i] = IF i = 0 THEN NoValue ELSE ReplayRecord(k, v[i - 1], l[i])
  BY <1>3 DEF IsReplay
<1>5. w[i] = IF i = 0 THEN NoValue ELSE ReplayRecord(k, w[i - 1], log[i])
  BY <1>3 DEF IsReplay
<1>6. i # 0
  BY <1>3, <1>4, <1>5
<1>7. i - 1 \in 0..n /\ i - 1 \in Nat /\ i - 1 < i /\ i \in 1..n
  BY <1>3, <1>6
<1>8. v[i - 1] = w[i - 1]
  <2>1. <<i - 1, i>> \in R
    BY <1>2, <1>3, <1>7
  <2>2. i - 1 \notin S
    BY <1>1, <2>1
  <2> QED BY <1>7, <2>2
<1>9. l[i] = log[i]
  BY <1>7
<1> QED BY <1>3, <1>4, <1>5, <1>8, <1>9

\* One more record of the log is one more step of the replay (loadAppendOnlyFile).
LEMMA ReplayAppend ==
  ASSUME NEW T, NEW log \in Seq(T), NEW r \in T, NEW k
  PROVE  Replay(Append(log, r), k) = ReplayRecord(k, Replay(log, k), r)
<1> DEFINE l == Append(log, r)
           n == Len(log)
           v == CHOOSE g : g = [i \in 0..Len(log) |-> IF i = 0 THEN NoValue ELSE ReplayRecord(k, g[i - 1], log[i])]
           w == CHOOSE g : g = [i \in 0..Len(l) |-> IF i = 0 THEN NoValue ELSE ReplayRecord(k, g[i - 1], l[i])]
<1>1. n \in Nat /\ n + 1 \in Nat /\ Len(l) = n + 1 /\ l[n + 1] = r /\ \A i \in 1..n : log[i] = l[i]
  OBVIOUS
<1>2. Replay(log, k) = v[n] /\ Replay(l, k) = w[Len(l)]
  BY DEF Replay
<1>3. IsReplay(v, log, k, n)
  <2>1. \E g : IsReplay(g, log, k, Len(log))
    BY <1>1, ReplayExists, ZenonT(60)
  <2>2. \E g : g = [i \in 0..Len(log) |-> IF i = 0 THEN NoValue ELSE ReplayRecord(k, g[i - 1], log[i])]
    BY <2>1 DEF IsReplay
  <2> QED BY <2>2 DEF IsReplay
<1> HIDE DEF l
<1>4. IsReplay(w, l, k, n + 1)
  <2>1. \E g : IsReplay(g, l, k, Len(l))
    BY <1>1, ReplayExists
  <2>2. \E g : g = [i \in 0..Len(l) |-> IF i = 0 THEN NoValue ELSE ReplayRecord(k, g[i - 1], l[i])]
    BY <2>1 DEF IsReplay
  <2>3. IsReplay(w, l, k, Len(l))
    BY <2>2 DEF IsReplay
  <2> QED BY <1>1, <2>3
<1> HIDE DEF v, w, n
<1>5. w[n + 1] = ReplayRecord(k, w[n], r)
  <2>1. n + 1 \in 0..(n + 1) /\ n + 1 # 0 /\ (n + 1) - 1 = n
    BY <1>1
  <2>2. w[n + 1] = ReplayRecord(k, w[(n + 1) - 1], l[n + 1])
    BY <2>1, <1>4 DEF IsReplay
  <2> QED BY <1>1, <2>1, <2>2
<1>6. v[n] = w[n]
  <2>1. n \in Nat
    BY <1>1
  <2>2. \A i \in 1..n : log[i] = l[i]
    BY <1>1
  <2> QED BY <1>3, <1>4, <2>1, <2>2, ReplayUnique
<1>7. Replay(l, k) = ReplayRecord(k, Replay(log, k), r)
  BY <1>1, <1>2, <1>5, <1>6
<1> QED BY <1>7 DEF l

\* An empty log leaves every key absent.
LEMMA ReplayEmpty ==
  ASSUME NEW k
  PROVE  Replay(<<>>, k) = NoValue
<1> DEFINE l == <<>>
           v == CHOOSE g : g = [i \in 0..Len(l) |-> IF i = 0 THEN NoValue ELSE ReplayRecord(k, g[i - 1], l[i])]
<1>1. Len(l) = 0
  OBVIOUS
<1> HIDE DEF l
<1>2. Replay(l, k) = v[0]
  BY <1>1 DEF Replay
<1>3. IsReplay(v, l, k, 0)
  <2>1. \E g : IsReplay(g, l, k, Len(l))
    BY <1>1, ReplayExists
  <2>2. \E g : g = [i \in 0..Len(l) |-> IF i = 0 THEN NoValue ELSE ReplayRecord(k, g[i - 1], l[i])]
    BY <2>1 DEF IsReplay
  <2>3. IsReplay(v, l, k, Len(l))
    BY <2>2 DEF IsReplay
  <2> QED BY <1>1, <2>3
<1> HIDE DEF v
<1>4. v[0] = NoValue
  BY <1>3 DEF IsReplay
<1> QED BY <1>2, <1>4 DEF l

\* v holds the value that the restorer has after each of the first n records of a tuple.
IsRestore(v, recs, n) == v = [i \in 0..n |-> IF i = 0 THEN 0 ELSE RestoreRecord(v[i - 1], recs[i])]

\* The restorer's loop has a value after each record of every tuple.
LEMMA RestoreExists ==
  ASSUME NEW recs, NEW n \in Nat
  PROVE  \E v : IsRestore(v, recs, n)
<1> DEFINE S == {m \in Nat : ~\E v : IsRestore(v, recs, m)}
           R == OpToRel(<, Nat)
<1> SUFFICES ASSUME S # {} PROVE FALSE
  OBVIOUS
<1>1. PICK m \in S : \A y \in S : ~(<<y, m>> \in R)
  BY NatLessThanWellFounded, WFMin
<1>2. \A x, y \in Nat : x < y => <<x, y>> \in R
  BY DEF OpToRel
<1> HIDE DEF R
<1>3. m # 0
  <2> DEFINE v == [i \in 0..0 |-> 0]
  <2>1. IsRestore(v, recs, 0)
    BY DEF IsRestore
  <2> HIDE DEF v
  <2> QED BY <2>1
<1>4. m - 1 \in Nat /\ m \in Nat /\ m - 1 < m
  BY <1>3
<1>5. PICK v : IsRestore(v, recs, m - 1)
  <2>1. <<m - 1, m>> \in R
    BY <1>2, <1>4
  <2>2. m - 1 \notin S
    BY <1>1, <2>1
  <2> QED BY <1>4, <2>2
<1> DEFINE w == [i \in 0..m |-> IF i < m THEN v[i] ELSE RestoreRecord(v[m - 1], recs[m])]
<1>6. ASSUME NEW i \in 0..m PROVE w[i] = IF i = 0 THEN 0 ELSE RestoreRecord(w[i - 1], recs[i])
  <2>1. CASE i < m
    <3>1. i \in 0..(m - 1)
      BY <1>4, <2>1
    <3>2. v[i] = IF i = 0 THEN 0 ELSE RestoreRecord(v[i - 1], recs[i])
      BY <1>5, <3>1 DEF IsRestore
    <3>3. w[i] = v[i] /\ (i # 0 => w[i - 1] = v[i - 1])
      BY <1>4, <2>1
    <3> QED BY <3>2, <3>3
  <2>2. CASE i = m
    <3>1. w[m] = RestoreRecord(v[m - 1], recs[m]) /\ w[m - 1] = v[m - 1]
      BY <1>4
    <3> QED BY <1>3, <2>2, <3>1
  <2> QED BY <1>4, <2>1, <2>2
<1>7. w = [i \in 0..m |-> IF i = 0 THEN 0 ELSE RestoreRecord(w[i - 1], recs[i])]
  BY <1>6
<1> HIDE DEF w
<1>8. IsRestore(w, recs, m)
  BY <1>7 DEF IsRestore
<1> QED BY <1>8

\* Two such loops agree on the records that their tuples share.
LEMMA RestoreUnique ==
  ASSUME NEW v, NEW w, NEW l, NEW recs, NEW n \in Nat,
         IsRestore(v, l, n), IsRestore(w, recs, n + 1), \A i \in 1..n : l[i] = recs[i]
  PROVE  v[n] = w[n]
<1> DEFINE S == {i \in 0..n : v[i] # w[i]}
           R == OpToRel(<, Nat)
<1> SUFFICES ASSUME S # {} PROVE FALSE
  OBVIOUS
<1>0. S \subseteq Nat
  OBVIOUS
<1>1. PICK i \in S : \A y \in S : ~(<<y, i>> \in R)
  BY <1>0, NatLessThanWellFounded, WFMin
<1>2. \A x, y \in Nat : x < y => <<x, y>> \in R
  BY DEF OpToRel
<1> HIDE DEF R
<1>3. i \in 0..n /\ i \in 0..(n + 1) /\ v[i] # w[i]
  OBVIOUS
<1>4. v[i] = IF i = 0 THEN 0 ELSE RestoreRecord(v[i - 1], l[i])
  BY <1>3 DEF IsRestore
<1>5. w[i] = IF i = 0 THEN 0 ELSE RestoreRecord(w[i - 1], recs[i])
  BY <1>3 DEF IsRestore
<1>6. i # 0
  BY <1>3, <1>4, <1>5
<1>7. i - 1 \in 0..n /\ i - 1 \in Nat /\ i - 1 < i /\ i \in 1..n
  BY <1>3, <1>6
<1>8. v[i - 1] = w[i - 1]
  <2>1. <<i - 1, i>> \in R
    BY <1>2, <1>3, <1>7
  <2>2. i - 1 \notin S
    BY <1>1, <2>1
  <2> QED BY <1>7, <2>2
<1>9. l[i] = recs[i]
  BY <1>7
<1> QED BY <1>3, <1>4, <1>5, <1>8, <1>9

\* What the loop leaves after its last record.
RestoreLoop(recs) ==
  LET v[n \in 0..Len(recs)] == IF n = 0 THEN 0 ELSE RestoreRecord(v[n - 1], recs[n])
  IN  v[Len(recs)]

\* One more record of a tuple is one more turn of the loop
\* (loadRecordFromIndexedLog, loadDBFromIndexedLog).
LEMMA RestoreAppend ==
  ASSUME NEW recs \in Seq(IndexRecord), NEW r \in IndexRecord
  PROVE  RestoreLoop(Append(recs, r)) = RestoreRecord(RestoreLoop(recs), r)
<1> DEFINE l == Append(recs, r)
           n == Len(recs)
           v == CHOOSE g : g = [i \in 0..Len(recs) |-> IF i = 0 THEN 0 ELSE RestoreRecord(g[i - 1], recs[i])]
           w == CHOOSE g : g = [i \in 0..Len(l) |-> IF i = 0 THEN 0 ELSE RestoreRecord(g[i - 1], l[i])]
<1>1. n \in Nat /\ n + 1 \in Nat /\ Len(l) = n + 1 /\ l[n + 1] = r /\ \A i \in 1..n : recs[i] = l[i]
  OBVIOUS
<1>2. RestoreLoop(recs) = v[n] /\ RestoreLoop(l) = w[Len(l)]
  BY DEF RestoreLoop
<1>3. IsRestore(v, recs, n)
  <2>1. \E g : IsRestore(g, recs, Len(recs))
    BY <1>1, RestoreExists, ZenonT(60)
  <2>2. \E g : g = [i \in 0..Len(recs) |-> IF i = 0 THEN 0 ELSE RestoreRecord(g[i - 1], recs[i])]
    BY <2>1 DEF IsRestore
  <2> QED BY <2>2 DEF IsRestore
<1> HIDE DEF l
<1>4. IsRestore(w, l, n + 1)
  <2>1. \E g : IsRestore(g, l, Len(l))
    BY <1>1, RestoreExists
  <2>2. \E g : g = [i \in 0..Len(l) |-> IF i = 0 THEN 0 ELSE RestoreRecord(g[i - 1], l[i])]
    BY <2>1 DEF IsRestore
  <2>3. IsRestore(w, l, Len(l))
    BY <2>2 DEF IsRestore
  <2> QED BY <1>1, <2>3
<1> HIDE DEF v, w, n
<1>5. w[n + 1] = RestoreRecord(w[n], r)
  <2>1. n + 1 \in 0..(n + 1) /\ n + 1 # 0 /\ (n + 1) - 1 = n
    BY <1>1
  <2>2. w[n + 1] = RestoreRecord(w[(n + 1) - 1], l[n + 1])
    BY <2>1, <1>4 DEF IsRestore
  <2> QED BY <1>1, <2>1, <2>2
<1>6. v[n] = w[n]
  <2>1. n \in Nat
    BY <1>1
  <2>2. \A i \in 1..n : recs[i] = l[i]
    BY <1>1
  <2> QED BY <1>3, <1>4, <2>1, <2>2, RestoreUnique
<1>7. RestoreLoop(l) = RestoreRecord(RestoreLoop(recs), r)
  BY <1>1, <1>2, <1>5, <1>6
<1> QED BY <1>7 DEF l

\* The loop starts from "0".
LEMMA RestoreEmpty == RestoreLoop(<<>>) = 0
<1> DEFINE l == <<>>
           v == CHOOSE g : g = [i \in 0..Len(l) |-> IF i = 0 THEN 0 ELSE RestoreRecord(g[i - 1], l[i])]
<1>1. Len(l) = 0
  OBVIOUS
<1> HIDE DEF l
<1>2. RestoreLoop(l) = v[0]
  BY <1>1 DEF RestoreLoop
<1>3. IsRestore(v, l, 0)
  <2>1. \E g : IsRestore(g, l, Len(l))
    BY <1>1, RestoreExists
  <2>2. \E g : g = [i \in 0..Len(l) |-> IF i = 0 THEN 0 ELSE RestoreRecord(g[i - 1], l[i])]
    BY <2>1 DEF IsRestore
  <2>3. IsRestore(v, l, Len(l))
    BY <2>2 DEF IsRestore
  <2> QED BY <1>1, <2>3
<1> HIDE DEF v
<1>4. v[0] = 0
  BY <1>3 DEF IsRestore
<1> QED BY <1>2, <1>4 DEF l

\* Restore is the loop where there is a record.
LEMMA RestoreIsLoop ==
  ASSUME NEW recs
  PROVE  Restore(recs) = IF recs = <<>> THEN NoValue ELSE RestoreLoop(recs)
BY DEF Restore, RestoreLoop

-------------------------------------------------------------------------------
(* The closed forms, one record at a time. *)

\* An INCR adds one to the value that the log leaves, from 0 if there is none.
LEMMA LogValueIncr ==
  ASSUME NEW log \in Seq(LogRecord), NEW r \in LogRecord, r.cmd = "INCR"
  PROVE  LET v == LogValue(log, Len(log), r.key)
         IN  /\ v \in Int \cup {NoValue}
             /\ LogValue(Append(log, r), Len(log) + 1, r.key) = IF v = NoValue THEN 1 ELSE v + 1
<1> DEFINE l == Append(log, r)
           n == Len(log)
           k == r.key
           p == LastOverwrite(log, n, k)
           c == Increments(log, p + 1, n, k)
           S == {i \in p + 1 .. n : log[i].key = k /\ log[i].cmd = "INCR"}
           U == {i \in p + 1 .. n + 1 : l[i].key = k /\ l[i].cmd = "INCR"}
<1>1. n \in Nat /\ l[n + 1] = r /\ \A i \in 1..n : l[i] = log[i]
  OBVIOUS
<1>2. Overwrites(l, n + 1, k) = Overwrites(log, n, k)
  <2> HIDE DEF l, n
  <2> QED BY <1>1 DEF Overwrites
<1>3. LastOverwrite(l, n + 1, k) = p
  BY <1>2, LastOverwriteIsMax
<1>4. p \in 0..n /\ (p > 0 => p \in Overwrites(log, n, k))
  BY <1>1, LastOverwriteType
<1>5. p > 0 => l[p] = log[p] /\ (log[p].cmd = "SET" => log[p].val \in Int)
  <2> HIDE DEF p
  <2> SUFFICES ASSUME p > 0 PROVE l[p] = log[p] /\ (log[p].cmd = "SET" => log[p].val \in Int)
    BY ZenonT(60)
  <2>1. log[p] \in LogRecord
    BY <1>1, <1>4, ElementOfSeq
  <2> QED BY <1>1, <1>4, <2>1 DEF LogRecord
<1> HIDE DEF l, n, p
<1>6. n + 1 \notin S /\ U = S \cup {n + 1}
  BY <1>1, <1>4
<1>7. IsFiniteSet(S)
  <2>1. IsFiniteSet(p + 1 .. n)
    BY <1>1, <1>4, FS_Interval
  <2> QED BY <2>1, FS_Subset, ZenonT(60)
<1>8. c = Cardinality(S) /\ Increments(l, p + 1, n + 1, k) = Cardinality(U)
  BY DEF Increments
<1> HIDE DEF S, U, c
<1>9. c \in Nat /\ Increments(l, p + 1, n + 1, k) = c + 1
  BY <1>6, <1>7, <1>8, FS_CardinalityType, FS_AddElement
<1>10. LogValue(log, n, k) = IF p > 0 /\ log[p].cmd = "SET" THEN log[p].val + c ELSE IF c > 0 THEN c ELSE NoValue
  BY DEF LogValue, p, c
<1>11. LogValue(l, n + 1, k) = IF p > 0 /\ l[p].cmd = "SET" THEN l[p].val + (c + 1) ELSE IF c + 1 > 0 THEN c + 1 ELSE NoValue
  BY <1>3, <1>9 DEF LogValue
<1>12. /\ LogValue(log, n, k) \in Int \cup {NoValue}
       /\ LogValue(l, n + 1, k) = IF LogValue(log, n, k) = NoValue THEN 1 ELSE LogValue(log, n, k) + 1
  <2>1. CASE p > 0 /\ log[p].cmd = "SET"
    <3>1. LogValue(log, n, k) = log[p].val + c /\ LogValue(l, n + 1, k) = log[p].val + (c + 1) /\ log[p].val \in Int
      BY <1>5, <1>10, <1>11, <2>1
    <3> QED BY <1>9, <3>1, ValueAssumption
  <2>2. CASE ~(p > 0 /\ log[p].cmd = "SET")
    <3>1. LogValue(log, n, k) = (IF c > 0 THEN c ELSE NoValue) /\ LogValue(l, n + 1, k) = c + 1
      BY <1>4, <1>5, <1>9, <1>10, <1>11, <2>2
    <3> QED BY <1>9, <3>1, ValueAssumption
  <2> QED BY <2>1, <2>2
<1> QED BY <1>12 DEF l, n

\* So does an INCR in a tuple.
LEMMA TupleValueIncr ==
  ASSUME NEW recs \in Seq(IndexRecord)
  PROVE  TupleValue(Append(recs, IncrRecord)) = IF recs = <<>> THEN 1 ELSE atoi(TupleValue(recs)) + 1
<1> DEFINE l == Append(recs, IncrRecord)
           n == Len(recs)
           p == LastSet(recs)
           base == IF p = 0 THEN 0 ELSE recs[p].val
<1>0. IncrRecord \in IndexRecord /\ IncrRecord.cmd = "INCR"
  BY DEF IncrRecord, IndexRecord
<1>1. n \in Nat /\ Len(l) = n + 1 /\ l # <<>> /\ l[n + 1].cmd # "SET" /\ \A i \in 1..n : l[i] = recs[i]
  BY <1>0
<1>2. p \in 0..n /\ (p > 0 => recs[p].cmd = "SET")
  BY <1>1, LastSetType
<1>3. {i \in 1..(n + 1) : l[i].cmd = "SET"} = {i \in 1..n : recs[i].cmd = "SET"}
  <2> HIDE DEF l, n
  <2> QED BY <1>1
<1>4. LastSet(l) = p
  BY <1>1, <1>3, ZenonT(60) DEF LastSet, SelectLastInSeq
<1>5. p > 0 => l[p] = recs[p] /\ recs[p].val \in Int \cup {NotANumber}
  <2> HIDE DEF p
  <2> SUFFICES ASSUME p > 0 PROVE l[p] = recs[p] /\ recs[p].val \in Int \cup {NotANumber}
    BY ZenonT(60)
  <2>1. recs[p] \in IndexRecord
    BY <1>1, <1>2, ElementOfSeq
  <2> QED BY <1>1, <1>2, <2>1 DEF IndexRecord
<1>6. TupleValue(recs) = IF recs = <<>> THEN NoValue ELSE IF n - p = 0 THEN base ELSE atoi(base) + (n - p)
  BY DEF TupleValue, LastSet
<1>7. TupleValue(l) = IF (n + 1) - p = 0 THEN base ELSE atoi(base) + ((n + 1) - p)
  <2> HIDE DEF p, l
  <2>1. TupleValue(l) = IF Len(l) - p = 0 THEN (IF p = 0 THEN 0 ELSE l[p].val)
                        ELSE atoi(IF p = 0 THEN 0 ELSE l[p].val) + (Len(l) - p)
    BY <1>1, <1>4 DEF TupleValue, LastSet
  <2> QED BY <1>1, <1>2, <1>5, <2>1
<1>8. base \in Int \cup {NotANumber}
  <2> HIDE DEF p
  <2> QED BY <1>2, <1>5
<1>9. recs = <<>> => n = 0 /\ p = 0 /\ base = 0
  <2> HIDE DEF p
  <2> QED BY <1>2
<1> HIDE DEF l, n, p, base
<1>10. atoi(base) \in Int /\ (base \in Int => atoi(base) = base)
  BY <1>8, ValueAssumption DEF atoi
<1>11. TupleValue(l) = atoi(base) + ((n + 1) - p)
  BY <1>1, <1>2, <1>7
<1>12. CASE recs = <<>>
  BY <1>9, <1>10, <1>11, <1>12 DEF l
<1>13. CASE recs # <<>> /\ n = p
  BY <1>1, <1>2, <1>6, <1>10, <1>11, <1>13 DEF l
<1>14. CASE recs # <<>> /\ n # p
  <2>1. TupleValue(recs) = atoi(base) + (n - p) /\ TupleValue(recs) \in Int
    BY <1>1, <1>2, <1>6, <1>10, <1>14
  <2>2. atoi(TupleValue(recs)) = TupleValue(recs)
    BY <2>1, ValueAssumption DEF atoi
  <2> QED BY <1>1, <1>2, <1>10, <1>11, <1>14, <2>1, <2>2 DEF l
<1> QED BY <1>12, <1>13, <1>14

\* A C int holds the integers of its range.
LEMMA Int32Fits ==
  ASSUME NEW n \in Int, -(IntMax + 1) <= n, n <= IntMax
  PROVE  Int32(n) = n
<1>1. IntMax \in Nat
  BY LogReplayAssumption
<1> DEFINE h == IntMax + 1
<1>2. h \in Nat /\ h > 0 /\ -h <= n /\ n < h
  BY <1>1
<1>3. Int32(n) = ((n + h) % (2 * h)) - h
  BY <1>1 DEF Int32
<1> HIDE DEF h
<1> QED BY <1>2, <1>3

-------------------------------------------------------------------------------
(* The invariant. *)

\* Types.
ReplayTypes ==
  /\ replayLog \in Seq(LogRecord)
  /\ Len(replayLog) <= MaxLog
  /\ replayIndex \in [Key -> Seq(IndexRecord)]

\* The initial indexing keeps the value of every key.
IndexInv == \A k \in Key : TupleValue(replayIndex[k]) = LogValue(replayLog, Len(replayLog), k)

\* The records that are appended.
Appended(r) ==
  /\ r \in LogRecord /\ r.key \in Key /\ r.cmd \in {"SET", "INCR", "DEL"}
  /\ r.cmd = "SET" => r.val \in SetValues /\ r.val \in Int

\* A step appends one of them.
LEMMA StepAppends ==
  ASSUME ReplayNext
  PROVE  \E r : Appended(r) /\ Logs(r)
<1>1. PICK k \in Key :
        \/ \E v \in SetValues : Logs([cmd |-> "SET", key |-> k, val |-> v])
        \/ Logs([cmd |-> "INCR", key |-> k, val |-> NoValue])
        \/ Logs([cmd |-> "DEL", key |-> k, val |-> NoValue])
  BY ZenonT(60) DEF ReplayNext
<1>2. ASSUME NEW v \in SetValues PROVE Appended([cmd |-> "SET", key |-> k, val |-> v])
  <2>1. v \in Int
    BY LogReplayAssumption
  <2> QED BY <2>1 DEF Appended, LogRecord
<1>3. Appended([cmd |-> "INCR", key |-> k, val |-> NoValue])
  BY DEF Appended, LogRecord
<1>4. Appended([cmd |-> "DEL", key |-> k, val |-> NoValue])
  BY DEF Appended, LogRecord
<1> QED BY <1>1, <1>2, <1>3, <1>4, ZenonT(60)

\* What a record does to the tuple of its key.
NextTuple(recs, r) ==
  CASE r.cmd = "SET" -> Append(<<>>, SetRecord(r.val))
    [] r.cmd = "INCR" -> Append(recs, IncrRecord)
    [] r.cmd = "DEL" -> <<>>

\* The initial indexing of a record touches no other tuple.
LEMMA IndexInitiallyTuple ==
  ASSUME NEW x \in [Key -> Seq(IndexRecord)], NEW r, Appended(r)
  PROVE  IndexInitially(x, r) = [x EXCEPT ![r.key] = NextTuple(x[r.key], r)]
<1>1. r.key \in Key /\ r.cmd \in {"SET", "INCR", "DEL"}
  BY DEF Appended
<1>2. CASE r.cmd = "SET"
  BY <1>1, <1>2 DEF IndexInitially, NextTuple, addRecordIndexedLog, delRecordIndexdLog
<1>3. CASE r.cmd = "INCR"
  BY <1>1, <1>3 DEF IndexInitially, NextTuple, addRecordIndexedLog
<1>4. CASE r.cmd = "DEL"
  BY <1>1, <1>4 DEF IndexInitially, NextTuple, delRecordIndexdLog
<1> QED BY <1>1, <1>2, <1>3, <1>4

\* The tuple stays one, and what it is worth follows the record.
LEMMA NextTupleValue ==
  ASSUME NEW recs \in Seq(IndexRecord), NEW r, Appended(r)
  PROVE  /\ NextTuple(recs, r) \in Seq(IndexRecord)
         /\ r.cmd = "SET" => TupleValue(NextTuple(recs, r)) = r.val
         /\ r.cmd = "DEL" => TupleValue(NextTuple(recs, r)) = NoValue
         /\ r.cmd = "INCR" => TupleValue(NextTuple(recs, r)) = IF recs = <<>> THEN 1 ELSE atoi(TupleValue(recs)) + 1
<1>1. r.cmd \in {"SET", "INCR", "DEL"}
  BY DEF Appended
<1>2. CASE r.cmd = "SET"
  <2>1. NextTuple(recs, r) = Append(<<>>, SetRecord(r.val))
    BY <1>2 DEF NextTuple
  <2>2. r.val \in Int /\ SetRecord(r.val) \in IndexRecord /\ <<>> \in Seq(IndexRecord)
    BY <1>2 DEF Appended, SetRecord, IndexRecord
  <2>3. TupleValue(Append(<<>>, SetRecord(r.val))) = r.val
    BY <2>2, TupleValueSet, ZenonT(60)
  <2>4. Append(<<>>, SetRecord(r.val)) \in Seq(IndexRecord)
    BY <2>2
  <2> QED BY <1>2, <2>1, <2>3, <2>4
<1>3. CASE r.cmd = "INCR"
  <2>1. NextTuple(recs, r) = Append(recs, IncrRecord)
    BY <1>3 DEF NextTuple
  <2>2. Append(recs, IncrRecord) \in Seq(IndexRecord)
    BY DEF IncrRecord, IndexRecord
  <2> QED BY <1>3, <2>1, <2>2, TupleValueIncr
<1>4. CASE r.cmd = "DEL"
  <2>1. NextTuple(recs, r) = <<>>
    BY <1>4 DEF NextTuple
  <2> QED BY <1>4, <2>1, TupleValueEmpty
<1> QED BY <1>1, <1>2, <1>3, <1>4

\* A tuple is empty exactly if it has no value.
LEMMA EmptyTuple ==
  ASSUME NEW recs \in Seq(IndexRecord)
  PROVE  recs = <<>> <=> TupleValue(recs) = NoValue
BY TupleValueType, TupleValueEmpty, ValueAssumption

\* The types are kept.
LEMMA StepTypes ==
  ASSUME ReplayTypes, NEW r, Appended(r), Logs(r)
  PROVE  /\ ReplayTypes'
         /\ replayLog' = Append(replayLog, r) /\ Len(replayLog') = Len(replayLog) + 1
         /\ replayIndex' = [replayIndex EXCEPT ![r.key] = NextTuple(replayIndex[r.key], r)]
<1>1. r \in LogRecord /\ r.key \in Key
  BY DEF Appended
<1>2. /\ replayLog' = Append(replayLog, r) /\ Len(replayLog') = Len(replayLog) + 1
      /\ replayLog' \in Seq(LogRecord) /\ Len(replayLog') <= MaxLog
  BY <1>1, LogReplayAssumption DEF ReplayTypes, Logs
<1>3. replayIndex' = [replayIndex EXCEPT ![r.key] = NextTuple(replayIndex[r.key], r)]
  BY IndexInitiallyTuple DEF ReplayTypes, Logs
<1>4. NextTuple(replayIndex[r.key], r) \in Seq(IndexRecord)
  BY <1>1, NextTupleValue DEF ReplayTypes
<1>5. replayIndex' \in [Key -> Seq(IndexRecord)]
  BY <1>3, <1>4, ZenonT(60) DEF ReplayTypes
<1> QED BY <1>2, <1>3, <1>5 DEF ReplayTypes

\* Replaying one more record gives the closed form at the longer log.
LEMMA StepReplays ==
  ASSUME ReplayTypes, ReplayIsLogValue, NEW r, Appended(r), Logs(r)
  PROVE  ReplayIsLogValue'
<1> SUFFICES ASSUME NEW k \in Key PROVE Replay(replayLog', k) = LogValue(replayLog', Len(replayLog'), k)
  BY DEF ReplayIsLogValue
<1> DEFINE l == Append(replayLog, r)
           v == LogValue(replayLog, Len(replayLog), k)
           w == LogValue(l, Len(replayLog) + 1, k)
<1>1. replayLog \in Seq(LogRecord) /\ r \in LogRecord /\ r.cmd \in {"SET", "INCR", "DEL"}
  BY DEF ReplayTypes, Appended
<1>2. replayLog' = l /\ Len(replayLog') = Len(replayLog) + 1
  BY StepTypes
<1>3. Replay(l, k) = ReplayRecord(k, v, r)
  BY <1>1, ReplayAppend DEF ReplayIsLogValue
<1>4. /\ r.key # k => w = v
      /\ r.key = k /\ r.cmd = "SET" => w = r.val
      /\ r.key = k /\ r.cmd = "DEL" => w = NoValue
  BY <1>1, LogValueNext
<1>5. r.key = k /\ r.cmd = "INCR" => w = IF v = NoValue THEN 1 ELSE v + 1
  BY <1>1, LogValueIncr
<1> HIDE DEF l, v, w
<1>6. ReplayRecord(k, v, r) = w
  BY <1>1, <1>4, <1>5 DEF ReplayRecord
<1> QED BY <1>2, <1>3, <1>6 DEF w

\* Indexing one more record keeps every tuple worth what the log says.
LEMMA StepIndexes ==
  ASSUME ReplayTypes, IndexInv, NEW r, Appended(r), Logs(r)
  PROVE  IndexInv'
<1> SUFFICES ASSUME NEW k \in Key PROVE TupleValue(replayIndex'[k]) = LogValue(replayLog', Len(replayLog'), k)
  BY DEF IndexInv
<1> DEFINE v == LogValue(replayLog, Len(replayLog), k)
           w == LogValue(Append(replayLog, r), Len(replayLog) + 1, k)
           recs == replayIndex[k]
<1>1. replayLog \in Seq(LogRecord) /\ r \in LogRecord /\ r.cmd \in {"SET", "INCR", "DEL"} /\ recs \in Seq(IndexRecord)
  BY DEF ReplayTypes, Appended
<1>2. /\ replayLog' = Append(replayLog, r) /\ Len(replayLog') = Len(replayLog) + 1
      /\ replayIndex'[k] = IF k = r.key THEN NextTuple(recs, r) ELSE recs
  BY StepTypes DEF ReplayTypes
<1>3. TupleValue(recs) = v
  BY DEF IndexInv
<1>4. /\ r.key # k => w = v
      /\ r.key = k /\ r.cmd = "SET" => w = r.val
      /\ r.key = k /\ r.cmd = "DEL" => w = NoValue
  BY <1>1, LogValueNext
<1>5. r.key = k /\ r.cmd = "INCR" => w = (IF v = NoValue THEN 1 ELSE v + 1) /\ v \in Int \cup {NoValue}
  BY <1>1, LogValueIncr
<1> HIDE DEF v, w, recs
<1>6. v \in Int => atoi(v) = v
  BY ValueAssumption DEF atoi
<1>7. CASE r.key # k
  BY <1>2, <1>3, <1>4, <1>7 DEF w
<1>8. CASE r.key = k
  <2>1. TupleValue(NextTuple(recs, r)) = w
    BY <1>1, <1>3, <1>4, <1>5, <1>6, <1>8, NextTupleValue, EmptyTuple
  <2> QED BY <1>2, <1>8, <2>1 DEF w
<1> QED BY <1>7, <1>8

\* No value, with an INCR for every record of the log, leaves the range of a C int.
NoOverflow == SetValues \subseteq -(IntMax + 1) .. IntMax - MaxLog /\ MaxLog <= IntMax

\* The restorer's loop computes the closed form; its values leave room for the
\* records that may still come.
LoopInv ==
  \A k \in Key : replayIndex[k] # <<>> =>
    /\ RestoreLoop(replayIndex[k]) = TupleValue(replayIndex[k])
    /\ TupleValue(replayIndex[k]) \in -(IntMax + 1) .. IntMax - MaxLog + Len(replayLog)

\* An INCR adds one to what the loop has, as long as that is a C int.
LEMMA RestoreIncr ==
  ASSUME NEW v \in Int, -(IntMax + 1) <= v, v + 1 <= IntMax
  PROVE  RestoreRecord(v, IncrRecord) = v + 1
<1>1. IntMax \in Nat
  BY LogReplayAssumption
<1>2. atoi(v) = v
  BY ValueAssumption DEF atoi
<1>3. Int32(v) = v /\ Int32(v + 1) = v + 1
  BY <1>1, Int32Fits
<1> QED BY <1>2, <1>3 DEF RestoreRecord, IncrRecord

\* One more record of a key is one more turn of the loop.
LEMMA StepRestores ==
  ASSUME NoOverflow, ReplayTypes, LoopInv, NEW r, Appended(r), Logs(r)
  PROVE  LoopInv'
<1> SUFFICES ASSUME NEW k \in Key, replayIndex'[k] # <<>>
             PROVE  /\ RestoreLoop(replayIndex'[k]) = TupleValue(replayIndex'[k])
                    /\ TupleValue(replayIndex'[k]) \in -(IntMax + 1) .. IntMax - MaxLog + Len(replayLog')
  BY DEF LoopInv
<1> DEFINE n == Len(replayLog)
           recs == replayIndex[k]
<1>1. /\ IntMax \in Nat /\ MaxLog \in Nat /\ MaxLog <= IntMax /\ n \in Nat /\ n < MaxLog
      /\ r.cmd \in {"SET", "INCR", "DEL"} /\ recs \in Seq(IndexRecord)
  BY LogReplayAssumption DEF ReplayTypes, Appended, Logs, NoOverflow
<1>2. /\ Len(replayLog') = n + 1
      /\ replayIndex'[k] = IF k = r.key THEN NextTuple(recs, r) ELSE recs
  BY StepTypes DEF ReplayTypes
<1>3. recs # <<>> => /\ RestoreLoop(recs) = TupleValue(recs)
                     /\ TupleValue(recs) \in -(IntMax + 1) .. IntMax - MaxLog + n
  BY DEF LoopInv
<1> HIDE DEF n, recs
<1>4. CASE k # r.key
  BY <1>1, <1>2, <1>3, <1>4
<1>5. CASE k = r.key /\ r.cmd = "SET"
  <2>1. r.val \in -(IntMax + 1) .. IntMax - MaxLog /\ r.val \in Int
    BY <1>5 DEF Appended, NoOverflow
  <2>2. SetRecord(r.val) \in IndexRecord /\ <<>> \in Seq(IndexRecord)
        /\ SetRecord(r.val).cmd = "SET" /\ SetRecord(r.val).val = r.val
    BY <2>1 DEF SetRecord, IndexRecord
  <2>3. NextTuple(recs, r) = Append(<<>>, SetRecord(r.val))
    BY <1>5 DEF NextTuple
  <2>4. RestoreLoop(Append(<<>>, SetRecord(r.val))) = r.val
    BY <2>2, RestoreAppend, ZenonT(60) DEF RestoreRecord
  <2>5. TupleValue(NextTuple(recs, r)) = r.val
    BY <1>1, <1>5, NextTupleValue
  <2> QED BY <1>1, <1>2, <1>5, <2>1, <2>3, <2>4, <2>5
<1>6. CASE k = r.key /\ r.cmd = "INCR"
  <2> DEFINE v == IF recs = <<>> THEN 0 ELSE TupleValue(recs)
  <2>1. v \in Int /\ -(IntMax + 1) <= v /\ v <= IntMax - MaxLog + n
    BY <1>1, <1>3
  <2>2. RestoreLoop(recs) = v
    BY <1>3, RestoreEmpty
  <2>3. NextTuple(recs, r) = Append(recs, IncrRecord) /\ IncrRecord \in IndexRecord
    BY <1>6 DEF NextTuple, IncrRecord, IndexRecord
  <2>4. TupleValue(NextTuple(recs, r)) = v + 1
    <3>1. recs # <<>> => atoi(TupleValue(recs)) = TupleValue(recs)
      BY <1>3, <2>1, ValueAssumption DEF atoi
    <3> QED BY <1>1, <1>6, <3>1, NextTupleValue
  <2> HIDE DEF v
  <2>5. RestoreLoop(NextTuple(recs, r)) = RestoreRecord(v, IncrRecord)
    BY <1>1, <2>2, <2>3, RestoreAppend
  <2>6. v + 1 <= IntMax
    BY <1>1, <2>1
  <2>7. RestoreRecord(v, IncrRecord) = v + 1
    BY <2>1, <2>6, RestoreIncr
  <2>8. v + 1 \in -(IntMax + 1) .. IntMax - MaxLog + (n + 1)
    BY <1>1, <2>1
  <2> QED BY <1>2, <1>6, <2>4, <2>5, <2>7, <2>8
<1>7. CASE k = r.key /\ r.cmd = "DEL"
  BY <1>2, <1>7 DEF NextTuple
<1> QED BY <1>1, <1>4, <1>5, <1>6, <1>7

-------------------------------------------------------------------------------
(* The theorems. *)

\* The empty log.
LEMMA InitReplay == ReplayInit => ReplayTypes /\ ReplayIsLogValue /\ IndexInv /\ LoopInv
<1> SUFFICES ASSUME ReplayInit PROVE ReplayTypes /\ ReplayIsLogValue /\ IndexInv /\ LoopInv
  OBVIOUS
<1> DEFINE e == <<>>
<1>1. e \in Seq(LogRecord) /\ Len(e) = 0
  OBVIOUS
<1>2. /\ replayLog = e /\ replayIndex = [k \in Key |-> <<>>]
  BY DEF ReplayInit, EmptyIndex
<1>3. ReplayTypes
  BY <1>1, <1>2, LogReplayAssumption DEF ReplayTypes
<1>4. \A k \in Key : Replay(e, k) = NoValue
  BY ReplayEmpty
<1>5. \A k \in Key : LogValue(e, 0, k) = NoValue
  BY LogValueEmpty
<1> HIDE DEF e
<1>6. ReplayIsLogValue
  BY <1>1, <1>2, <1>4, <1>5 DEF ReplayIsLogValue
<1>7. IndexInv
  BY <1>1, <1>2, <1>5, TupleValueEmpty DEF IndexInv
<1>8. LoopInv
  BY <1>2 DEF LoopInv
<1> QED BY <1>3, <1>6, <1>7, <1>8

\* A step, or none, keeps the invariant.
LEMMA StepReplay ==
  ASSUME ReplayTypes, ReplayIsLogValue, IndexInv, [ReplayNext]_replayVars
  PROVE  /\ ReplayTypes' /\ ReplayIsLogValue' /\ IndexInv'
         /\ NoOverflow /\ LoopInv => LoopInv'
<1>1. CASE ReplayNext
  <2>1. PICK r : Appended(r) /\ Logs(r)
    BY <1>1, StepAppends
  <2>2. ReplayTypes'
    BY <2>1, StepTypes
  <2>3. ReplayIsLogValue'
    BY <2>1, StepReplays
  <2>4. IndexInv'
    BY <2>1, StepIndexes
  <2>5. NoOverflow /\ LoopInv => LoopInv'
    BY <2>1, StepRestores
  <2> QED BY <2>2, <2>3, <2>4, <2>5
<1>2. CASE UNCHANGED replayVars
  <2>1. replayLog' = replayLog /\ replayIndex' = replayIndex
    BY <1>2 DEF replayVars
  <2>2. ReplayTypes'
    BY <2>1 DEF ReplayTypes
  <2>3. ReplayIsLogValue'
    BY <2>1 DEF ReplayIsLogValue
  <2>4. IndexInv'
    BY <2>1 DEF IndexInv
  <2>5. LoopInv => LoopInv'
    BY <2>1 DEF LoopInv
  <2> QED BY <2>2, <2>3, <2>4, <2>5
<1> QED BY <1>1, <1>2

\* Replaying the sequential log record by record (loadAppendOnlyFile) gives the
\* closed form, for every log of SETs, INCRs and DELs of any keys and values.
THEOREM ReplayExact == ReplaySpec => []ReplayIsLogValue
<1>1. ReplayInit => ReplayTypes /\ ReplayIsLogValue /\ IndexInv
  BY InitReplay
<1>2. ReplayTypes /\ ReplayIsLogValue /\ IndexInv /\ [ReplayNext]_replayVars
        => (ReplayTypes /\ ReplayIsLogValue /\ IndexInv)'
  BY StepReplay
<1> QED BY <1>1, <1>2, PTL DEF ReplaySpec

\* Where no value leaves the range of a C int, the invariant holds.
LEMMA ReplayInvariance ==
  ASSUME NoOverflow
  PROVE  ReplaySpec => [](ReplayTypes /\ ReplayIsLogValue /\ IndexInv /\ LoopInv)
<1>1. ReplayInit => ReplayTypes /\ ReplayIsLogValue /\ IndexInv /\ LoopInv
  BY InitReplay
<1>2. ReplayTypes /\ ReplayIsLogValue /\ IndexInv /\ LoopInv /\ [ReplayNext]_replayVars
        => (ReplayTypes /\ ReplayIsLogValue /\ IndexInv /\ LoopInv)'
  BY StepReplay
<1> QED BY <1>1, <1>2, PTL DEF ReplaySpec

\* The restorer's loop, with atoi and sums of C ints, computes the closed form of
\* every tuple that the initial indexing of a log makes, as long as no sum leaves the
\* range of an int (loadRecordFromIndexedLog, loadDBFromIndexedLog).
THEOREM RestoreExact ==
  ASSUME NoOverflow
  PROVE  ReplaySpec => []RestoreIsTupleValue
<1>1. LoopInv => RestoreIsTupleValue
  BY RestoreIsLoop, TupleValueEmpty DEF LoopInv, RestoreIsTupleValue
<1> QED BY <1>1, ReplayInvariance, PTL

\* Instant recovery equals sequential recovery: indexing a log and restoring each
\* tuple gives what Redis would have replayed, for every log without an overflow.
THEOREM InstantExact ==
  ASSUME NoOverflow
  PROVE  ReplaySpec => []InstantIsSequential
<1>1. ReplayIsLogValue /\ IndexInv /\ LoopInv => InstantIsSequential
  BY RestoreIsLoop, TupleValueEmpty DEF ReplayIsLogValue, IndexInv, LoopInv, InstantIsSequential
<1> QED BY <1>1, ReplayInvariance, PTL

===============================================================================
