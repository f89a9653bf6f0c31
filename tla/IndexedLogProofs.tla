--------------------------- MODULE IndexedLogProofs ---------------------------
(***************************************************************************)
(* What the operators of IndexedLog compute, for every log and every       *)
(* record list: the facts that the proofs about Indexer cite.              *)
(***************************************************************************)
EXTENDS IndexedLog, FiniteSetTheorems, SequenceTheorems, WellFoundedInduction, NaturalsInduction, TLAPS

\* The time that a leaf may take.
USE SMTT(60), ZenonT(60)

-------------------------------------------------------------------------------
(* Maxima and last elements. *)

\* A non-empty set of positions has a maximum.
LEMMA MaxInSet ==
  ASSUME NEW n \in Nat, NEW S, S \subseteq 1..n, S # {}
  PROVE  Max(S) \in S /\ \A y \in S : Max(S) >= y
<1> DEFINE T == {n - i : i \in S}
           R == OpToRel(<, Nat)
<1>1. \A i \in S : i \in Int /\ 1 <= i /\ i <= n
  OBVIOUS
<1>2. T \subseteq Nat
  <2> SUFFICES ASSUME NEW i \in S PROVE n - i \in Nat
    OBVIOUS
  <2> QED BY <1>1
<1>3. T # {}
  BY ZenonT(60)
<1>4. PICK m \in T : \A y \in T : ~(<<y, m>> \in R)
  BY <1>2, <1>3, NatLessThanWellFounded, WFMin
<1>5. \A x, y \in Nat : x < y => <<x, y>> \in R
  BY DEF OpToRel
<1>6. \A y \in T : ~(y < m)
  <2> HIDE DEF R, T
  <2> QED BY <1>2, <1>4, <1>5, ZenonT(60)
<1>7. PICK i \in S : m = n - i
  BY <1>4
<1>8. \A y \in S : i >= y
  <2> SUFFICES ASSUME NEW y \in S PROVE i >= y
    OBVIOUS
  <2>1. ~(n - y < m)
    BY <1>6
  <2> HIDE DEF T
  <2> QED BY <2>1, <1>7, <1>1
<1> HIDE DEF T, R
<1> QED BY <1>7, <1>8, ZenonT(60) DEF Max

\* The records among the first n that overwrite k.
Overwrites(log, n, k) == {i \in 1..n : log[i].key = k /\ log[i].cmd \in {"SET", "DEL"}}

\* LastOverwrite is the maximum of that set.
LEMMA LastOverwriteIsMax ==
  ASSUME NEW log, NEW n, NEW k
  PROVE  LastOverwrite(log, n, k) = IF Overwrites(log, n, k) # {} THEN Max(Overwrites(log, n, k)) ELSE 0
BY DEF LastOverwrite, SelectLastInSubSeq, Overwrites

\* It is a position among the first n, or 0.
LEMMA LastOverwriteType ==
  ASSUME NEW log, NEW n \in Nat, NEW k
  PROVE  /\ LastOverwrite(log, n, k) \in 0..n
         /\ LastOverwrite(log, n, k) > 0 => LastOverwrite(log, n, k) \in Overwrites(log, n, k)
<1>1. Overwrites(log, n, k) \subseteq 1..n
  BY DEF Overwrites
<1>2. CASE Overwrites(log, n, k) = {}
  BY <1>2, LastOverwriteIsMax
<1>3. CASE Overwrites(log, n, k) # {}
  <2>1. Max(Overwrites(log, n, k)) \in Overwrites(log, n, k)
    BY <1>1, <1>3, MaxInSet
  <2> QED BY <2>1, <1>1, <1>3, LastOverwriteIsMax
<1> QED BY <1>2, <1>3

\* A record that overwrites k is the last to do so among the records up to it.
LEMMA LastOverwriteHere ==
  ASSUME NEW log, NEW n \in Nat, NEW k, n + 1 \in Overwrites(log, n + 1, k)
  PROVE  LastOverwrite(log, n + 1, k) = n + 1
<1>1. Overwrites(log, n + 1, k) \subseteq 1..(n + 1)
  BY DEF Overwrites
<1>2. /\ Max(Overwrites(log, n + 1, k)) \in Overwrites(log, n + 1, k)
      /\ Max(Overwrites(log, n + 1, k)) >= n + 1
  BY <1>1, MaxInSet
<1> QED BY <1>1, <1>2, LastOverwriteIsMax

-------------------------------------------------------------------------------
(* The value of a key after a prefix of the sequential log. *)

\* Without INCR records, the value is that of the last overwrite.
LEMMA LogValueOverwrite ==
  ASSUME NEW log \in Seq(LogRecord), NEW n \in 0..Len(log), NEW k,
         \A i \in 1..Len(log) : log[i].cmd # "INCR"
  PROVE  LogValue(log, n, k) =
           IF LastOverwrite(log, n, k) > 0 /\ log[LastOverwrite(log, n, k)].cmd = "SET"
           THEN log[LastOverwrite(log, n, k)].val ELSE NoValue
<1> DEFINE p == LastOverwrite(log, n, k)
<1>1. p \in 0..n
  BY LastOverwriteType
<1>2. {i \in p + 1 .. n : log[i].key = k /\ log[i].cmd = "INCR"} = {}
  <2> HIDE DEF p
  <2> QED BY <1>1
<1>3. Increments(log, p + 1, n, k) = 0
  BY <1>2, FS_EmptySet, ZenonT(60) DEF Increments
<1>4. ASSUME p > 0, log[p].cmd = "SET" PROVE log[p].val \in Int
  <2>1. log[p] \in LogRecord
    <3> HIDE DEF p
    <3> QED BY <1>1, <1>4, ElementOfSeq
  <2> HIDE DEF p
  <2> QED BY <2>1, <1>4 DEF LogRecord
<1> HIDE DEF p
<1>5. LogValue(log, n, k) = IF p > 0 /\ log[p].cmd = "SET" THEN log[p].val + 0 ELSE IF 0 > 0 THEN 0 ELSE NoValue
  BY <1>3 DEF LogValue, p
<1> QED BY <1>4, <1>5 DEF p

\* Before the first record no key has a value.
LEMMA LogValueEmpty ==
  ASSUME NEW k
  PROVE  LogValue(<<>>, 0, k) = NoValue
<1> DEFINE e == <<>>
<1>1. e \in Seq(LogRecord) /\ 0 \in 0..Len(e) /\ \A i \in 1..Len(e) : e[i].cmd # "INCR"
  OBVIOUS
<1> HIDE DEF e
<1>2. LastOverwrite(e, 0, k) = 0
  BY LastOverwriteType
<1>3. LogValue(e, 0, k) = NoValue
  BY <1>1, <1>2, LogValueOverwrite
<1> QED BY <1>3 DEF e

\* The number of increments is a number, and zero only if there is none.
LEMMA IncrementsType ==
  ASSUME NEW log, NEW n \in Nat, NEW p \in 0..n, NEW k
  PROVE  /\ Increments(log, p + 1, n, k) \in Nat
         /\ Increments(log, p + 1, n, k) = 0 <=> \A i \in p + 1 .. n : ~(log[i].key = k /\ log[i].cmd = "INCR")
<1> DEFINE S == {i \in p + 1 .. n : log[i].key = k /\ log[i].cmd = "INCR"}
<1>1. IsFiniteSet(p + 1 .. n)
  BY FS_Interval
<1>2. IsFiniteSet(S)
  BY <1>1, FS_Subset
<1>3. S = {} <=> \A i \in p + 1 .. n : ~(log[i].key = k /\ log[i].cmd = "INCR")
  OBVIOUS
<1> HIDE DEF S
<1>4. Cardinality(S) \in Nat /\ (Cardinality(S) = 0 <=> S = {})
  BY <1>2, FS_CardinalityType, FS_EmptySet
<1>5. Increments(log, p + 1, n, k) = Cardinality(S)
  BY DEF Increments, S
<1> QED BY <1>3, <1>4, <1>5

\* Records that do not write a key leave its value.
LEMMA LogValueSkip ==
  ASSUME NEW log \in Seq(LogRecord), NEW n \in 0..Len(log), NEW m \in n..Len(log), NEW k,
         \A i \in n + 1 .. m : ~(log[i].key = k /\ log[i].cmd \in {"SET", "INCR", "DEL"})
  PROVE  LogValue(log, m, k) = LogValue(log, n, k)
<1> DEFINE p == LastOverwrite(log, n, k)
<1>1. Overwrites(log, m, k) = Overwrites(log, n, k)
  BY DEF Overwrites
<1>2. LastOverwrite(log, m, k) = p
  BY <1>1, LastOverwriteIsMax
<1>3. p \in 0..n /\ n \in Nat /\ m \in Nat
  BY LastOverwriteType
<1> HIDE DEF p
<1>4. {i \in p + 1 .. m : log[i].key = k /\ log[i].cmd = "INCR"} =
        {i \in p + 1 .. n : log[i].key = k /\ log[i].cmd = "INCR"}
  BY <1>3
<1>5. Increments(log, p + 1, m, k) = Increments(log, p + 1, n, k)
  BY <1>4, ZenonT(60) DEF Increments
<1> QED BY <1>2, <1>5 DEF LogValue, p

\* A SET gives its key its value, a DEL removes it, an INCR leaves it present.
LEMMA LogValueHere ==
  ASSUME NEW log \in Seq(LogRecord), NEW n \in 0..Len(log), n < Len(log), NEW k,
         log[n + 1].key = k
  PROVE  /\ log[n + 1].cmd = "SET" => LogValue(log, n + 1, k) = log[n + 1].val
         /\ log[n + 1].cmd = "DEL" => LogValue(log, n + 1, k) = NoValue
         /\ log[n + 1].cmd = "INCR" => LogValue(log, n + 1, k) # NoValue
<1> DEFINE m == n + 1
           p == LastOverwrite(log, m, k)
           c == Increments(log, p + 1, m, k)
<1>0. LogValue(log, m, k) = IF p > 0 /\ log[p].cmd = "SET" THEN log[p].val + c
                            ELSE IF c > 0 THEN c ELSE NoValue
  BY DEF LogValue
<1>1. m \in Nat /\ m \in 1..Len(log) /\ p \in 0..m /\ (p > 0 => p \in Overwrites(log, m, k))
  BY LastOverwriteType
<1>2. /\ c \in Nat
      /\ c = 0 <=> \A i \in p + 1 .. m : ~(log[i].key = k /\ log[i].cmd = "INCR")
  <2> HIDE DEF p
  <2> QED BY <1>1, IncrementsType
<1>3. ASSUME p > 0, log[p].cmd = "SET" PROVE log[p].val \in Int
  <2> HIDE DEF p
  <2>1. log[p] \in LogRecord
    BY <1>1, <1>3, ElementOfSeq
  <2> QED BY <1>3, <2>1 DEF LogRecord
<1>4. CASE log[m].cmd \in {"SET", "DEL"}
  <2>1. m \in Overwrites(log, m, k)
    BY <1>1, <1>4 DEF Overwrites
  <2>2. p = m
    BY <2>1, LastOverwriteHere
  <2> HIDE DEF p, c
  <2>3. c = 0
    BY <1>1, <1>2, <2>2
  <2> HIDE DEF m
  <2> QED BY <1>0, <1>1, <1>3, <1>4, <2>2, <2>3 DEF m
<1>5. CASE log[m].cmd = "INCR"
  <2>1. p # m
    BY <1>1, <1>5 DEF Overwrites
  <2> HIDE DEF p, c
  <2>2. c > 0
    BY <1>1, <1>2, <1>5, <2>1
  <2>3. LogValue(log, m, k) \in Int
    BY <1>0, <1>2, <1>3, <2>2
  <2> QED BY <1>5, <2>3, ValueAssumption
<1> QED BY <1>4, <1>5

\* A record appended to the log does not change the values before it.
LEMMA LogValueAppend ==
  ASSUME NEW log \in Seq(LogRecord), NEW r \in LogRecord, NEW n \in 0..Len(log), NEW k
  PROVE  LogValue(Append(log, r), n, k) = LogValue(log, n, k)
<1> DEFINE longer == Append(log, r)
           p == LastOverwrite(log, n, k)
<1>1. \A i \in 1..n : longer[i] = log[i]
  OBVIOUS
<1>2. Overwrites(longer, n, k) = Overwrites(log, n, k)
  <2> HIDE DEF longer
  <2> QED BY <1>1 DEF Overwrites
<1>3. LastOverwrite(longer, n, k) = p
  BY <1>2, LastOverwriteIsMax
<1>4. p \in 0..n
  BY LastOverwriteType
<1>5. Increments(longer, p + 1, n, k) = Increments(log, p + 1, n, k)
  <2>1. {i \in p + 1 .. n : longer[i].key = k /\ longer[i].cmd = "INCR"} =
          {i \in p + 1 .. n : log[i].key = k /\ log[i].cmd = "INCR"}
    <3> HIDE DEF longer, p
    <3> QED BY <1>1, <1>4
  <2> QED BY <2>1, ZenonT(60) DEF Increments
<1>6. p > 0 => longer[p] = log[p]
  <2> HIDE DEF longer, p
  <2> QED BY <1>1, <1>4
<1> HIDE DEF longer, p
<1>7. LogValue(longer, n, k) = LogValue(log, n, k)
  BY <1>3, <1>5, <1>6 DEF LogValue, p
<1> QED BY <1>7 DEF longer

\* The log value after one more record: the record decides that of its key.
LEMMA LogValueNext ==
  ASSUME NEW log \in Seq(LogRecord), NEW r \in LogRecord, NEW k
  PROVE  LET v == LogValue(Append(log, r), Len(log) + 1, k)
         IN  /\ r.key # k => v = LogValue(log, Len(log), k)
             /\ r.key = k /\ r.cmd = "SET" => v = r.val
             /\ r.key = k /\ r.cmd = "DEL" => v = NoValue
             /\ r.key = k /\ r.cmd = "INCR" => v # NoValue
<1> DEFINE longer == Append(log, r)
           n == Len(log)
<1>1. /\ longer \in Seq(LogRecord) /\ Len(longer) = n + 1 /\ longer[n + 1] = r
      /\ n \in Nat
  OBVIOUS
<1>2. LogValue(longer, n, k) = LogValue(log, n, k)
  BY <1>1, LogValueAppend
<1> HIDE DEF longer, n
<1>3. n \in 0..Len(longer) /\ n < Len(longer) /\ n + 1 \in n..Len(longer)
  BY <1>1
<1>4. r.key = k => /\ r.cmd = "SET" => LogValue(longer, n + 1, k) = r.val
                   /\ r.cmd = "DEL" => LogValue(longer, n + 1, k) = NoValue
                   /\ r.cmd = "INCR" => LogValue(longer, n + 1, k) # NoValue
  BY <1>1, <1>3, LogValueHere, ZenonT(60)
<1>5. r.key # k => LogValue(longer, n + 1, k) = LogValue(log, n, k)
  <2> SUFFICES ASSUME r.key # k PROVE LogValue(longer, n + 1, k) = LogValue(longer, n, k)
    BY <1>2
  <2>1. \A i \in n + 1 .. n + 1 : ~(longer[i].key = k /\ longer[i].cmd \in {"SET", "INCR", "DEL"})
    BY <1>1
  <2> QED BY <1>1, <1>3, <2>1, LogValueSkip
<1> QED BY <1>4, <1>5 DEF longer, n

-------------------------------------------------------------------------------
(* The value of a list of index records. *)

\* Where the last SET of a list is.
LastSet(recs) == SelectLastInSeq(recs, LAMBDA r : r.cmd = "SET")

\* The position of the last SET among a key's records is a position of theirs, or 0
\* (the fold of loadRecordFromIndexedLog).
LEMMA LastSetType ==
  ASSUME NEW recs, Len(recs) \in Nat
  PROVE  /\ LastSet(recs) \in 0..Len(recs)
         /\ LastSet(recs) > 0 => recs[LastSet(recs)].cmd = "SET"
<1> DEFINE S == {i \in 1..Len(recs) : recs[i].cmd = "SET"}
<1>1. LastSet(recs) = IF S # {} THEN Max(S) ELSE 0
  BY DEF LastSet, SelectLastInSeq
<1>2. S # {} => Max(S) \in S
  BY MaxInSet
<1> QED BY <1>1, <1>2

\* No record, no value.
LEMMA TupleValueEmpty == TupleValue(<<>>) = NoValue
BY DEF TupleValue

\* A list that ends in a SET has that SET's value.
LEMMA TupleValueSet ==
  ASSUME NEW recs \in Seq(IndexRecord), NEW v \in Int \cup {NotANumber}
  PROVE  TupleValue(Append(recs, SetRecord(v))) = v
<1> DEFINE longer == Append(recs, SetRecord(v))
           n == Len(recs) + 1
           S == {i \in 1..Len(longer) : longer[i].cmd = "SET"}
<1>1. SetRecord(v) \in IndexRecord /\ SetRecord(v).cmd = "SET" /\ SetRecord(v).val = v
  BY DEF SetRecord, IndexRecord
<1>2. longer \in Seq(IndexRecord) /\ Len(longer) = n /\ n \in Nat /\ n > 0 /\ longer[n] = SetRecord(v)
  BY <1>1
<1>3. longer # <<>>
  BY <1>1
<1> HIDE DEF longer, n
<1>4. n \in S /\ S \subseteq 1..n
  BY <1>1, <1>2
<1>5. Max(S) \in S /\ Max(S) >= n
  BY <1>2, <1>4, MaxInSet, ZenonT(60)
<1>6. Max(S) = n
  BY <1>2, <1>4, <1>5
<1>7. SelectLastInSeq(longer, LAMBDA r : r.cmd = "SET") = n
  BY <1>4, <1>6 DEF SelectLastInSeq
<1>8. TupleValue(longer) = v
  BY <1>1, <1>2, <1>3, <1>7 DEF TupleValue
<1> QED BY <1>8 DEF longer

\* The restorer computes a number or copies a string.
LEMMA TupleValueType ==
  ASSUME NEW recs \in Seq(IndexRecord)
  PROVE  /\ TupleValue(recs) \in Int \cup {NoValue, NotANumber}
         /\ recs # <<>> => TupleValue(recs) \in Int \cup {NotANumber}
<1> DEFINE p == LastSet(recs)
           base == IF p = 0 THEN 0 ELSE recs[p].val
<1>1. Len(recs) \in Nat
  OBVIOUS
<1>2. p \in 0..Len(recs) /\ (p > 0 => recs[p].cmd = "SET")
  BY <1>1, LastSetType
<1>3. p > 0 => recs[p] \in IndexRecord
  <2> HIDE DEF p
  <2> QED BY <1>2, ElementOfSeq
<1>4. base \in Int \cup {NotANumber}
  <2> HIDE DEF p
  <2> QED BY <1>2, <1>3 DEF IndexRecord
<1>5. TupleValue(recs) = IF recs = <<>> THEN NoValue
                         ELSE IF Len(recs) - p = 0 THEN base ELSE atoi(base) + (Len(recs) - p)
  BY DEF TupleValue, LastSet
<1>6. atoi(base) \in Int
  <2> HIDE DEF base
  <2> QED BY <1>4 DEF atoi
<1> HIDE DEF base, p
<1> QED BY <1>1, <1>2, <1>4, <1>5, <1>6

===============================================================================
