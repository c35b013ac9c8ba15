------------------------------ MODULE KVProofs ------------------------------
(***************************************************************************)
(* Theorems about KV, for any keys, values, transactions and thresholds:   *)
(* what one process keeps whatever fails, and that it implements TxMap.    *)
(***************************************************************************)
EXTENDS KV, SequenceTheorems, WellFoundedInduction, TLAPS

Record == Entry \cup {Torn}
Whole(s) == \A i \in DOMAIN s : s[i] # Torn

\* m and n agree on every key but those of ks.
Agrees(m, n, ks) == \A k \in Keys \ ks : m[k] = n[k]

----------------------------------------------------------------------------
(* The last record of a key. *)

LEMMA LeastNatural ==
    ASSUME NEW T \in SUBSET Nat, T # {}
    PROVE  \E x \in T : \A y \in T : x <= y
  <1> DEFINE R == OpToRel(<, Nat)
  <1>1. IsWellFoundedOn(R, Nat)
    BY NatLessThanWellFounded
  <1>2. \A x \in Nat, y \in Nat : y < x => <<y, x>> \in R
    BY DEF OpToRel
  <1> HIDE DEF R
  <1>3. PICK x \in T : \A y \in T : ~ (<<y, x>> \in R)
    BY <1>1, WFMin
  <1> SUFFICES ASSUME NEW y \in T PROVE x <= y
    OBVIOUS
  <1>4. x \in Nat /\ y \in Nat /\ ~ (y < x)
    BY <1>2, <1>3
  <1> QED
    BY <1>4

LEMMA GreatestNatural ==
    ASSUME NEW n \in Nat, NEW T \in SUBSET (0..n), T # {}
    PROVE  \E x \in T : \A y \in T : y <= x
  <1> DEFINE D == {i \in 0..n : n - i \in T}
  <1>1. D \in SUBSET Nat
    OBVIOUS
  <1>2. D # {}
    <2>1. PICK x \in T : x \in 0..n
      OBVIOUS
    <2>2. n - x \in 0..n /\ n - (n - x) = x
      BY <2>1
    <2>3. n - x \in D
      BY <2>1, <2>2
    <2> QED
      BY <2>3
  <1>3. PICK i \in D : \A j \in D : i <= j
    BY <1>1, <1>2, LeastNatural
  <1>4. i \in 0..n /\ n - i \in T
    BY <1>3
  <1>5. ASSUME NEW y \in T PROVE y <= n - i
    <2>1. y \in 0..n
      OBVIOUS
    <2>2. n - y \in 0..n /\ n - (n - y) = y
      BY <2>1
    <2>3. n - y \in D
      BY <2>1, <2>2
    <2>4. i <= n - y
      BY <1>3, <2>3
    <2> QED
      BY <1>4, <2>1, <2>4
  <1> QED
    BY <1>4, <1>5

LEMMA LogType ==
    ASSUME NEW s \in Logs
    PROVE  /\ Len(s) \in Nat /\ DOMAIN s = 1..Len(s)
           /\ \A i \in DOMAIN s : s[i] \in Record
           /\ Valid(s) \subseteq 1..Len(s)
           /\ \A k : Writes(s, k) \subseteq Valid(s)
  <1>1. s \in Seq(Record)
    BY DEF Logs, Record
  <1> QED
    BY <1>1 DEF Valid, Writes

LEMMA LastWriteIs ==
    ASSUME NEW s \in Logs, NEW k \in Keys, NEW i \in Writes(s, k),
           \A j \in Writes(s, k) : j <= i
    PROVE  LastWrite(s, k) = i
  <1>1. Writes(s, k) \subseteq Nat
    BY LogType
  <1>2. LastWrite(s, k) \in Writes(s, k) /\ \A j \in Writes(s, k) : j <= LastWrite(s, k)
    BY DEF LastWrite
  <1>3. LastWrite(s, k) <= i /\ i <= LastWrite(s, k)
    BY <1>2
  <1> QED
    BY <1>1, <1>2, <1>3

LEMMA LastWriteExists ==
    ASSUME NEW s \in Logs, NEW k \in Keys, Writes(s, k) # {}
    PROVE  /\ LastWrite(s, k) \in Writes(s, k)
           /\ \A j \in Writes(s, k) : j <= LastWrite(s, k)
  <1>1. Len(s) \in Nat /\ Writes(s, k) \in SUBSET (0..Len(s))
    BY LogType
  <1>2. PICK i \in Writes(s, k) : \A j \in Writes(s, k) : j <= i
    BY <1>1, GreatestNatural
  <1> QED
    BY <1>2 DEF LastWrite

----------------------------------------------------------------------------
(* Replay. *)

LEMMA ReplayValue ==
    ASSUME NEW m, NEW s, NEW k \in Keys
    PROVE  Replay(m, s)[k] = IF Writes(s, k) = {} THEN m[k] ELSE s[LastWrite(s, k)].val
  BY DEF Replay

LEMMA ReplayType ==
    ASSUME NEW m \in Maps, NEW s \in Logs
    PROVE  Replay(m, s) \in Maps
  <1>1. ASSUME NEW k \in Keys, Writes(s, k) # {} PROVE s[LastWrite(s, k)].val \in Cell
    <2>1. LastWrite(s, k) \in Writes(s, k)
      BY <1>1, LastWriteExists
    <2>2. s[LastWrite(s, k)] \in Record /\ s[LastWrite(s, k)] # Torn
      BY <2>1, LogType DEF Writes, Valid
    <2> QED
      BY <2>2 DEF Record, Entry
  <1> QED
    BY <1>1 DEF Replay, Maps

LEMMA MapsEqual ==
    ASSUME NEW m \in Maps, NEW n \in Maps, \A k \in Keys : m[k] = n[k]
    PROVE  m = n
  BY DEF Maps

\* What a log has written does not depend on the map before it.
LEMMA ReplayWritten ==
    ASSUME NEW m, NEW n, NEW s, NEW k \in Keys, Writes(s, k) # {} \/ m[k] = n[k]
    PROVE  Replay(m, s)[k] = Replay(n, s)[k]
  BY ReplayValue

LEMMA ReplayAgain ==
    ASSUME NEW m, NEW n, NEW s, NEW k \in Keys, Replay(m, s)[k] = n[k]
    PROVE  Replay(n, s)[k] = n[k]
  BY ReplayValue

LEMMA ReplayEmpty ==
    ASSUME NEW m \in Maps
    PROVE  Replay(m, <<>>) = m
  <1>1. \A k \in Keys : Writes(<<>>, k) = {}
    BY DEF Writes, Valid
  <1>2. \A k \in Keys : Replay(m, <<>>)[k] = m[k]
    BY <1>1, ReplayValue
  <1>3. <<>> \in Logs
    BY DEF Logs
  <1> QED
    BY <1>2, <1>3, ReplayType, MapsEqual

LEMMA ReplayUntouched ==
    ASSUME NEW m, NEW s, NEW k \in Keys \ Touched(s)
    PROVE  Replay(m, s)[k] = m[k]
  <1>1. Writes(s, k) = {}
    BY DEF Writes, Valid, Touched
  <1> QED
    BY <1>1, ReplayValue

\* Replaying a log that has grown goes on where the first replay ended.
LEMMA ReplayConcat ==
    ASSUME NEW m \in Maps, NEW s \in Logs, NEW t \in Logs, Whole(s)
    PROVE  s \o t \in Logs /\ Replay(m, s \o t) = Replay(Replay(m, s), t)
  <1> DEFINE u == s \o t
             n == Len(s)
  <1>1. /\ u \in Logs /\ Len(u) = n + Len(t) /\ DOMAIN u = 1..(n + Len(t))
        /\ \A i \in 1..(n + Len(t)) : u[i] = IF i <= n THEN s[i] ELSE t[i - n]
    <2>1. s \in Seq(Record) /\ t \in Seq(Record)
      BY DEF Logs, Record
    <2>2. u \in Seq(Record) /\ Len(u) = n + Len(t)
      BY <2>1, ConcatProperties
    <2> QED
      BY <2>1, <2>2, ConcatProperties, LenProperties DEF Logs, Record
  <1>2. n \in Nat /\ Len(t) \in Nat /\ DOMAIN s = 1..n /\ DOMAIN t = 1..Len(t)
    BY LogType
  <1> HIDE DEF u, n
  <1>3. Valid(u) = (1..n) \cup {i \in n + 1 .. n + Len(t) : i - n \in Valid(t)}
    <2>1. \A i \in 1..n : u[i] = s[i] /\ u[i] # Torn
      BY <1>1, <1>2 DEF Whole
    <2>2. \A i \in n + 1 .. n + Len(t) : u[i] = t[i - n] /\ i - n \in 1..Len(t)
      BY <1>1, <1>2
    <2>3. ASSUME NEW i \in 1..n PROVE i \in Valid(u)
      BY <1>1, <1>2, <2>1 DEF Valid
    <2>4. ASSUME NEW i \in n + 1 .. n + Len(t), i - n \in Valid(t) PROVE i \in Valid(u)
      <3> SUFFICES ASSUME NEW j \in 1..i PROVE u[j] # Torn
        BY <1>1, <1>2 DEF Valid
      <3>1. CASE j <= n
        BY <2>1, <3>1
      <3>2. CASE j > n
        <4>1. j - n \in 1..(i - n) /\ j \in n + 1 .. n + Len(t)
          BY <1>2, <3>2
        <4>2. t[j - n] # Torn
          BY <2>4, <4>1 DEF Valid
        <4> QED
          BY <2>2, <4>1, <4>2
      <3> QED
        BY <1>2, <3>1, <3>2
    <2>5. ASSUME NEW i \in Valid(u), i \notin 1..n
          PROVE  i \in n + 1 .. n + Len(t) /\ i - n \in Valid(t)
      <3>1. i \in n + 1 .. n + Len(t) /\ \A j \in 1..i : u[j] # Torn
        BY <1>1, <1>2, <2>5 DEF Valid
      <3>2. ASSUME NEW j \in 1..(i - n) PROVE t[j] # Torn
        <4>1. j + n \in 1..i /\ j + n \in n + 1 .. n + Len(t) /\ (j + n) - n = j
          BY <1>2, <3>1
        <4> QED
          BY <2>2, <3>1, <4>1
      <3> QED
        BY <1>2, <2>2, <3>1, <3>2 DEF Valid
    <2> QED
      BY <2>3, <2>4, <2>5
  <1>4. ASSUME NEW k \in Keys
        PROVE  /\ \A i \in Writes(s, k) : i \in Writes(u, k) /\ i <= n /\ u[i] = s[i]
               /\ \A i \in Writes(t, k) : i + n \in Writes(u, k) /\ u[i + n] = t[i] /\ i >= 1
               /\ \A i \in Writes(u, k) : i \in Writes(s, k) \/ i - n \in Writes(t, k)
    <2>1. ASSUME NEW i \in Writes(s, k) PROVE i \in Writes(u, k) /\ i <= n /\ u[i] = s[i]
      <3>1. i \in 1..n /\ s[i].key = k
        BY <1>2 DEF Writes, Valid
      <3> QED
        BY <1>1, <1>2, <1>3, <3>1 DEF Writes
    <2>2. ASSUME NEW i \in Writes(t, k)
          PROVE  i + n \in Writes(u, k) /\ u[i + n] = t[i] /\ i >= 1
      <3>1. i \in 1..Len(t) /\ i \in Valid(t) /\ t[i].key = k
        BY <1>2 DEF Writes, Valid
      <3>2. i + n \in n + 1 .. n + Len(t) /\ (i + n) - n = i
        BY <1>2, <3>1
      <3>3. u[i + n] = t[i]
        BY <1>1, <1>2, <3>2
      <3> QED
        BY <1>3, <3>1, <3>2, <3>3 DEF Writes
    <2>3. ASSUME NEW i \in Writes(u, k) PROVE i \in Writes(s, k) \/ i - n \in Writes(t, k)
      <3>1. i \in Valid(u) /\ u[i].key = k
        BY DEF Writes
      <3>2. CASE i \in 1..n
        <4>1. u[i] = s[i]
          BY <1>1, <1>2, <3>2
        <4>2. i \in Valid(s)
          BY <1>2, <3>2 DEF Valid, Whole
        <4> QED
          BY <3>1, <4>1, <4>2 DEF Writes
      <3>3. CASE i \in n + 1 .. n + Len(t) /\ i - n \in Valid(t)
        BY <1>1, <1>2, <3>1, <3>3 DEF Writes
      <3> QED
        BY <1>3, <3>1, <3>2, <3>3
    <2> QED
      BY <2>1, <2>2, <2>3
  <1>5. ASSUME NEW k \in Keys PROVE Replay(m, u)[k] = Replay(Replay(m, s), t)[k]
    <2>1. Writes(s, k) \subseteq Nat /\ Writes(t, k) \subseteq Nat /\ Writes(u, k) \subseteq Nat
      BY <1>1, LogType
    <2>2. CASE Writes(t, k) # {}
      <3> DEFINE i == LastWrite(t, k)
      <3>1. i \in Writes(t, k) /\ \A j \in Writes(t, k) : j <= i
        BY <2>2, LastWriteExists
      <3> HIDE DEF i
      <3>2. i + n \in Writes(u, k) /\ u[i + n] = t[i] /\ i >= 1
        BY <1>4, <3>1
      <3>3. ASSUME NEW j \in Writes(u, k) PROVE j <= i + n
        <4>1. j \in Nat /\ i \in Nat
          BY <2>1, <3>1
        <4>2. CASE j \in Writes(s, k)
          <5>1. j <= n
            BY <1>4, <4>2
          <5> QED
            BY <1>2, <4>1, <5>1
        <4>3. CASE j - n \in Writes(t, k)
          <5>1. j - n <= i
            BY <3>1, <4>3
          <5> QED
            BY <1>2, <4>1, <5>1
        <4> QED
          BY <1>4, <4>2, <4>3
      <3>4. LastWrite(u, k) = i + n
        BY <1>1, <3>2, <3>3, LastWriteIs
      <3> QED
        BY <2>2, <3>2, <3>4, ReplayValue DEF i
    <2>3. CASE Writes(t, k) = {} /\ Writes(s, k) # {}
      <3> DEFINE i == LastWrite(s, k)
      <3>1. i \in Writes(s, k) /\ \A j \in Writes(s, k) : j <= i
        BY <2>3, LastWriteExists
      <3> HIDE DEF i
      <3>2. i \in Writes(u, k) /\ u[i] = s[i] /\ \A j \in Writes(u, k) : j <= i
        BY <1>4, <2>3, <3>1
      <3>3. LastWrite(u, k) = i
        BY <1>1, <3>2, LastWriteIs
      <3> QED
        BY <2>3, <3>2, <3>3, ReplayValue DEF i
    <2>4. CASE Writes(t, k) = {} /\ Writes(s, k) = {}
      <3>1. Writes(u, k) = {}
        BY <1>4, <2>4
      <3> QED
        BY <2>4, <3>1, ReplayValue
    <2> QED
      BY <2>2, <2>3, <2>4
  <1>6. Replay(m, u) \in Maps /\ Replay(Replay(m, s), t) \in Maps
    BY <1>1, ReplayType
  <1> QED
    BY <1>1, <1>5, <1>6, MapsEqual DEF u

\* Cutting a log at the offset where its replay stops leaves whole records,
\* and the same map.
LEMMA ValidPrefix ==
    ASSUME NEW s \in Logs
    PROVE  ValidLength(s) \in 0..Len(s) /\ Valid(s) = 1..ValidLength(s)
  <1> DEFINE T == Valid(s) \cup {0}
  <1>1. Len(s) \in Nat /\ DOMAIN s = 1..Len(s) /\ Valid(s) \subseteq 1..Len(s)
    BY LogType
  <1>2. T \in SUBSET (0..Len(s)) /\ T # {}
    BY <1>1
  <1>3. PICK n \in T : \A y \in T : y <= n
    BY <1>1, <1>2, GreatestNatural
  <1>4. n \in 0..Len(s)
    BY <1>2, <1>3
  <1>5. Valid(s) = 1..n
    <2>1. ASSUME NEW i \in 1..n PROVE i \in Valid(s)
      <3>1. n \in Valid(s)
        BY <1>3, <1>4, <2>1
      <3> QED
        BY <1>1, <1>4, <2>1, <3>1 DEF Valid
    <2>2. ASSUME NEW i \in Valid(s) PROVE i \in 1..n
      BY <1>1, <1>3, <1>4, <2>2
    <2> QED
      BY <2>1, <2>2
  <1> QED
    BY <1>4, <1>5 DEF ValidLength

LEMMA CutLog ==
    ASSUME NEW s \in Logs, NEW t, t = Resize(s, ValidLength(s))
    PROVE  t \in Logs /\ Whole(t) /\ \A m \in Maps : Replay(m, t) = Replay(m, s)
  <1> DEFINE n == ValidLength(s)
  <1>1. n \in 0..Len(s) /\ Valid(s) = 1..n /\ Len(s) \in Nat /\ DOMAIN s = 1..Len(s)
    BY ValidPrefix, LogType
  <1> HIDE DEF n
  <1>2. /\ t \in Logs /\ Len(t) = n /\ DOMAIN t = 1..n /\ \A i \in 1..n : t[i] = s[i]
    <2>1. s \in Seq(Record) /\ \A i \in 1..n : s[i] \in Record
      BY <1>1, LogType DEF Logs, Record
    <2>2. t = SubSeq(s, 1, n)
      BY <1>1 DEF Resize, Prefix, n
    <2>3. /\ t \in Seq(Record) /\ Len(t) = IF 1 <= n THEN n - 1 + 1 ELSE 0
          /\ \A i \in 1 .. n - 1 + 1 : t[i] = s[1 + i - 1]
      BY <1>1, <2>1, <2>2, SubSeqProperties
    <2> QED
      BY <1>1, <2>3, LenProperties DEF Logs, Record
  <1>3. \A i \in 1..n : t[i] # Torn
    BY <1>1, <1>2 DEF Valid
  <1>4. Valid(t) = 1..n
    BY <1>1, <1>2, <1>3 DEF Valid
  <1>5. \A k \in Keys : Writes(t, k) = Writes(s, k)
    BY <1>1, <1>2, <1>4 DEF Writes
  <1>6. ASSUME NEW m \in Maps PROVE Replay(m, t) = Replay(m, s)
    <2>1. ASSUME NEW k \in Keys PROVE Replay(m, t)[k] = Replay(m, s)[k]
      <3>1. CASE Writes(s, k) = {}
        BY <1>5, <3>1, ReplayValue
      <3>2. CASE Writes(s, k) # {}
        <4>1. LastWrite(t, k) = LastWrite(s, k)
          BY <1>5 DEF LastWrite
        <4>2. LastWrite(s, k) \in 1..n
          BY <1>1, <3>2, LastWriteExists, LogType
        <4> QED
          BY <1>2, <1>5, <3>2, <4>1, <4>2, ReplayValue
      <3> QED
        BY <3>1, <3>2
    <2> QED
      BY <1>2, <2>1, ReplayType, MapsEqual
  <1> QED
    BY <1>2, <1>3, <1>6 DEF Whole

LEMMA UncutLog ==
    ASSUME NEW s \in Logs, ~ (ValidLength(s) < Len(s))
    PROVE  Whole(s)
  BY ValidPrefix, LogType DEF Whole, Valid

\* A log cut at any offset, or extended by a hole, is a log.
LEMMA ResizeType ==
    ASSUME NEW s \in Logs, NEW n \in Nat
    PROVE  Resize(s, n) \in Logs
  <1>1. s \in Seq(Record) /\ Len(s) \in Nat /\ Torn \in Record
    BY LogType DEF Logs, Record
  <1>2. CASE n <= Len(s)
    <2>1. \A i \in 1..n : s[i] \in Record
      BY <1>1, <1>2
    <2>2. SubSeq(s, 1, n) \in Seq(Record)
      BY <2>1, SubSeqProperties
    <2> QED
      BY <1>2, <2>2 DEF Resize, Prefix, Logs, Record
  <1>3. CASE ~ (n <= Len(s))
    BY <1>1, <1>3 DEF Resize, Logs, Record
  <1> QED
    BY <1>2, <1>3

----------------------------------------------------------------------------
(* Transactions, and what is left of a write that is cut short. *)

TxOrNone == {<<>>} \cup Txs

LEMMA TxType ==
    ASSUME NEW w \in TxOrNone
    PROVE  /\ w \in Logs /\ Whole(w) /\ Touched(w) \subseteq Keys
           /\ w # <<>> => w \in Txs
           /\ \A k \in Touched(w) : Writes(w, k) # {}
  <1>1. w \in Seq(Entry)
    <2>1. Txs \subseteq Seq(Entry)
      BY KVLogAssumption
    <2>2. <<>> \in Seq(Entry)
      OBVIOUS
    <2> QED
      BY <2>1, <2>2 DEF TxOrNone
  <1>2. w \in Seq(Record)
    BY <1>1 DEF Record
  <1>3. \A i \in DOMAIN w : w[i] \in Entry /\ w[i] # Torn /\ w[i].key \in Keys
    <2>1. \A e \in Entry : e.key \in Keys /\ e # Torn
      BY KVLogAssumption DEF Entry, Torn
    <2> QED
      BY <1>1, <2>1
  <1>4. Len(w) \in Nat /\ DOMAIN w = 1..Len(w)
    BY <1>1
  <1>5. \A i \in DOMAIN w : i \in Valid(w)
    BY <1>3, <1>4 DEF Valid
  <1>6. ASSUME NEW k \in Touched(w) PROVE Writes(w, k) # {}
    BY <1>5 DEF Touched, Writes
  <1> QED
    BY <1>2, <1>3, <1>6 DEF Logs, Record, Whole, Touched, TxOrNone

\* The first records of a write set.
LEMMA PrefixType ==
    ASSUME NEW w \in TxOrNone, NEW n \in 0..Len(w)
    PROVE  /\ Prefix(w, n) \in Logs /\ Whole(Prefix(w, n))
           /\ Touched(Prefix(w, n)) \subseteq Touched(w)
           /\ \A k \in Touched(Prefix(w, n)) : Writes(Prefix(w, n), k) # {}
           /\ Prefix(w, 0) = <<>> /\ Prefix(w, Len(w)) = w
  <1> DEFINE s == Prefix(w, n)
  <1>1. /\ w \in Seq(Record) /\ w \in Seq(Entry) /\ Len(w) \in Nat /\ DOMAIN w = 1..Len(w)
        /\ \A i \in DOMAIN w : w[i] # Torn
    <2>1. <<>> \in Seq(Entry) /\ Txs \subseteq Seq(Entry)
      BY KVLogAssumption
    <2>2. w \in Seq(Entry)
      BY <2>1 DEF TxOrNone
    <2> QED
      BY <2>2, TxType DEF Logs, Record, Whole
  <1>2. \A i \in 1..n : w[i] \in Record
    BY <1>1
  <1>3. s \in Seq(Record) /\ Len(s) = n /\ DOMAIN s = 1..n /\ \A i \in 1..n : s[i] = w[i]
    <2>1. /\ s \in Seq(Record) /\ Len(s) = IF 1 <= n THEN n - 1 + 1 ELSE 0
          /\ \A i \in 1 .. n - 1 + 1 : s[i] = w[1 + i - 1]
      BY <1>2, SubSeqProperties DEF Prefix
    <2> QED
      BY <1>1, <2>1, LenProperties
  <1>4. Prefix(w, 0) = <<>> /\ Prefix(w, Len(w)) = w
    BY <1>1 DEF Prefix
  <1> HIDE DEF s
  <1>5. Whole(s) /\ \A i \in 1..n : i \in Valid(s)
    BY <1>1, <1>3 DEF Whole, Valid
  <1>6. Touched(s) \subseteq Touched(w) /\ \A k \in Touched(s) : Writes(s, k) # {}
    BY <1>1, <1>3, <1>5 DEF Touched, Writes
  <1> QED
    BY <1>3, <1>4, <1>5, <1>6 DEF Logs, Record, s

LEMMA ReplayTorn ==
    ASSUME NEW m \in Maps
    PROVE  <<Torn>> \in Logs /\ Replay(m, <<Torn>>) = m
  <1>1. <<Torn>> \in Logs
    BY DEF Logs
  <1>2. Valid(<<Torn>>) = {}
    BY DEF Valid
  <1>3. \A k \in Keys : Replay(m, <<Torn>>)[k] = m[k]
    BY <1>2, ReplayValue DEF Writes
  <1> QED
    BY <1>1, <1>3, ReplayType, MapsEqual

\* A write that is cut short has the effect of its first records.
LEMMA PartType ==
    ASSUME NEW w \in TxOrNone, NEW part \in Parts(w)
    PROVE  /\ part \in Logs
           /\ \E n \in 0..Len(w) : \A m \in Maps : Replay(m, part) = Replay(m, Prefix(w, n))
  <1>1. w \in Logs /\ Len(w) \in Nat
    BY TxType, LogType
  <1>2. CASE part = w
    BY <1>1, <1>2, PrefixType
  <1>3. CASE part = <<>>
    <2>1. <<>> \in Logs /\ 0 \in 0..Len(w)
      BY <1>1 DEF Logs
    <2> QED
      BY <1>3, <2>1, PrefixType
  <1>4. CASE part \in Pieces(w)
    <2>1. PICK n \in 0..(Len(w) - 1), t \in {<<>>, <<Torn>>} : part = Prefix(w, n) \o t
      BY <1>4 DEF Pieces
    <2> DEFINE s == Prefix(w, n)
    <2>2. n \in 0..Len(w) /\ s \in Logs /\ Whole(s)
      BY <1>1, <2>1, PrefixType
    <2>3. t \in Logs /\ \A m \in Maps : Replay(m, t) = m
      <3>1. CASE t = <<>>
        BY <3>1, ReplayEmpty DEF Logs
      <3>2. CASE t = <<Torn>>
        <4>1. <<Torn>> \in Logs
          BY DEF Logs
        <4> QED
          BY <3>2, <4>1, ReplayTorn
      <3> QED
        BY <3>1, <3>2
    <2>4. part = s \o t
      BY <2>1
    <2> HIDE DEF s
    <2>5. ASSUME NEW m \in Maps PROVE s \o t \in Logs /\ Replay(m, s \o t) = Replay(m, s)
      <3>1. Replay(m, s) \in Maps
        BY <2>2, ReplayType
      <3> QED
        BY <2>2, <2>3, <3>1, ReplayConcat
    <2>6. EmptyMap \in Maps
      BY DEF EmptyMap, Maps, Cell
    <2> QED
      BY <2>2, <2>4, <2>5, <2>6 DEF s
  <1> QED
    BY <1>2, <1>3, <1>4 DEF Parts

----------------------------------------------------------------------------
(* The variables keep their types, whatever the number of processes. *)

FilesType == snap \in Maps /\ log \in Logs /\ disk \subseteq [snap : Maps, log : Logs]

\* Process p goes to a stage, with m in memory and the write set w.
Moved(p, stage, m, w) ==
    /\ db' \in [Procs -> DB]
    /\ db'[p].pc = stage /\ db'[p].data = m /\ db'[p].tx = w
    /\ \A q \in Procs : q # p => db'[q] = db[q]

Ended(p) ==
    /\ Moved(p, "down", EmptyMap, <<>>)
    /\ lock' = IF lock = p THEN None ELSE lock

Runs(stage) == stage \in {"open", "write", "sync", "snapshot", "truncate", "syncDir"}

LEMMA ProcessType ==
    ASSUME TypeOK, NEW p \in Procs
    PROVE  /\ db[p] \in DB /\ db[p].pc \in Stages /\ db[p].data \in Maps
           /\ db[p].off \in Nat /\ db[p].tx \in TxOrNone /\ db[p].size \in Nat
           /\ Running(p) <=> Runs(db[p].pc)
  BY DEF TypeOK, DB, TxOrNone, Running, Runs

LEMMA Move ==
    ASSUME TypeOK, NEW p \in Procs, NEW b \in DB, db' = [db EXCEPT ![p] = b]
    PROVE  Moved(p, b.pc, b.data, b.tx) /\ db'[p] = b
  BY DEF TypeOK, Moved

LEMMA GotoMove ==
    ASSUME TypeOK, NEW p \in Procs, NEW stage \in Stages, Goto(p, stage)
    PROVE  Moved(p, stage, db[p].data, db[p].tx)
  <1> DEFINE b == [db[p] EXCEPT !.pc = stage]
  <1>1. db' = [db EXCEPT ![p] = b]
    BY DEF Goto
  <1>2. b \in DB /\ b.pc = stage /\ b.data = db[p].data /\ b.tx = db[p].tx
    BY ProcessType DEF DB
  <1> HIDE DEF b
  <1> QED
    BY <1>1, <1>2, Move

LEMMA ReleaseMove ==
    ASSUME TypeOK, NEW p \in Procs, Release(p)
    PROVE  Ended(p)
  <1>1. EmptyMap \in Maps
    BY DEF EmptyMap, Maps, Cell
  <1>2. /\ Down \in DB /\ Down.pc = "down" /\ Down.data = EmptyMap /\ Down.tx = <<>>
        /\ db' = [db EXCEPT ![p] = Down] /\ lock' = IF lock = p THEN None ELSE lock
    BY <1>1 DEF Down, DB, Stages, Release
  <1> QED
    BY <1>2, Move DEF Ended

LEMMA MovedType ==
    ASSUME TypeOK, NEW p \in Procs, NEW stage, NEW m, NEW w, Moved(p, stage, m, w),
           Runs(stage) <=> Running(p), lock' = lock, FilesType', doubt' \subseteq Keys
    PROVE  TypeOK'
  <1>1. \A q \in Procs : Running(q)' <=> Running(q)
    BY DEF Moved, Running, Runs
  <1> QED
    BY <1>1 DEF TypeOK, FilesType, Moved

LEMMA EndedType ==
    ASSUME TypeOK, NEW p \in Procs, Ended(p), FilesType', doubt' \subseteq Keys
    PROVE  TypeOK'
  <1>1. ~ Running(p)' /\ \A q \in Procs : q # p => (Running(q)' <=> Running(q))
    BY DEF Ended, Moved, Running
  <1>2. lock' \in Procs \cup {None} /\ \A q \in Procs : lock' = q <=> Running(q)'
    BY <1>1, KVAssumption DEF TypeOK, Ended
  <1> QED
    BY <1>2 DEF TypeOK, FilesType, Ended, Moved

\* The text of the log that a reader may meet.
LEMMA SeenType ==
    ASSUME TypeOK, NEW s \in Seen
    PROVE  s \in Logs
  <1>1. CASE s = log
    BY <1>1 DEF TypeOK
  <1>2. ASSUME NEW q \in Procs, NEW part \in Parts(db[q].tx), s = log \o part PROVE s \in Logs
    <2>1. part \in Logs /\ log \in Logs
      BY ProcessType, PartType DEF TypeOK
    <2>2. part \in Seq(Record) /\ log \in Seq(Record)
      BY <2>1 DEF Logs, Record
    <2> QED
      BY <1>2, <2>2, ConcatProperties DEF Logs, Record
  <1> QED
    BY <1>1, <1>2 DEF Seen

LEMMA AppendType ==
    ASSUME TypeOK, NEW t \in Logs
    PROVE  log \o t \in Logs
  <1>1. log \in Seq(Record) /\ t \in Seq(Record)
    BY DEF TypeOK, Logs, Record
  <1> QED
    BY <1>1, ConcatProperties DEF Logs, Record

\* What each action does to its process and to the lock.
LEMMA LoadMove ==
    ASSUME TypeOK, NEW p \in Procs, LoadSnapshot(p)
    PROVE  Moved(p, "replay", snap, db[p].tx) /\ TypeOK'
  <1> DEFINE b == [db[p] EXCEPT !.pc = "replay", !.data = snap]
  <1>1. db' = [db EXCEPT ![p] = b] /\ db[p].pc = "down"
    BY DEF LoadSnapshot
  <1>2. b \in DB /\ b.pc = "replay" /\ b.data = snap /\ b.tx = db[p].tx
    BY ProcessType DEF DB, Stages, TypeOK
  <1> HIDE DEF b
  <1>3. Moved(p, "replay", snap, db[p].tx)
    <2>1. Moved(p, b.pc, b.data, b.tx)
      BY <1>1, <1>2, Move
    <2> QED
      BY <1>2, <2>1
  <1>4. TypeOK'
    BY <1>1, <1>3, MovedType DEF LoadSnapshot, Running, Runs, FilesType, TypeOK
  <1> QED
    BY <1>3, <1>4

LEMMA ReplayMove ==
    ASSUME TypeOK, NEW p \in Procs, ReplayLog(p)
    PROVE  /\ \E s \in Seen :
                 LET stage == IF ValidLength(s) < Len(s) THEN "cut" ELSE "lock" IN
                 /\ Moved(p, stage, Replay(db[p].data, s), db[p].tx)
                 /\ db'[p].off = ValidLength(s)
           /\ TypeOK'
  <1>1. PICK s \in Seen :
          db' = [db EXCEPT ![p].data = Replay(@, s), ![p].off = ValidLength(s),
                           ![p].pc = IF ValidLength(s) < Len(s) THEN "cut" ELSE "lock"]
    BY DEF ReplayLog
  <1> DEFINE stage == IF ValidLength(s) < Len(s) THEN "cut" ELSE "lock"
             m == Replay(db[p].data, s)
             n == ValidLength(s)
             b == [db[p] EXCEPT !.data = m, !.off = n, !.pc = stage]
  <1>2. db' = [db EXCEPT ![p] = b]
    BY <1>1
  <1>3. m \in Maps /\ n \in Nat /\ stage \in Stages /\ stage \in {"cut", "lock"}
    <2>1. s \in Logs /\ db[p].data \in Maps
      BY SeenType, ProcessType
    <2> QED
      BY <2>1, ReplayType, ValidPrefix, LogType DEF Stages
  <1>4. ~ Runs(stage) /\ ~ Running(p)
    BY DEF ReplayLog, Running, Runs
  <1> HIDE DEF stage, m, n
  <1>5. b \in DB /\ b.pc = stage /\ b.data = m /\ b.off = n /\ b.tx = db[p].tx
    BY <1>3, ProcessType DEF DB
  <1> HIDE DEF b
  <1>6. Moved(p, stage, m, db[p].tx) /\ db'[p].off = n
    BY <1>2, <1>5, Move
  <1>7. TypeOK'
    BY <1>4, <1>6, MovedType DEF ReplayLog, FilesType, TypeOK
  <1> QED
    BY <1>6, <1>7 DEF stage, m, n

LEMMA CutMove ==
    ASSUME TypeOK, NEW p \in Procs, Cut(p)
    PROVE  Moved(p, "lock", db[p].data, db[p].tx) /\ TypeOK'
  <1>1. Moved(p, "lock", db[p].data, db[p].tx)
    BY GotoMove DEF Cut, Stages
  <1>2. log' \in Logs
    BY ProcessType, ResizeType DEF Cut, TypeOK
  <1>3. FilesType'
    BY <1>2 DEF Cut, Unsynced, Files, FilesType, TypeOK
  <1> QED
    BY <1>1, <1>3, MovedType DEF Cut, Running, Runs, TypeOK

LEMMA LockMove ==
    ASSUME TypeOK, NEW p \in Procs, Lock(p)
    PROVE  /\ (Moved(p, "open", db[p].data, db[p].tx) /\ lock = None) \/ Ended(p)
           /\ TypeOK'
  <1>1. CASE lock = None
    <2> DEFINE b == [db[p] EXCEPT !.pc = "open", !.off = 0, !.size = Len(log)]
    <2>1. db' = [db EXCEPT ![p] = b] /\ lock' = p
      BY <1>1 DEF Lock
    <2>2. b \in DB /\ b.pc = "open" /\ b.data = db[p].data /\ b.tx = db[p].tx
      BY ProcessType, LogType DEF DB, Stages, TypeOK
    <2> HIDE DEF b
    <2>3. Moved(p, "open", db[p].data, db[p].tx)
      BY <2>1, <2>2, Move
    <2>4. \A q \in Procs : lock' = q <=> Running(q)'
      <3>1. Running(p)' /\ \A q \in Procs : q # p => (Running(q)' <=> Running(q))
        BY <2>3 DEF Moved, Running
      <3> QED
        BY <1>1, <2>1, <3>1, KVAssumption DEF TypeOK
    <2>5. TypeOK'
      BY <2>1, <2>3, <2>4 DEF Lock, Moved, TypeOK
    <2> QED
      BY <1>1, <2>3, <2>5
  <1>2. CASE lock # None
    <2>1. Ended(p)
      BY <1>2, ReleaseMove DEF Lock
    <2> QED
      BY <2>1, EndedType DEF Lock, FilesType, TypeOK
  <1> QED
    BY <1>1, <1>2

LEMMA UpdateMove ==
    ASSUME TypeOK, NEW p \in Procs, NEW w \in Txs, Update(p, w)
    PROVE  Moved(p, "write", db[p].data, w) /\ TypeOK'
  <1> DEFINE b == [db[p] EXCEPT !.pc = "write", !.tx = w]
  <1>1. db' = [db EXCEPT ![p] = b] /\ db[p].pc = "open"
    BY DEF Update
  <1>2. b \in DB /\ b.pc = "write" /\ b.data = db[p].data /\ b.tx = w
    BY ProcessType DEF DB, Stages
  <1> HIDE DEF b
  <1>3. Moved(p, "write", db[p].data, w)
    <2>1. Moved(p, b.pc, b.data, b.tx)
      BY <1>1, <1>2, Move
    <2> QED
      BY <1>2, <2>1
  <1> QED
    BY <1>1, <1>3, MovedType DEF Update, Running, Runs, FilesType, TypeOK

\* The write set is dropped: Update fails.
LEMMA DropMove ==
    ASSUME TypeOK, NEW p \in Procs, db' = [db EXCEPT ![p].pc = "open", ![p].tx = <<>>]
    PROVE  Moved(p, "open", db[p].data, <<>>)
  <1> DEFINE b == [db[p] EXCEPT !.pc = "open", !.tx = <<>>]
  <1>1. db' = [db EXCEPT ![p] = b]
    OBVIOUS
  <1>2. b \in DB /\ b.pc = "open" /\ b.data = db[p].data /\ b.tx = <<>>
    BY ProcessType DEF DB, Stages
  <1> HIDE DEF b
  <1> QED
    BY <1>1, <1>2, Move

LEMMA WriteMove ==
    ASSUME TypeOK, NEW p \in Procs, Write(p)
    PROVE  Moved(p, "sync", db[p].data, db[p].tx) /\ TypeOK'
  <1>1. Moved(p, "sync", db[p].data, db[p].tx)
    BY GotoMove DEF Write, Stages
  <1>2. \A part \in Parts(db[p].tx) : log \o part \in Logs
    BY ProcessType, PartType, AppendType
  <1>3. log' \in Logs
    BY <1>2 DEF Write, Parts
  <1>4. FilesType'
    <2>1. \A part \in Parts(db[p].tx) :
             [snap |-> snap, log |-> log \o part] \in [snap : Maps, log : Logs]
      BY <1>2 DEF TypeOK
    <2>2. disk' \subseteq [snap : Maps, log : Logs] /\ snap' \in Maps
      BY <2>1 DEF Write, TypeOK
    <2> QED
      BY <1>3, <2>2 DEF FilesType
  <1> QED
    BY <1>1, <1>4, MovedType DEF Write, Running, Runs, TypeOK

LEMMA WriteFailsMove ==
    ASSUME TypeOK, NEW p \in Procs, WriteFails(p)
    PROVE  Moved(p, "open", db[p].data, <<>>) /\ TypeOK'
  <1>1. Moved(p, "open", db[p].data, <<>>)
    BY DropMove DEF WriteFails
  <1>2. \A part \in Parts(db[p].tx) : log \o part \in Logs
    BY ProcessType, PartType, AppendType
  <1>3. log' \in Logs
    BY <1>2 DEF WriteFails, Parts
  <1>4. FilesType'
    <2>1. snap' = snap /\ disk' = disk \cup {[snap |-> snap', log |-> log']}
      BY DEF WriteFails, Unsynced, Files
    <2> QED
      BY <1>3, <2>1 DEF FilesType, TypeOK
  <1> QED
    BY <1>1, <1>4, MovedType DEF WriteFails, Running, Runs, TypeOK

LEMMA SyncMove ==
    ASSUME TypeOK, NEW p \in Procs, Sync(p)
    PROVE  /\ \E stage \in {"open", "snapshot"} :
                 Moved(p, stage, Replay(db[p].data, db[p].tx), <<>>)
           /\ TypeOK'
  <1> DEFINE size == db[p].size + Len(db[p].tx)
             m == Replay(db[p].data, db[p].tx)
             stage == IF size > Threshold THEN "snapshot" ELSE "open"
             b == [db[p] EXCEPT !.data = m, !.tx = <<>>, !.size = size, !.pc = stage]
  <1>1. db' = [db EXCEPT ![p] = b]
    BY DEF Sync, Apply
  <1>2. size \in Nat /\ m \in Maps /\ stage \in {"open", "snapshot"} /\ stage \in Stages
    BY ProcessType, TxType, ReplayType, LogType DEF Stages
  <1> HIDE DEF size, m, stage
  <1>3. b \in DB /\ b.pc = stage /\ b.data = m /\ b.tx = <<>>
    BY <1>2, ProcessType DEF DB
  <1> HIDE DEF b
  <1>4. Moved(p, stage, m, <<>>)
    BY <1>1, <1>3, Move
  <1>5. FilesType'
    BY DEF Sync, Synced, Files, FilesType, TypeOK
  <1>6. TypeOK'
    BY <1>2, <1>4, <1>5, MovedType DEF Sync, Running, Runs, TypeOK
  <1> QED
    BY <1>2, <1>4, <1>6 DEF m

LEMMA SyncFailsMove ==
    ASSUME TypeOK, NEW p \in Procs, SyncFails(p)
    PROVE  Moved(p, "open", db[p].data, <<>>) /\ TypeOK'
  <1>1. Moved(p, "open", db[p].data, <<>>)
    BY DropMove DEF SyncFails
  <1>2. doubt' \subseteq Keys
    BY ProcessType, TxType DEF SyncFails, TypeOK
  <1> QED
    BY <1>1, <1>2, MovedType DEF SyncFails, Running, Runs, FilesType, TypeOK

LEMMA CloseMove ==
    ASSUME TypeOK, NEW p \in Procs, Close(p)
    PROVE  Moved(p, "snapshot", db[p].data, db[p].tx) /\ TypeOK'
  <1> DEFINE b == [db[p] EXCEPT !.pc = "snapshot", !.closing = TRUE]
  <1>1. db' = [db EXCEPT ![p] = b] /\ db[p].pc = "open"
    BY DEF Close
  <1>2. b \in DB /\ b.pc = "snapshot" /\ b.data = db[p].data /\ b.tx = db[p].tx
    BY ProcessType DEF DB, Stages
  <1> HIDE DEF b
  <1>3. Moved(p, "snapshot", db[p].data, db[p].tx)
    BY <1>1, <1>2, Move
  <1> QED
    BY <1>1, <1>3, MovedType DEF Close, Running, Runs, FilesType, TypeOK

LEMMA ReturnMove ==
    ASSUME TypeOK, NEW p \in Procs, Return(p)
    PROVE  (Moved(p, "open", db[p].data, db[p].tx) /\ lock' = lock) \/ Ended(p)
  BY GotoMove, ReleaseMove DEF Return, Stages

LEMMA RenameMove ==
    ASSUME TypeOK, NEW p \in Procs, Rename(p)
    PROVE  Moved(p, "truncate", db[p].data, db[p].tx) /\ TypeOK'
  <1>1. Moved(p, "truncate", db[p].data, db[p].tx)
    BY GotoMove DEF Rename, Stages
  <1>2. FilesType'
    BY ProcessType DEF Rename, Unsynced, Files, FilesType, TypeOK
  <1> QED
    BY <1>1, <1>2, MovedType DEF Rename, Running, Runs, TypeOK

LEMMA TruncateMove ==
    ASSUME TypeOK, NEW p \in Procs, Truncate(p)
    PROVE  Moved(p, "syncDir", db[p].data, db[p].tx) /\ TypeOK'
  <1> DEFINE b == [db[p] EXCEPT !.pc = "syncDir", !.size = 0]
  <1>1. db' = [db EXCEPT ![p] = b] /\ db[p].pc = "truncate"
    BY DEF Truncate
  <1>2. b \in DB /\ b.pc = "syncDir" /\ b.data = db[p].data /\ b.tx = db[p].tx
    BY ProcessType DEF DB, Stages
  <1> HIDE DEF b
  <1>3. Moved(p, "syncDir", db[p].data, db[p].tx)
    BY <1>1, <1>2, Move
  <1>4. <<>> \in Logs
    BY DEF Logs
  <1>5. FilesType'
    BY <1>4 DEF Truncate, Unsynced, Files, FilesType, TypeOK
  <1> QED
    BY <1>1, <1>3, <1>5, MovedType DEF Truncate, Running, Runs, TypeOK

LEMMA ReturnType ==
    ASSUME TypeOK, NEW p \in Procs, Running(p), Return(p), FilesType', doubt' \subseteq Keys
    PROVE  TypeOK'
  BY ReturnMove, MovedType, EndedType DEF Runs

LEMMA SeekFailsType ==
    ASSUME TypeOK, NEW p \in Procs, SeekFails(p)
    PROVE  TypeOK'
  <1>1. <<>> \in Logs
    BY DEF Logs
  <1>2. FilesType'
    BY <1>1 DEF SeekFails, Unsynced, Files, FilesType, TypeOK
  <1> QED
    BY <1>2, ReturnType DEF SeekFails, Running, TypeOK

LEMMA SyncDirType ==
    ASSUME TypeOK, NEW p \in Procs, SyncDir(p)
    PROVE  TypeOK'
  <1>1. Running(p) /\ doubt' \subseteq Keys
    BY DEF SyncDir, Running, TypeOK
  <1>2. FilesType'
    BY DEF SyncDir, Files, FilesType, TypeOK
  <1> QED
    BY <1>1, <1>2, ReturnType DEF SyncDir

LEMMA KillMove ==
    ASSUME TypeOK, NEW p \in Procs, Kill(p)
    PROVE  /\ Ended(p) /\ TypeOK'
           /\ \E part : /\ log' = log \o part
                        /\ part \in IF db[p].pc = "write" THEN Parts(db[p].tx) ELSE {<<>>}
  <1>1. PICK part \in IF db[p].pc = "write" THEN Parts(db[p].tx) ELSE {<<>>} :
          log' = log \o part
    BY DEF Kill
  <1>2. part \in Logs
    <2>1. CASE db[p].pc = "write"
      BY <1>1, <2>1, ProcessType, PartType
    <2>2. CASE db[p].pc # "write"
      BY <1>1, <2>2 DEF Logs
    <2> QED
      BY <2>1, <2>2
  <1>3. log' \in Logs
    BY <1>1, <1>2, AppendType
  <1>4. FilesType'
    <2>1. snap' = snap /\ disk' = disk \cup {[snap |-> snap', log |-> log']}
      BY DEF Kill, Unsynced, Files
    <2> QED
      BY <1>3, <2>1 DEF FilesType, TypeOK
  <1>5. Ended(p) /\ doubt' \subseteq Keys
    BY ReleaseMove, ProcessType, TxType DEF Kill, TypeOK
  <1>6. TypeOK'
    BY <1>4, <1>5, EndedType
  <1> QED
    BY <1>1, <1>5, <1>6

LEMMA PowerType ==
    ASSUME TypeOK, PowerFails
    PROVE  TypeOK'
  <1>1. PICK f \in disk \cup {[snap |-> snap, log |-> s] : s \in Seen} :
          snap' = f.snap /\ log' = f.log
    BY DEF PowerFails
  <1>2. f \in [snap : Maps, log : Logs]
    BY SeenType DEF TypeOK
  <1>3. FilesType'
    BY <1>1, <1>2 DEF PowerFails, Synced, Files, FilesType
  <1>4. EmptyMap \in Maps
    BY DEF EmptyMap, Maps, Cell
  <1>5. db' \in [Procs -> DB] /\ \A q \in Procs : ~ Running(q)'
    BY <1>4 DEF PowerFails, Down, DB, Stages, Running
  <1> QED
    BY <1>3, <1>5, KVAssumption DEF PowerFails, FilesType, TypeOK

LEMMA TypeStep ==
    ASSUME TypeOK, [Next]_vars
    PROVE  TypeOK'
  <1>1. ASSUME NEW p \in Procs, Operate(p) PROVE TypeOK'
    <2>1. CASE LoadSnapshot(p) \/ ReplayLog(p) \/ Cut(p) \/ Lock(p)
      BY <2>1, LoadMove, ReplayMove, CutMove, LockMove
    <2>2. CASE OpenFails(p)
      BY <2>2, ReleaseMove, EndedType DEF OpenFails, FilesType, TypeOK
    <2>3. CASE \E w \in Txs : Update(p, w)
      BY <2>3, UpdateMove
    <2>4. CASE Write(p) \/ WriteFails(p) \/ Sync(p) \/ SyncFails(p)
      BY <2>4, WriteMove, WriteFailsMove, SyncMove, SyncFailsMove
    <2>5. CASE Close(p) \/ Rename(p) \/ Truncate(p) \/ SyncDir(p)
      BY <2>5, CloseMove, RenameMove, TruncateMove, SyncDirType
    <2>6. CASE CompactFails(p)
      BY <2>6, ReturnType DEF CompactFails, Running, FilesType, TypeOK
    <2>7. CASE SeekFails(p)
      BY <2>7, SeekFailsType
    <2> QED
      BY <1>1, <2>1, <2>2, <2>3, <2>4, <2>5, <2>6, <2>7 DEF Operate
  <1>2. ASSUME NEW p \in Procs, Kill(p) PROVE TypeOK'
    BY <1>2, KillMove
  <1>3. CASE UNCHANGED vars
    BY <1>3 DEF vars, TypeOK, Running
  <1> QED
    BY <1>1, <1>2, <1>3, PowerType DEF Next

LEMMA InitType == Init => TypeOK
  <1> SUFFICES ASSUME Init PROVE TypeOK
    OBVIOUS
  <1>1. EmptyMap \in Maps /\ <<>> \in Logs
    BY DEF EmptyMap, Maps, Cell, Logs
  <1>2. Down \in DB /\ Down.pc = "down"
    BY <1>1 DEF Down, DB, Stages
  <1> QED
    BY <1>1, <1>2, KVAssumption DEF Init, Files, TypeOK, Running

\* The files, the lock and the processes keep their types, and the lock is
\* held from Lock to Return by the process that runs, for any number of
\* processes (internal/kv Open, Update, Close).
THEOREM TypeCorrect == Spec => []TypeOK
  BY InitType, TypeStep, PTL DEF Spec

----------------------------------------------------------------------------
(* One process: what the files may hold. *)

OneProcess == \E p : Procs = {p}

\* n is what a restart may make of m when the keys of ks are in doubt and the
\* first i records of the write set w are in the log.
Holds(n, m, w, i, ks) == Agrees(n, Replay(m, Prefix(w, i)), ks \ Touched(Prefix(w, i)))
May(n, m, w, ks) == \E i \in 0..Len(w) : Holds(n, m, w, i, ks)

\* The map that p works with, or the next process will find.
Base(p) == IF Running(p) THEN db[p].data ELSE Recovered(Files)
\* The write set that is in the log already.
Written(p) == IF db[p].pc = "sync" THEN db[p].tx ELSE <<>>

FilesOK(p) ==
    \A f \in disk \cup {Files} : May(Recovered(f), Base(p), Written(p), doubt)

\* What p knows at each stage.
StageOK(p) ==
    /\ db[p].tx # <<>> => db[p].pc \in {"write", "sync"}
    /\ db[p].pc = "replay" => db[p].data = snap
    /\ db[p].pc \in {"cut", "lock"} => db[p].data = Recovered(Files)
    /\ db[p].pc = "cut" => db[p].off = ValidLength(log)
    /\ db[p].pc = "lock" \/ Running(p) => Whole(log)
    /\ db[p].pc = "sync" =>
          Agrees(Recovered(Files), Replay(db[p].data, db[p].tx), doubt \ Touched(db[p].tx))
    /\ db[p].pc \in {"truncate", "syncDir"} => snap = db[p].data
    /\ db[p].pc = "syncDir" => log = <<>>

KVInv(p) == StageOK(p) /\ FilesOK(p)

LEMMA NoTouch == Touched(<<>>) = {}
  BY DEF Touched

LEMMA MaySame ==
    ASSUME NEW n, NEW m \in Maps, NEW ks
    PROVE  May(n, m, <<>>, ks) <=> Agrees(n, m, ks)
  <1>1. Len(<<>>) = 0 /\ Prefix(<<>>, 0) = <<>>
    BY DEF Prefix
  <1> QED
    BY <1>1, NoTouch, ReplayEmpty DEF May, Holds, Agrees

\* Keys that neither are in doubt nor written have kept their values.
LEMMA MayUntouched ==
    ASSUME NEW n, NEW m, NEW w \in TxOrNone, NEW ks, May(n, m, w, ks)
    PROVE  Agrees(n, m, ks \cup Touched(w))
  <1>1. PICK i \in 0..Len(w) : Holds(n, m, w, i, ks)
    BY DEF May
  <1>2. Touched(Prefix(w, i)) \subseteq Touched(w)
    BY PrefixType
  <1> QED
    BY <1>1, <1>2, ReplayUntouched DEF Holds, Agrees

\* What a write leaves behind, whole or in part.
LEMMA MayWrite ==
    ASSUME NEW n \in Maps, NEW m \in Maps, NEW ks, NEW w \in TxOrNone, Agrees(n, m, ks)
    PROVE  /\ Agrees(Replay(n, w), Replay(m, w), ks \ Touched(w))
           /\ \A part \in Parts(w) : May(Replay(n, part), m, w, ks)
           /\ May(n, m, w, ks)
  <1>1. ASSUME NEW i \in 0..Len(w) PROVE Holds(Replay(n, Prefix(w, i)), m, w, i, ks)
    <2> SUFFICES ASSUME NEW k \in Keys, k \notin ks \/ k \in Touched(Prefix(w, i))
                 PROVE  Replay(n, Prefix(w, i))[k] = Replay(m, Prefix(w, i))[k]
      BY DEF Holds, Agrees
    <2>1. Writes(Prefix(w, i), k) # {} \/ n[k] = m[k]
      BY PrefixType DEF Agrees
    <2>2. \A x \in Maps : Replay(x, Prefix(w, i))[k] =
             IF Writes(Prefix(w, i), k) = {} THEN x[k]
             ELSE Prefix(w, i)[LastWrite(Prefix(w, i), k)].val
      BY ReplayValue
    <2> QED
      BY <2>1, <2>2
  <1>2. Len(w) \in Nat /\ Prefix(w, 0) = <<>> /\ Prefix(w, Len(w)) = w
    <2>1. Len(w) \in Nat
      BY TxType, LogType
    <2> QED
      BY <2>1, PrefixType
  <1>3. ASSUME NEW part \in Parts(w) PROVE May(Replay(n, part), m, w, ks)
    <2>1. PICK i \in 0..Len(w) : Replay(n, part) = Replay(n, Prefix(w, i))
      BY PartType
    <2> QED
      BY <1>1, <2>1 DEF May
  <1>4. May(n, m, w, ks)
    <2>1. Replay(n, Prefix(w, 0)) = n /\ 0 \in 0..Len(w)
      BY <1>2, ReplayEmpty
    <2>2. Holds(n, m, w, 0, ks)
      BY <1>1, <2>1
    <2> QED
      BY <2>1, <2>2 DEF May
  <1>5. Agrees(Replay(n, w), Replay(m, w), ks \ Touched(w))
    <2>1. Len(w) \in 0..Len(w)
      BY <1>2
    <2> QED
      BY <1>1, <1>2, <2>1 DEF Holds
  <1> QED
    BY <1>3, <1>4, <1>5

LEMMA FileTypes ==
    ASSUME TypeOK, NEW p \in Procs
    PROVE  /\ \A f \in disk \cup {Files} :
                 f.snap \in Maps /\ f.log \in Logs /\ Recovered(f) \in Maps
           /\ Base(p) \in Maps
           /\ Files.snap = snap /\ Files.log = log
           /\ Recovered(Files) = Replay(snap, log)
  <1>1. \A f \in disk \cup {Files} : f.snap \in Maps /\ f.log \in Logs
    BY DEF TypeOK, Files
  <1>2. \A f \in disk \cup {Files} : Recovered(f) \in Maps
    BY <1>1, ReplayType DEF Recovered
  <1>3. Base(p) \in Maps
    BY <1>2, ProcessType DEF Base
  <1>4. Files.snap = snap /\ Files.log = log
    BY DEF Files
  <1> QED
    BY <1>1, <1>2, <1>3, <1>4 DEF Recovered

LEMMA PlainFiles ==
    ASSUME TypeOK, NEW p \in Procs, KVInv(p), db[p].pc # "sync"
    PROVE  \A f \in disk \cup {Files} : Agrees(Recovered(f), Base(p), doubt)
  <1>1. Base(p) \in Maps
    BY FileTypes
  <1> QED
    BY <1>1, MaySame DEF KVInv, FilesOK, Written

LEMMA PlainStep ==
    ASSUME NEW p \in Procs, NEW m \in Maps, Base(p)' = m, db'[p].pc # "sync",
           NEW S, disk' \cup {Files'} \subseteq S,
           \A f \in S : Agrees(Recovered(f), m, doubt')
    PROVE  FilesOK(p)'
  <1>1. Written(p)' = <<>>
    BY DEF Written
  <1>2. \A f \in disk' \cup {Files'} : May(Recovered(f), m, <<>>, doubt')
    BY MaySame
  <1> QED
    BY <1>1, <1>2 DEF FilesOK

\* The process ends: whatever agrees with some map agrees with what is found.
LEMMA EndInv ==
    ASSUME TypeOK', NEW p \in Procs, Ended(p), NEW m, NEW S,
           disk' \cup {Files'} \subseteq S, \A f \in S : Agrees(Recovered(f), m, doubt')
    PROVE  KVInv(p)'
  <1>1. db'[p].pc = "down" /\ db'[p].tx = <<>> /\ ~ Running(p)'
    BY DEF Ended, Moved, Running
  <1>2. StageOK(p)'
    BY <1>1 DEF StageOK
  <1> DEFINE F == [snap |-> snap', log |-> log']
             n == Recovered(F)
  <1>3. F = Files' /\ F \in S
    BY DEF Files
  <1>4. snap' \in Maps /\ log' \in Logs
    BY DEF TypeOK
  <1>5. n \in Maps
    BY <1>4, ReplayType DEF Recovered
  <1>6. Base(p)' = n
    BY <1>1, <1>3 DEF Base
  <1> HIDE DEF F
  <1>7. \A f \in S : Agrees(Recovered(f), n, doubt')
    BY <1>3 DEF Agrees
  <1> HIDE DEF n
  <1>8. FilesOK(p)'
    <2>1. PICK q : q = n
      OBVIOUS
    <2> QED
      BY <1>1, <1>5, <1>6, <1>7, <2>1, PlainStep
  <1> QED
    BY <1>2, <1>8 DEF KVInv

----------------------------------------------------------------------------
(* Open. *)

LEMMA LoadInv ==
    ASSUME TypeOK, NEW p \in Procs, KVInv(p), LoadSnapshot(p)
    PROVE  KVInv(p)'
  <1>1. /\ db[p].pc = "down" /\ UNCHANGED <<snap, log, disk, lock, doubt>>
        /\ db'[p].pc = "replay" /\ db'[p].data = snap /\ db'[p].tx = db[p].tx
    BY LoadMove DEF LoadSnapshot, Moved
  <1>2. db'[p].tx = <<>> /\ ~ Running(p) /\ ~ Running(p)'
    BY <1>1 DEF KVInv, StageOK, Running
  <1>3. StageOK(p)'
    BY <1>1, <1>2 DEF StageOK
  <1>4. FilesOK(p)'
    BY <1>1, <1>2 DEF KVInv, FilesOK, Base, Written, Files
  <1> QED
    BY <1>3, <1>4 DEF KVInv

LEMMA ReplayInv ==
    ASSUME TypeOK, NEW p, Procs = {p}, KVInv(p), ReplayLog(p)
    PROVE  KVInv(p)'
  <1>1. db[p].pc = "replay" /\ UNCHANGED <<snap, log, disk, lock, doubt>>
    BY DEF ReplayLog
  <1>2. Seen = {log}
    BY <1>1 DEF Seen
  <1>3. /\ db'[p].pc = IF ValidLength(log) < Len(log) THEN "cut" ELSE "lock"
        /\ db'[p].data = Replay(snap, log) /\ db'[p].tx = <<>>
        /\ db'[p].off = ValidLength(log)
    BY <1>1, <1>2, ReplayMove DEF Moved, KVInv, StageOK
  <1>4. ~ Running(p) /\ ~ Running(p)' /\ db'[p].pc \in {"cut", "lock"}
    BY <1>1, <1>3 DEF Running
  <1>5. db'[p].pc = "lock" => Whole(log)
    BY <1>3, UncutLog DEF TypeOK
  <1>6. StageOK(p)'
    BY <1>1, <1>3, <1>4, <1>5 DEF StageOK, Recovered, Files
  <1>7. FilesOK(p)'
    BY <1>1, <1>4 DEF KVInv, FilesOK, Base, Written, Files
  <1> QED
    BY <1>6, <1>7 DEF KVInv

LEMMA CutInv ==
    ASSUME TypeOK, TypeOK', NEW p \in Procs, KVInv(p), Cut(p)
    PROVE  KVInv(p)'
  <1>1. /\ db[p].pc = "cut" /\ UNCHANGED <<snap, lock, doubt>>
        /\ db'[p].pc = "lock" /\ db'[p].data = db[p].data /\ db'[p].tx = db[p].tx
        /\ log' = Resize(log, ValidLength(log)) /\ disk' = disk \cup {Files'}
    BY CutMove DEF Cut, Moved, Unsynced, KVInv, StageOK
  <1>2. log \in Logs /\ snap \in Maps
    BY DEF TypeOK
  <1>3. Whole(log') /\ Replay(snap, log') = Replay(snap, log)
    BY <1>1, <1>2, CutLog
  <1>4. db[p].data = Replay(snap, log) /\ db[p].tx = <<>> /\ ~ Running(p) /\ ~ Running(p)'
    BY <1>1, FileTypes DEF KVInv, StageOK, Running
  <1>5. Recovered(Files') = Replay(snap, log)
    BY <1>1, <1>3 DEF Recovered, Files
  <1>6. StageOK(p)'
    BY <1>1, <1>3, <1>4, <1>5 DEF StageOK
  <1>7. \A f \in disk \cup {Files} : Agrees(Recovered(f), Replay(snap, log), doubt)
    BY <1>1, <1>4, PlainFiles, FileTypes DEF Base
  <1>8. \A f \in disk' \cup {Files'} : Agrees(Recovered(f), Replay(snap, log), doubt')
    BY <1>1, <1>5, <1>7 DEF Agrees
  <1>9. FilesOK(p)'
    <2>1. PICK m \in Maps : m = Replay(snap, log)
      BY <1>2, ReplayType
    <2>2. Base(p)' = m
      BY <1>4, <1>5, <2>1 DEF Base
    <2> QED
      BY <1>1, <1>8, <2>1, <2>2, PlainStep
  <1> QED
    BY <1>6, <1>9 DEF KVInv

LEMMA LockInv ==
    ASSUME TypeOK, NEW p, Procs = {p}, KVInv(p), Lock(p)
    PROVE  KVInv(p)'
  <1>1. db[p].pc = "lock" /\ ~ Running(p) /\ UNCHANGED <<snap, log, disk, doubt>>
    BY DEF Lock, Running
  <1>2. lock = None
    BY <1>1 DEF TypeOK
  <1>3. Moved(p, "open", db[p].data, db[p].tx)
    <2>1. lock # p
      BY <1>1 DEF TypeOK
    <2>2. db' = [db EXCEPT ![p].pc = "open", ![p].off = 0, ![p].size = Len(log)]
      BY <1>2 DEF Lock
    <2>3. db'[p].pc = "open"
      BY <2>2, ProcessType DEF DB, TypeOK
    <2> QED
      BY <2>3, LockMove DEF Ended, Moved
  <1>4. /\ db'[p].pc = "open" /\ db'[p].data = db[p].data /\ db'[p].tx = <<>>
        /\ db[p].data = Recovered(Files) /\ Whole(log)
    BY <1>1, <1>3 DEF Moved, KVInv, StageOK
  <1>5. Running(p)'
    BY <1>4 DEF Running
  <1>6. StageOK(p)'
    BY <1>1, <1>4 DEF StageOK
  <1>7. Base(p)' = Base(p) /\ Written(p)' = Written(p)
    BY <1>1, <1>4, <1>5 DEF Base, Written
  <1>8. FilesOK(p)'
    BY <1>1, <1>7 DEF KVInv, FilesOK, Files
  <1> QED
    BY <1>6, <1>8 DEF KVInv

LEMMA OpenFailsInv ==
    ASSUME TypeOK, TypeOK', NEW p \in Procs, KVInv(p), OpenFails(p)
    PROVE  KVInv(p)'
  <1>1. Ended(p) /\ db[p].pc # "sync" /\ UNCHANGED <<snap, log, disk, doubt>>
    BY ReleaseMove DEF OpenFails
  <1>2. disk' \cup {Files'} = disk \cup {Files}
    BY <1>1 DEF Files
  <1>3. PICK m, S : m = Base(p) /\ S = disk \cup {Files}
    OBVIOUS
  <1>4. \A f \in S : Agrees(Recovered(f), m, doubt)
    BY <1>1, <1>3, PlainFiles
  <1> QED
    BY <1>1, <1>2, <1>3, <1>4, EndInv

----------------------------------------------------------------------------
(* Update. *)

LEMMA UpdateInv ==
    ASSUME TypeOK, NEW p \in Procs, KVInv(p), NEW w \in Txs, Update(p, w)
    PROVE  KVInv(p)'
  <1>1. /\ db[p].pc = "open" /\ UNCHANGED <<snap, log, disk, lock, doubt>>
        /\ db'[p].pc = "write" /\ db'[p].data = db[p].data
    BY UpdateMove DEF Update, Moved
  <1>2. Running(p) /\ Running(p)'
    BY <1>1 DEF Running
  <1>3. StageOK(p)'
    BY <1>1, <1>2 DEF KVInv, StageOK
  <1>4. Base(p)' = Base(p) /\ Written(p)' = Written(p)
    BY <1>1, <1>2 DEF Base, Written
  <1>5. FilesOK(p)'
    BY <1>1, <1>4 DEF KVInv, FilesOK, Files
  <1> QED
    BY <1>3, <1>5 DEF KVInv

LEMMA WholeConcat ==
    ASSUME NEW s \in Logs, NEW t \in Logs, Whole(s), Whole(t)
    PROVE  Whole(s \o t)
  <1>1. s \in Seq(Record) /\ t \in Seq(Record) /\ Len(s) \in Nat /\ Len(t) \in Nat
    BY DEF Logs, Record
  <1>2. DOMAIN s = 1..Len(s) /\ DOMAIN t = 1..Len(t)
    BY LogType
  <1>3. /\ s \o t \in Seq(Record) /\ Len(s \o t) = Len(s) + Len(t)
        /\ \A i \in 1 .. Len(s) + Len(t) :
              (s \o t)[i] = IF i <= Len(s) THEN s[i] ELSE t[i - Len(s)]
    BY <1>1, ConcatProperties
  <1>4. DOMAIN (s \o t) = 1 .. Len(s) + Len(t)
    BY <1>3, LenProperties
  <1> SUFFICES ASSUME NEW i \in 1 .. Len(s) + Len(t) PROVE (s \o t)[i] # Torn
    BY <1>4 DEF Whole
  <1>5. CASE i <= Len(s)
    BY <1>1, <1>2, <1>3, <1>5 DEF Whole
  <1>6. CASE i > Len(s)
    <2>1. i - Len(s) \in DOMAIN t
      BY <1>1, <1>2, <1>6
    <2> QED
      BY <1>1, <1>3, <1>6, <2>1 DEF Whole
  <1> QED
    BY <1>1, <1>5, <1>6

\* The log of a process at work, extended by a part of its write set.
LEMMA AppendPart ==
    ASSUME TypeOK, NEW p \in Procs, KVInv(p), Running(p), db[p].pc # "sync",
           NEW w \in TxOrNone, NEW part \in Parts(w)
    PROVE  /\ Recovered([snap |-> snap, log |-> log \o part]) =
                 Replay(Recovered(Files), part)
           /\ May(Recovered([snap |-> snap, log |-> log \o part]), db[p].data, w, doubt)
  <1>1. /\ snap \in Maps /\ log \in Logs /\ part \in Logs /\ Whole(log)
        /\ Recovered(Files) = Replay(snap, log) /\ Recovered(Files) \in Maps
        /\ db[p].data \in Maps
    BY PartType, FileTypes, ProcessType DEF TypeOK, KVInv, StageOK
  <1>2. Recovered([snap |-> snap, log |-> log \o part]) = Replay(Recovered(Files), part)
    BY <1>1, ReplayConcat DEF Recovered
  <1>3. Agrees(Recovered(Files), db[p].data, doubt)
    BY PlainFiles DEF Base
  <1> QED
    BY <1>1, <1>2, <1>3, MayWrite

LEMMA WriteInv ==
    ASSUME TypeOK, TypeOK', NEW p \in Procs, KVInv(p), Write(p)
    PROVE  KVInv(p)'
  <1> DEFINE m == db[p].data
             w == db[p].tx
             F == [snap |-> snap, log |-> log \o w]
  <1>1. /\ db[p].pc = "write" /\ UNCHANGED <<snap, lock, doubt>> /\ log' = log \o w
        /\ disk' = disk \cup {[snap |-> snap, log |-> log \o part] : part \in Parts(w)}
        /\ db'[p].pc = "sync" /\ db'[p].data = m /\ db'[p].tx = w
    BY WriteMove DEF Write, Moved
  <1>2. /\ Running(p) /\ Running(p)' /\ w \in TxOrNone /\ m \in Maps /\ w \in Parts(w)
        /\ log \in Logs /\ Whole(log)
    BY <1>1, ProcessType DEF Running, TypeOK, Parts, KVInv, StageOK
  <1>3. Files' = F
    BY <1>1 DEF Files
  <1>4. Recovered(F) = Replay(Recovered(Files), w)
    BY <1>1, <1>2, AppendPart
  <1>5. /\ Agrees(Recovered(F), Replay(m, w), doubt \ Touched(w))
        /\ \A f \in disk \cup {Files} : May(Recovered(f), m, w, doubt)
    <2>1. \A f \in disk \cup {Files} : Recovered(f) \in Maps /\ Agrees(Recovered(f), m, doubt)
      BY <1>1, <1>2, FileTypes, PlainFiles DEF Base
    <2>2. \A f \in disk \cup {Files} : May(Recovered(f), m, w, doubt)
      BY <1>2, <2>1, MayWrite
    <2>3. Agrees(Replay(Recovered(Files), w), Replay(m, w), doubt \ Touched(w))
      BY <1>2, <2>1, MayWrite
    <2> QED
      BY <1>4, <2>2, <2>3
  <1>6. Whole(log')
    BY <1>1, <1>2, TxType, WholeConcat
  <1> HIDE DEF m, w
  <1>7. StageOK(p)'
    BY <1>1, <1>3, <1>5, <1>6 DEF StageOK
  <1>8. \A f \in disk' \cup {Files'} : May(Recovered(f), m, w, doubt)
    <2>1. \A part \in Parts(w) :
             May(Recovered([snap |-> snap, log |-> log \o part]), m, w, doubt)
      BY <1>1, <1>2, AppendPart DEF m
    <2> QED
      BY <1>1, <1>2, <1>3, <1>5, <2>1
  <1>9. FilesOK(p)'
    <2>1. Base(p)' = m /\ Written(p)' = w
      BY <1>1, <1>2 DEF Base, Written
    <2> QED
      BY <1>1, <1>8, <2>1 DEF FilesOK
  <1> QED
    BY <1>7, <1>9 DEF KVInv

LEMMA WriteFailsInv ==
    ASSUME TypeOK, TypeOK', ~ ShortWrites, NEW p \in Procs, KVInv(p), WriteFails(p)
    PROVE  KVInv(p)'
  <1>1. /\ db[p].pc = "write" /\ UNCHANGED <<snap, lock, doubt>>
        /\ db'[p].pc = "open" /\ db'[p].data = db[p].data /\ db'[p].tx = <<>>
        /\ disk' = disk \cup {Files'}
    BY WriteFailsMove DEF WriteFails, Moved, Unsynced
  <1>2. log' = log
    <2>1. log' = log \o <<>> /\ log \in Seq(Record)
      BY DEF WriteFails, TypeOK, Logs, Record
    <2> QED
      BY <2>1, ConcatEmptySeq
  <1>3. disk' \cup {Files'} = disk \cup {Files}
    BY <1>1, <1>2 DEF Files
  <1>4. Running(p) /\ Running(p)'
    BY <1>1 DEF Running
  <1>5. StageOK(p)'
    BY <1>1, <1>2, <1>4 DEF KVInv, StageOK
  <1>6. PICK m, S : m \in Maps /\ m = Base(p) /\ S = disk \cup {Files}
    BY FileTypes
  <1>7. Base(p)' = m
    BY <1>1, <1>4, <1>6 DEF Base
  <1>8. \A f \in S : Agrees(Recovered(f), m, doubt')
    BY <1>1, <1>6, PlainFiles
  <1>9. FilesOK(p)'
    BY <1>1, <1>3, <1>6, <1>7, <1>8, PlainStep
  <1> QED
    BY <1>5, <1>9 DEF KVInv

LEMMA SyncInv ==
    ASSUME TypeOK, TypeOK', NEW p \in Procs, KVInv(p), Sync(p)
    PROVE  KVInv(p)'
  <1>1. PICK m \in Maps : m = Replay(db[p].data, db[p].tx)
    BY ProcessType, TxType, ReplayType
  <1>2. /\ db[p].pc = "sync" /\ UNCHANGED <<snap, log, lock>> /\ disk' = {Files'}
        /\ doubt' = doubt \ Touched(db[p].tx)
        /\ db'[p].pc \in {"open", "snapshot"} /\ db'[p].data = m /\ db'[p].tx = <<>>
    BY <1>1, SyncMove DEF Sync, Moved, Synced
  <1>3. Running(p) /\ Running(p)'
    BY <1>2 DEF Running
  <1>4. StageOK(p)'
    BY <1>2, <1>3 DEF KVInv, StageOK
  <1>5. Agrees(Recovered(Files'), m, doubt')
    BY <1>1, <1>2 DEF KVInv, StageOK, Files
  <1>6. FilesOK(p)'
    <2>1. Base(p)' = m /\ db'[p].pc # "sync"
      BY <1>2, <1>3 DEF Base
    <2>2. PICK S : S = {Files'}
      OBVIOUS
    <2>3. disk' \cup {Files'} \subseteq S /\ \A f \in S : Agrees(Recovered(f), m, doubt')
      BY <1>2, <1>5, <2>2
    <2> QED
      BY <2>1, <2>3, PlainStep
  <1> QED
    BY <1>4, <1>6 DEF KVInv

LEMMA SyncFailsInv ==
    ASSUME TypeOK, TypeOK', NEW p \in Procs, KVInv(p), SyncFails(p)
    PROVE  KVInv(p)'
  <1>1. /\ db[p].pc = "sync" /\ UNCHANGED <<snap, log, disk, lock>>
        /\ doubt' = doubt \cup Touched(db[p].tx)
        /\ db'[p].pc = "open" /\ db'[p].data = db[p].data /\ db'[p].tx = <<>>
    BY SyncFailsMove DEF SyncFails, Moved
  <1>2. Running(p) /\ Running(p)'
    BY <1>1 DEF Running
  <1>3. StageOK(p)'
    BY <1>1, <1>2 DEF KVInv, StageOK
  <1>4. PICK m, S : m \in Maps /\ m = Base(p) /\ S = disk \cup {Files}
    BY FileTypes
  <1>5. \A f \in S : Agrees(Recovered(f), m, doubt')
    <2>1. db[p].tx \in TxOrNone
      BY ProcessType
    <2>2. \A f \in S : May(Recovered(f), m, db[p].tx, doubt)
      BY <1>1, <1>4 DEF KVInv, FilesOK, Written
    <2> QED
      BY <1>1, <2>1, <2>2, MayUntouched
  <1>6. Base(p)' = m /\ db'[p].pc # "sync" /\ disk' \cup {Files'} = S
    BY <1>1, <1>2, <1>4 DEF Base, Files
  <1>7. FilesOK(p)'
    BY <1>4, <1>5, <1>6, PlainStep
  <1> QED
    BY <1>3, <1>7 DEF KVInv

----------------------------------------------------------------------------
(* Compaction. *)

LEMMA CloseInv ==
    ASSUME TypeOK, NEW p \in Procs, KVInv(p), Close(p)
    PROVE  KVInv(p)'
  <1>1. /\ db[p].pc = "open" /\ UNCHANGED <<snap, log, disk, lock, doubt>>
        /\ db'[p].pc = "snapshot" /\ db'[p].data = db[p].data /\ db'[p].tx = db[p].tx
    BY CloseMove DEF Close, Moved
  <1>2. Running(p) /\ Running(p)'
    BY <1>1 DEF Running
  <1>3. StageOK(p)'
    BY <1>1, <1>2 DEF KVInv, StageOK
  <1>4. Base(p)' = Base(p) /\ Written(p)' = Written(p)
    BY <1>1, <1>2 DEF Base, Written
  <1>5. FilesOK(p)'
    BY <1>1, <1>4 DEF KVInv, FilesOK, Files
  <1> QED
    BY <1>3, <1>5 DEF KVInv

\* The new snapshot under the old log: the log writes again what is in it.
LEMMA RenameInv ==
    ASSUME TypeOK, TypeOK', NEW p \in Procs, KVInv(p), Rename(p)
    PROVE  KVInv(p)'
  <1>1. PICK m \in Maps : m = db[p].data
    BY ProcessType
  <1>2. /\ db[p].pc = "snapshot" /\ UNCHANGED <<log, lock, doubt>> /\ snap' = m
        /\ disk' = disk \cup {Files'}
        /\ db'[p].pc = "truncate" /\ db'[p].data = m /\ db'[p].tx = <<>>
    BY <1>1, RenameMove DEF Rename, Moved, Unsynced, KVInv, StageOK
  <1>3. Running(p) /\ Running(p)' /\ Base(p) = m /\ Base(p)' = m
    BY <1>1, <1>2 DEF Running, Base
  <1>4. StageOK(p)'
    BY <1>2, <1>3 DEF KVInv, StageOK
  <1>5. \A f \in disk \cup {Files} : Agrees(Recovered(f), m, doubt)
    BY <1>2, <1>3, PlainFiles
  <1>6. Agrees(Recovered(Files'), m, doubt)
    <2>1. Recovered(Files') = Replay(m, log) /\ Recovered(Files) = Replay(snap, log)
      BY <1>2 DEF Recovered, Files
    <2> QED
      BY <1>5, <2>1, ReplayAgain DEF Agrees
  <1>7. FilesOK(p)'
    <2>1. PICK S : S = disk' \cup {Files'}
      OBVIOUS
    <2> QED
      BY <1>2, <1>3, <1>5, <1>6, <2>1, PlainStep
  <1> QED
    BY <1>4, <1>7 DEF KVInv

LEMMA TruncateInv ==
    ASSUME TypeOK, TypeOK', NEW p \in Procs, KVInv(p), Truncate(p)
    PROVE  KVInv(p)'
  <1>1. PICK m \in Maps : m = db[p].data
    BY ProcessType
  <1>2. /\ db[p].pc = "truncate" /\ UNCHANGED <<snap, lock, doubt>> /\ snap = m /\ log' = <<>>
        /\ disk' = disk \cup {Files'}
        /\ db'[p].pc = "syncDir" /\ db'[p].data = m /\ db'[p].tx = <<>>
    BY <1>1, TruncateMove DEF Truncate, Moved, Unsynced, KVInv, StageOK
  <1>3. Running(p) /\ Running(p)' /\ Base(p) = m /\ Base(p)' = m
    BY <1>1, <1>2 DEF Running, Base
  <1>4. StageOK(p)'
    BY <1>2, <1>3 DEF StageOK, Whole
  <1>5. \A f \in disk \cup {Files} : Agrees(Recovered(f), m, doubt)
    BY <1>2, <1>3, PlainFiles
  <1>6. Agrees(Recovered(Files'), m, doubt)
    BY <1>2, ReplayEmpty DEF Recovered, Files, Agrees
  <1>7. FilesOK(p)'
    <2>1. PICK S : S = disk' \cup {Files'}
      OBVIOUS
    <2> QED
      BY <1>2, <1>3, <1>5, <1>6, <2>1, PlainStep
  <1> QED
    BY <1>4, <1>7 DEF KVInv

\* compactLocked returns, and with it Update or Close.
LEMMA ReturnInv ==
    ASSUME TypeOK, TypeOK', NEW p \in Procs, KVInv(p), Return(p),
           db[p].pc \in {"snapshot", "truncate", "syncDir"}, UNCHANGED <<snap, log>>,
           \/ UNCHANGED <<disk, doubt>>
           \/ db[p].pc = "syncDir" /\ disk' = {Files} /\ doubt' = {}
    PROVE  KVInv(p)'
  <1>1. PICK m, S : /\ m \in Maps /\ m = db[p].data
                    /\ S = disk' \cup {Files'}
    BY ProcessType
  <1>2. Running(p) /\ Base(p) = m /\ db[p].tx = <<>> /\ Files' = Files
    BY <1>1 DEF Running, Base, KVInv, StageOK, Files
  <1>3. \A f \in disk \cup {Files} : Agrees(Recovered(f), m, doubt)
    BY <1>2, PlainFiles
  <1>4. db[p].pc = "syncDir" => Recovered(Files) = m
    <2>1. db[p].pc = "syncDir" => snap = m /\ log = <<>>
      BY <1>1 DEF KVInv, StageOK
    <2> QED
      BY <1>1, <2>1, ReplayEmpty DEF Recovered, Files
  <1>5. \A f \in S : Agrees(Recovered(f), m, doubt')
    <2>1. CASE UNCHANGED <<disk, doubt>>
      BY <1>1, <1>2, <1>3, <2>1
    <2>2. CASE db[p].pc = "syncDir" /\ disk' = {Files}
      BY <1>1, <1>2, <1>4, <2>2 DEF Agrees
    <2> QED
      BY <2>1, <2>2
  <1>6. CASE Ended(p)
    BY <1>1, <1>5, <1>6, EndInv
  <1>7. CASE Moved(p, "open", db[p].data, db[p].tx)
    <2>1. db'[p].pc = "open" /\ db'[p].data = m /\ db'[p].tx = <<>> /\ Running(p)'
      BY <1>1, <1>2, <1>7 DEF Moved, Running
    <2>2. StageOK(p)'
      BY <1>2, <2>1 DEF KVInv, StageOK
    <2>3. FilesOK(p)'
      <3>1. Base(p)' = m
        BY <2>1 DEF Base
      <3> QED
        BY <1>1, <1>5, <2>1, <3>1, PlainStep
    <2> QED
      BY <2>2, <2>3 DEF KVInv
  <1> QED
    BY <1>6, <1>7, ReturnMove

\* Seek fails: the snapshot alone holds the map.
LEMMA SeekFailsInv ==
    ASSUME TypeOK, TypeOK', NEW p \in Procs, KVInv(p), SeekFails(p)
    PROVE  KVInv(p)' /\ Recovered(Files') = db[p].data
  <1>1. PICK m \in Maps : m = db[p].data
    BY ProcessType
  <1>2. /\ db[p].pc = "truncate" /\ UNCHANGED <<snap, doubt>> /\ snap = m /\ log' = <<>>
        /\ disk' = disk \cup {Files'} /\ db[p].tx = <<>>
    BY <1>1 DEF SeekFails, Unsynced, KVInv, StageOK
  <1>3. Running(p) /\ Base(p) = m
    BY <1>1, <1>2 DEF Running, Base
  <1>4. \A f \in disk \cup {Files} : Agrees(Recovered(f), m, doubt)
    BY <1>2, <1>3, PlainFiles
  <1>5. Recovered(Files') = m
    BY <1>2, ReplayEmpty DEF Recovered, Files
  <1>6. PICK S : S = disk' \cup {Files'}
    OBVIOUS
  <1>7. \A f \in S : Agrees(Recovered(f), m, doubt')
    BY <1>2, <1>4, <1>5, <1>6 DEF Agrees
  <1>8. CASE Ended(p)
    BY <1>1, <1>5, <1>6, <1>7, <1>8, EndInv
  <1>9. CASE Moved(p, "open", db[p].data, db[p].tx)
    <2>1. db'[p].pc = "open" /\ db'[p].data = m /\ db'[p].tx = <<>> /\ Running(p)'
      BY <1>1, <1>2, <1>9 DEF Moved, Running
    <2>2. StageOK(p)'
      BY <1>2, <2>1 DEF StageOK, Whole
    <2>3. FilesOK(p)'
      <3>1. Base(p)' = m
        BY <2>1 DEF Base
      <3> QED
        BY <1>6, <1>7, <2>1, <3>1, PlainStep
    <2> QED
      BY <1>1, <1>5, <2>2, <2>3 DEF KVInv
  <1> QED
    BY <1>8, <1>9, ReturnMove DEF SeekFails

----------------------------------------------------------------------------
(* Crashes. *)

\* What may be found after a process at work has died.
LEMMA CrashMay ==
    ASSUME TypeOK, NEW p, Procs = {p}, KVInv(p), Running(p),
           NEW f \in disk \cup {[snap |-> snap, log |-> s] : s \in Seen}
    PROVE  May(Recovered(f), db[p].data, db[p].tx, doubt)
  <1>1. /\ db[p].tx \in TxOrNone /\ db[p].data \in Maps /\ Base(p) = db[p].data
        /\ db[p].pc \notin {"write", "sync"} => db[p].tx = <<>>
    BY ProcessType DEF Base, KVInv, StageOK
  <1>2. CASE f \in disk \cup {Files}
    <2>1. CASE db[p].pc = "sync"
      BY <1>1, <1>2, <2>1 DEF KVInv, FilesOK, Written
    <2>2. CASE db[p].pc # "sync"
      <3>1. Recovered(f) \in Maps /\ Agrees(Recovered(f), db[p].data, doubt)
        BY <1>1, <1>2, <2>2, FileTypes, PlainFiles
      <3> QED
        BY <1>1, <3>1, MayWrite
    <2> QED
      BY <2>1, <2>2
  <1>3. ASSUME NEW part \in Parts(db[p].tx), db[p].pc = "write",
               f = [snap |-> snap, log |-> log \o part]
        PROVE  May(Recovered(f), db[p].data, db[p].tx, doubt)
    BY <1>1, <1>3, AppendPart
  <1> QED
    BY <1>2, <1>3 DEF Seen, Files

LEMMA KillInv ==
    ASSUME TypeOK, TypeOK', NEW p, Procs = {p}, KVInv(p), Kill(p)
    PROVE  KVInv(p)'
  <1>1. PICK part : /\ log' = log \o part
                    /\ part \in IF db[p].pc = "write" THEN Parts(db[p].tx) ELSE {<<>>}
    BY KillMove
  <1>2. /\ Ended(p) /\ doubt' = doubt \cup Touched(db[p].tx) /\ snap' = snap
        /\ disk' = disk \cup {Files'} /\ Files' = [snap |-> snap, log |-> log']
    BY KillMove DEF Kill, Unsynced, Files
  <1>3. PICK m, S : m = Base(p) /\ S = disk \cup {Files'}
    OBVIOUS
  <1>4. db[p].pc # "write" => log' = log
    <2>1. log \in Seq(Record)
      BY DEF TypeOK, Logs, Record
    <2> QED
      BY <1>1, <2>1, ConcatEmptySeq
  <1>5. \A f \in S : Agrees(Recovered(f), m, doubt')
    <2>1. CASE Running(p)
      <3>1. log' \in Seen
        BY <1>1, <1>4 DEF Seen
      <3>2. Files' \in {[snap |-> snap, log |-> s] : s \in Seen}
        BY <1>2, <3>1
      <3>3. \A f \in S : May(Recovered(f), m, db[p].tx, doubt)
        BY <1>3, <2>1, <3>2, CrashMay DEF Base
      <3>4. db[p].tx \in TxOrNone
        BY ProcessType
      <3> QED
        BY <1>2, <3>3, <3>4, MayUntouched
    <2>2. CASE ~ Running(p)
      <3>1. db[p].pc \notin {"write", "sync"} /\ db[p].tx = <<>>
        BY <2>2 DEF Running, KVInv, StageOK
      <3>2. Files' = Files /\ doubt' = doubt
        BY <1>2, <1>4, <3>1, NoTouch DEF Files
      <3> QED
        BY <1>3, <3>1, <3>2, PlainFiles
    <2> QED
      BY <2>1, <2>2
  <1> QED
    BY <1>2, <1>3, <1>5, EndInv

LEMMA PowerInv ==
    ASSUME TypeOK, TypeOK', NEW p \in Procs, PowerFails
    PROVE  KVInv(p)'
  <1>1. /\ db'[p].pc = "down" /\ db'[p].tx = <<>> /\ ~ Running(p)' /\ disk' = {Files'}
    BY DEF PowerFails, Synced, Down, Running
  <1>2. StageOK(p)'
    BY <1>1 DEF StageOK
  <1>3. PICK m : m = Recovered(Files')
    OBVIOUS
  <1>4. m \in Maps
    <2>1. snap' \in Maps /\ log' \in Logs
      BY DEF TypeOK
    <2> QED
      BY <1>3, <2>1, ReplayType DEF Recovered, Files
  <1>5. Base(p)' = m /\ db'[p].pc # "sync"
    BY <1>1, <1>3 DEF Base
  <1>6. PICK S : S = {Files'}
    OBVIOUS
  <1>7. \A f \in S : Agrees(Recovered(f), m, doubt')
    BY <1>3, <1>6 DEF Agrees
  <1>8. FilesOK(p)'
    BY <1>1, <1>4, <1>5, <1>6, <1>7, PlainStep
  <1> QED
    BY <1>2, <1>8 DEF KVInv

LEMMA InitInv ==
    ASSUME Init, NEW p \in Procs
    PROVE  KVInv(p)
  <1>1. TypeOK
    BY InitType
  <1>2. db[p].pc = "down" /\ db[p].tx = <<>> /\ ~ Running(p)
    BY DEF Init, Down, Running
  <1>3. Base(p) = Recovered(Files) /\ Written(p) = <<>> /\ disk \cup {Files} = {Files}
    BY <1>2 DEF Init, Base, Written
  <1>4. FilesOK(p)
    BY <1>1, <1>3, FileTypes, MaySame DEF FilesOK, Agrees
  <1> QED
    BY <1>2, <1>4 DEF KVInv, StageOK

LEMMA InvStep ==
    ASSUME ~ ShortWrites, NEW p, Procs = {p}, TypeOK, KVInv(p), [Next]_vars
    PROVE  KVInv(p)'
  <1>1. TypeOK'
    BY TypeStep
  <1>2. CASE Operate(p)
    <2>1. CASE LoadSnapshot(p) \/ ReplayLog(p) \/ Cut(p) \/ Lock(p) \/ OpenFails(p)
      BY <1>1, <2>1, LoadInv, ReplayInv, CutInv, LockInv, OpenFailsInv
    <2>2. CASE \E w \in Txs : Update(p, w)
      BY <2>2, UpdateInv
    <2>3. CASE Write(p) \/ WriteFails(p) \/ Sync(p) \/ SyncFails(p)
      BY <1>1, <2>3, WriteInv, WriteFailsInv, SyncInv, SyncFailsInv
    <2>4. CASE Close(p) \/ Rename(p) \/ Truncate(p)
      BY <1>1, <2>4, CloseInv, RenameInv, TruncateInv
    <2>5. CASE SyncDir(p)
      BY <1>1, <2>5, ReturnInv DEF SyncDir
    <2>6. CASE CompactFails(p)
      BY <1>1, <2>6, ReturnInv DEF CompactFails
    <2>7. CASE SeekFails(p)
      BY <1>1, <2>7, SeekFailsInv
    <2> QED
      BY <1>2, <2>1, <2>2, <2>3, <2>4, <2>5, <2>6, <2>7 DEF Operate
  <1>3. CASE Kill(p)
    BY <1>1, <1>3, KillInv
  <1>4. CASE PowerFails
    BY <1>1, <1>4, PowerInv
  <1>5. CASE UNCHANGED vars
    BY <1>5 DEF vars, KVInv, StageOK, FilesOK, Files, Base, Written, Running
  <1> QED
    BY <1>2, <1>3, <1>4, <1>5 DEF Next

\* Every power failure and every death of a process at work is of this kind.
LEMMA CrashFiles ==
    ASSUME TypeOK, NEW p, Procs = {p}, Kill(p) \/ PowerFails
    PROVE  Files' \in disk \cup {[snap |-> snap, log |-> s] : s \in Seen}
  <1>1. CASE Kill(p)
    <2>1. PICK part : /\ log' = log \o part
                      /\ part \in IF db[p].pc = "write" THEN Parts(db[p].tx) ELSE {<<>>}
      BY <1>1, KillMove
    <2>2. db[p].pc # "write" => log' = log
      <3>1. log \in Seq(Record)
        BY DEF TypeOK, Logs, Record
      <3> QED
        BY <2>1, <3>1, ConcatEmptySeq
    <2>3. log' \in Seen
      BY <2>1, <2>2 DEF Seen
    <2> QED
      BY <1>1, <2>3 DEF Kill, Files
  <1>2. CASE PowerFails
    <2>1. PICK f \in disk \cup {[snap |-> snap, log |-> s] : s \in Seen} :
             snap' = f.snap /\ log' = f.log
      BY <1>2 DEF PowerFails
    <2>2. f \in [snap : Maps, log : Logs]
      BY SeenType DEF TypeOK
    <2>3. f = [snap |-> f.snap, log |-> f.log]
      BY <2>2
    <2> QED
      BY <2>1, <2>3 DEF Files
  <1> QED
    BY <1>1, <1>2

LEMMA DeathMay ==
    ASSUME TypeOK, NEW p, Procs = {p}, KVInv(p), [Next]_vars, Running(p), ~ Running(p)'
    PROVE  May(Recovered(Files'), db[p].data, db[p].tx, doubt)
  <1>1. CASE UNCHANGED vars
    BY <1>1 DEF vars, Running
  <1>2. CASE Operate(p)
    <2>1. ~ (LoadSnapshot(p) \/ ReplayLog(p) \/ Cut(p) \/ Lock(p) \/ OpenFails(p))
      BY DEF Running, LoadSnapshot, ReplayLog, Cut, Lock, OpenFails
    <2>2. ~ ((\E w \in Txs : Update(p, w)) \/ Write(p) \/ WriteFails(p))
      BY UpdateMove, WriteMove, WriteFailsMove DEF Moved, Running
    <2>3. ~ (Sync(p) \/ SyncFails(p))
      BY SyncMove, SyncFailsMove DEF Moved, Running
    <2>4. ~ (Close(p) \/ Rename(p) \/ Truncate(p))
      BY CloseMove, RenameMove, TruncateMove DEF Moved, Running
    <2>5. CASE SyncDir(p) \/ CompactFails(p)
      <3>1. Files' = Files /\ log \in Seen /\ Files = [snap |-> snap, log |-> log]
        BY <2>5 DEF SyncDir, CompactFails, Files, Seen
      <3>2. PICK f : f = Files' /\ f \in disk \cup {[snap |-> snap, log |-> s] : s \in Seen}
        BY <3>1
      <3> QED
        BY <3>2, CrashMay
    <2>6. CASE SeekFails(p)
      <3>1. Recovered(Files') = db[p].data /\ db[p].tx = <<>> /\ db[p].data \in Maps
        BY <2>6, SeekFailsInv, TypeStep, ProcessType DEF SeekFails, KVInv, StageOK
      <3>2. Agrees(db[p].data, db[p].data, doubt)
        BY DEF Agrees
      <3> QED
        BY <3>1, <3>2, MaySame
    <2> QED
      BY <1>2, <2>1, <2>2, <2>3, <2>4, <2>5, <2>6 DEF Operate
  <1>3. CASE Kill(p) \/ PowerFails
    <2>1. PICK f : f = Files' /\ f \in disk \cup {[snap |-> snap, log |-> s] : s \in Seen}
      BY <1>3, CrashFiles
    <2> QED
      BY <2>1, CrashMay
  <1> QED
    BY <1>1, <1>2, <1>3 DEF Next

----------------------------------------------------------------------------
(* What the engine keeps. *)

\* What a restart would rebuild agrees with memory on every key but those of
\* the transaction under way and of those not reported as committed, for one
\* process, whatever fails but a short write (internal/kv Update, Open).
THEOREM Durability ==
    ASSUME OneProcess, ~ ShortWrites
    PROVE  Spec => []Durable
  <1>1. PICK p : Procs = {p}
    BY DEF OneProcess
  <1>2. Init => TypeOK /\ KVInv(p)
    BY <1>1, InitType, InitInv
  <1>3. TypeOK /\ KVInv(p) /\ [Next]_vars => (TypeOK /\ KVInv(p))'
    BY <1>1, TypeStep, InvStep
  <1>4. TypeOK /\ KVInv(p) => Durable
    <2> SUFFICES ASSUME TypeOK, KVInv(p), Running(p), NEW f \in disk \cup {Files}, NEW k \in Keys,
                        k \notin doubt \cup Touched(db[p].tx)
                 PROVE  Recovered(f)[k] = db[p].data[k]
      BY <1>1 DEF Durable
    <2>1. May(Recovered(f), db[p].data, Written(p), doubt)
      BY DEF KVInv, FilesOK, Base
    <2>2. k \notin doubt \cup Touched(Written(p)) /\ Written(p) \in TxOrNone
      BY <1>1, NoTouch, ProcessType DEF Written, TxOrNone
    <2> QED
      BY <2>1, <2>2, MayUntouched DEF Agrees
  <1> QED
    BY <1>2, <1>3, <1>4, PTL DEF Spec

\* A process that dies, at any stage and in any way, leaves its map with the
\* first records of the transaction under way applied, in the order in which
\* Update wrote them: none of them, some or all (internal/kv replayLog).  The
\* records may be torn anywhere; one process, and no short write before.
THEOREM CrashesLeavePrefixes ==
    ASSUME OneProcess, ~ ShortWrites
    PROVE  Spec => CrashLeavesPrefix
  <1>1. PICK self : Procs = {self}
    BY DEF OneProcess
  <1>2. Init => TypeOK /\ KVInv(self)
    BY <1>1, InitType, InitInv
  <1>3. TypeOK /\ KVInv(self) /\ [Next]_vars => (TypeOK /\ KVInv(self))'
    BY <1>1, TypeStep, InvStep
  <1>4. TypeOK /\ KVInv(self) /\ [Next]_vars =>
          [\A p \in Procs :
              Running(p) /\ doubt = {} /\ ~ Running(p)' =>
                 \E n \in 0..Len(db[p].tx) :
                    Recovered(Files') = Replay(db[p].data, Prefix(db[p].tx, n))]_vars
    <2> SUFFICES ASSUME TypeOK, KVInv(self), [Next]_vars, Running(self), doubt = {}, ~ Running(self)'
                 PROVE  \E n \in 0..Len(db[self].tx) :
                           Recovered(Files') = Replay(db[self].data, Prefix(db[self].tx, n))
      BY <1>1
    <2> DEFINE F == Files'
               found == Recovered(F)
               m == db[self].data
               w == db[self].tx
    <2>1. May(found, m, w, {})
      BY <1>1, DeathMay
    <2>2. found \in Maps /\ m \in Maps /\ w \in TxOrNone
      <3>1. TypeOK'
        BY TypeStep
      <3>2. snap' \in Maps /\ log' \in Logs
        BY <3>1 DEF TypeOK
      <3>3. found = Replay(snap', log')
        BY DEF Recovered, Files
      <3> QED
        BY <1>1, <3>2, <3>3, ReplayType, ProcessType
    <2> HIDE DEF found, m, w
    <2>3. PICK i \in 0..Len(w) : Agrees(found, Replay(m, Prefix(w, i)), {})
      BY <2>1 DEF May, Holds
    <2>4. Replay(m, Prefix(w, i)) \in Maps
      BY <2>2, PrefixType, ReplayType
    <2>5. found = Replay(m, Prefix(w, i))
      BY <2>2, <2>3, <2>4, MapsEqual DEF Agrees
    <2> QED
      BY <2>5 DEF found, m, w
  <1> QED
    BY <1>2, <1>3, <1>4, PTL DEF Spec, CrashLeavesPrefix

----------------------------------------------------------------------------
(* The engine implements TxMap. *)

barMap == IF lock = None THEN Recovered(Files) ELSE db[lock].data
barTx == IF lock = None THEN <<>> ELSE db[lock].tx

LEMMA Bars ==
    ASSUME TypeOK, NEW p, Procs = {p}, KVInv(p)
    PROVE  barMap = Base(p) /\ barTx = db[p].tx
  <1>1. CASE Running(p)
    <2>1. lock = p /\ p # None
      BY <1>1, KVAssumption DEF TypeOK
    <2> QED
      BY <1>1, <2>1 DEF barMap, barTx, Base
  <1>2. CASE ~ Running(p)
    <2>1. lock = None /\ db[p].tx = <<>>
      BY <1>2 DEF TypeOK, KVInv, StageOK, Running
    <2> QED
      BY <1>2, <2>1 DEF barMap, barTx, Base
  <1> QED
    BY <1>1, <1>2

LEMMA BarsNext ==
    ASSUME TypeOK', NEW p, Procs = {p}, KVInv(p)'
    PROVE  barMap' = Base(p)' /\ barTx' = db'[p].tx
  <1>1. CASE Running(p)'
    <2>1. lock' = p /\ p # None
      BY <1>1, KVAssumption DEF TypeOK
    <2> QED
      BY <1>1, <2>1 DEF barMap, barTx, Base
  <1>2. CASE ~ Running(p)'
    <2>1. lock' = None /\ db'[p].tx = <<>>
      BY <1>2 DEF TypeOK, KVInv, StageOK, Running
    <2> QED
      BY <1>2, <2>1 DEF barMap, barTx, Base
  <1> QED
    BY <1>1, <1>2

\* TxMap has the definitions of KVLog anew.
LEMMA SameLog ==
    /\ Engine!EmptyMap = EmptyMap /\ Engine!Maps = Maps
    /\ \A w : Engine!Touched(w) = Touched(w)
    /\ \A m, s : Engine!Replay(m, s) = Replay(m, s)
    /\ \A s, n : Engine!Prefix(s, n) = Prefix(s, n)
  <1>1. Engine!EmptyMap = EmptyMap /\ Engine!Maps = Maps
    BY DEF Engine!EmptyMap, EmptyMap, Engine!Maps, Maps, Engine!Cell, Cell
  <1>2. \A w : Engine!Touched(w) = Touched(w)
    BY DEF Engine!Touched, Touched
  <1>3. \A s : Engine!Valid(s) = Valid(s)
    BY DEF Engine!Valid, Valid, Engine!Torn, Torn
  <1>4. \A s, k : Engine!Writes(s, k) = Writes(s, k)
    BY <1>3 DEF Engine!Writes, Writes
  <1>5. \A s, k : Engine!LastWrite(s, k) = LastWrite(s, k)
    BY <1>4 DEF Engine!LastWrite, LastWrite
  <1>6. \A m, s : Engine!Replay(m, s) = Replay(m, s)
    BY <1>4, <1>5 DEF Engine!Replay, Replay
  <1>7. \A s, n : Engine!Prefix(s, n) = Prefix(s, n)
    BY DEF Engine!Prefix, Prefix
  <1> QED
    BY <1>1, <1>2, <1>6, <1>7

\* The steps of TxMap, in the terms of the engine.
LEMMA Stutters ==
    ASSUME barMap' = barMap, barTx' = barTx, doubt' = doubt
    PROVE  UNCHANGED Engine!vars
  BY DEF barMap, barTx, Engine!vars

LEMMA Begins ==
    ASSUME barTx = <<>>, barTx' \in Txs, barMap' = barMap, doubt' = doubt
    PROVE  Engine!Next
  BY DEF barMap, barTx, Engine!Next, Engine!Begin

LEMMA Commits ==
    ASSUME barTx # <<>>, barMap' = Replay(barMap, barTx), barTx' = <<>>,
           doubt' = doubt \ Touched(barTx)
    PROVE  Engine!Next
  BY SameLog DEF barMap, barTx, Engine!Next, Engine!Commit

LEMMA Refuses ==
    ASSUME barTx # <<>>, barMap' = barMap, barTx' = <<>>,
           doubt' \in {doubt, doubt \cup Touched(barTx)}
    PROVE  Engine!Next
  BY SameLog DEF barMap, barTx, Engine!Next, Engine!Refuse

LEMMA Settles ==
    ASSUME barMap' = barMap, barTx' = barTx, doubt' = {}
    PROVE  Engine!Next
  BY DEF barMap, barTx, Engine!Next, Engine!Settle

LEMMA Crashes ==
    ASSUME barMap' \in Maps, barTx' = <<>>,
           May(barMap', barMap, barTx, doubt), doubt' \in {{}, doubt \cup Touched(barTx)}
    PROVE  Engine!Next
  <1>1. PICK i \in 0..Len(barTx) :
          Agrees(barMap', Replay(barMap, Prefix(barTx, i)), doubt \ Touched(Prefix(barTx, i)))
    BY DEF May, Holds
  <1> QED
    BY <1>1, SameLog DEF Agrees, barMap, barTx, Engine!Next, Engine!Crash, Engine!Agree

\* A crash from whatever stage.
LEMMA CrashAny ==
    ASSUME TypeOK, NEW p, Procs = {p}, KVInv(p),
           NEW f \in disk \cup {[snap |-> snap, log |-> s] : s \in Seen}
    PROVE  May(Recovered(f), Base(p), db[p].tx, doubt)
  <1>1. CASE Running(p)
    BY <1>1, CrashMay DEF Base
  <1>2. CASE ~ Running(p)
    <2>1. db[p].pc \notin {"write", "sync"} /\ db[p].tx = <<>>
      BY <1>2 DEF Running, KVInv, StageOK
    <2>2. Seen = {log}
      BY <2>1 DEF Seen
    <2>3. f \in disk \cup {Files} /\ Base(p) \in Maps
      BY <2>2, FileTypes DEF Files
    <2> QED
      BY <2>1, <2>3, PlainFiles, MaySame
  <1> QED
    BY <1>1, <1>2

LEMMA OpenRefines ==
    ASSUME TypeOK, NEW p, Procs = {p}, KVInv(p), TypeOK', KVInv(p)',
           LoadSnapshot(p) \/ ReplayLog(p) \/ Cut(p) \/ Lock(p) \/ OpenFails(p)
    PROVE  UNCHANGED Engine!vars
  <1>1. ~ Running(p) /\ doubt' = doubt
    BY DEF Running, LoadSnapshot, ReplayLog, Cut, Lock, OpenFails
  <1>2. db[p].tx = <<>> /\ Base(p) = Recovered(Files)
    BY <1>1 DEF KVInv, StageOK, Running, Base
  <1>3. db'[p].tx = <<>> /\ Base(p)' = Base(p)
    <2>1. CASE LoadSnapshot(p)
      BY <1>2, <2>1, LoadMove DEF LoadSnapshot, Moved, Running, Base, Files
    <2>2. CASE ReplayLog(p)
      BY <1>2, <2>2, ReplayMove DEF ReplayLog, Moved, Running, Base, Files
    <2>3. CASE Cut(p)
      <3>1. /\ db'[p].pc = "lock" /\ db'[p].data = db[p].data /\ db'[p].tx = <<>>
            /\ db[p].data = Recovered(Files)
        BY <1>2, <2>3, CutMove DEF Cut, Moved, KVInv, StageOK
      <3>2. db'[p].data = Recovered(Files') /\ ~ Running(p)'
        BY <3>1 DEF KVInv, StageOK, Running
      <3> QED
        BY <1>2, <3>1, <3>2 DEF Base
    <2>4. CASE Lock(p)
      <3>1. Base(p)' = db'[p].data \/ Base(p)' = Recovered(Files')
        BY DEF Base
      <3>2. db[p].data = Recovered(Files) /\ Files' = Files
        BY <2>4 DEF Lock, KVInv, StageOK, Files
      <3>3. CASE Moved(p, "open", db[p].data, db[p].tx)
        BY <1>2, <3>2, <3>3 DEF Moved, Running, Base
      <3>4. CASE Ended(p)
        BY <1>2, <3>2, <3>4 DEF Ended, Moved, Running, Base
      <3> QED
        BY <2>4, <3>3, <3>4, LockMove
    <2>5. CASE OpenFails(p)
      BY <1>2, <2>5, ReleaseMove DEF OpenFails, Ended, Moved, Running, Base, Files
    <2> QED
      BY <2>1, <2>2, <2>3, <2>4, <2>5
  <1>4. barMap' = barMap /\ barTx' = barTx
    BY <1>2, <1>3, Bars, BarsNext
  <1> QED
    BY <1>1, <1>4, Stutters

LEMMA UpdateRefines ==
    ASSUME TypeOK, NEW p, Procs = {p}, KVInv(p), TypeOK', KVInv(p)',
           \/ \E w \in Txs : Update(p, w)
           \/ Write(p) \/ WriteFails(p) \/ Sync(p) \/ SyncFails(p)
    PROVE  [Engine!Next]_Engine!vars
  <1>1. barMap = Base(p) /\ barTx = db[p].tx /\ barMap' = Base(p)' /\ barTx' = db'[p].tx
    BY Bars, BarsNext
  <1>2. Running(p) /\ Base(p) = db[p].data
    BY DEF Running, Base, Update, Write, WriteFails, Sync, SyncFails
  <1>3. ASSUME NEW w \in Txs, Update(p, w) PROVE Engine!Next
    <2>1. db[p].pc = "open" /\ db[p].tx = <<>> /\ doubt' = doubt
      BY <1>3 DEF Update, KVInv, StageOK
    <2>2. db'[p].tx = w /\ Base(p)' = db[p].data
      BY <1>3, UpdateMove DEF Moved, Base, Running
    <2> QED
      BY <1>1, <1>2, <2>1, <2>2, Begins
  <1>4. CASE Write(p)
    <2>1. db'[p].tx = db[p].tx /\ Base(p)' = db[p].data /\ doubt' = doubt
      BY <1>4, WriteMove DEF Write, Moved, Base, Running
    <2> QED
      BY <1>1, <1>2, <2>1, Stutters
  <1>5. CASE WriteFails(p)
    <2>1. db'[p].tx = <<>> /\ Base(p)' = db[p].data /\ doubt' = doubt
      BY <1>5, WriteFailsMove DEF WriteFails, Moved, Base, Running
    <2>2. CASE db[p].tx = <<>>
      BY <1>1, <1>2, <2>1, <2>2, Stutters
    <2>3. CASE db[p].tx # <<>>
      BY <1>1, <1>2, <2>1, <2>3, Refuses
    <2> QED
      BY <2>2, <2>3
  <1>6. CASE Sync(p)
    <2>1. /\ db'[p].tx = <<>> /\ Base(p)' = Replay(db[p].data, db[p].tx)
          /\ doubt' = doubt \ Touched(db[p].tx)
      BY <1>6, SyncMove DEF Sync, Moved, Base, Running
    <2>2. CASE db[p].tx = <<>>
      <3>1. Replay(db[p].data, <<>>) = db[p].data
        BY ProcessType, ReplayEmpty
      <3> QED
        BY <1>1, <1>2, <2>1, <2>2, <3>1, NoTouch, Stutters
    <2>3. CASE db[p].tx # <<>>
      BY <1>1, <1>2, <2>1, <2>3, Commits
    <2> QED
      BY <2>2, <2>3
  <1>7. CASE SyncFails(p)
    <2>1. /\ db'[p].tx = <<>> /\ Base(p)' = db[p].data
          /\ doubt' = doubt \cup Touched(db[p].tx)
      BY <1>7, SyncFailsMove DEF SyncFails, Moved, Base, Running
    <2>2. CASE db[p].tx = <<>>
      BY <1>1, <1>2, <2>1, <2>2, NoTouch, Stutters
    <2>3. CASE db[p].tx # <<>>
      BY <1>1, <1>2, <2>1, <2>3, Refuses
    <2> QED
      BY <2>2, <2>3
  <1> QED
    BY <1>3, <1>4, <1>5, <1>6, <1>7

LEMMA CompactRefines ==
    ASSUME TypeOK, NEW p, Procs = {p}, KVInv(p), TypeOK', KVInv(p)',
           \/ Close(p) \/ Rename(p) \/ Truncate(p)
           \/ SyncDir(p) \/ CompactFails(p) \/ SeekFails(p)
    PROVE  [Engine!Next]_Engine!vars
  <1>1. barMap = Base(p) /\ barTx = db[p].tx /\ barMap' = Base(p)' /\ barTx' = db'[p].tx
    BY Bars, BarsNext
  <1>2. Running(p) /\ Base(p) = db[p].data /\ db[p].tx = <<>> /\ db[p].pc # "sync"
    BY DEF Running, Base, KVInv, StageOK, Close, Rename, Truncate, SyncDir,
           CompactFails, SeekFails
  <1>3. CASE Close(p) \/ Rename(p) \/ Truncate(p)
    <2>1. db'[p].tx = db[p].tx /\ Base(p)' = db[p].data /\ doubt' = doubt
      BY <1>3, CloseMove, RenameMove, TruncateMove
         DEF Close, Rename, Truncate, Moved, Base, Running
    <2> QED
      BY <1>1, <1>2, <2>1, Stutters
  <1>4. CASE SyncDir(p) \/ CompactFails(p)
    <2>1. /\ Return(p) /\ Files' = Files
          /\ doubt' \in {doubt, {}}
      BY <1>4 DEF SyncDir, CompactFails, Files
    <2>2. db'[p].tx = <<>> /\ (Base(p)' = db[p].data \/ Base(p)' = Recovered(Files))
      BY <1>2, <2>1, ReturnMove DEF Ended, Moved, Running, Base
    <2>3. CASE Base(p)' = db[p].data
      BY <1>1, <1>2, <2>1, <2>2, <2>3, Stutters, Settles
    <2>4. CASE Base(p)' = Recovered(Files)
      <3>1. /\ Recovered(Files) \in Maps /\ Base(p) \in Maps
            /\ May(Recovered(Files), Base(p), <<>>, doubt)
        BY <1>2, FileTypes, PlainFiles, MaySame
      <3>2. doubt' \in {{}, doubt \cup Touched(<<>>)}
        BY <2>1, NoTouch
      <3> QED
        BY <1>1, <1>2, <2>2, <2>4, <3>1, <3>2, Crashes
    <2> QED
      BY <2>2, <2>3, <2>4
  <1>5. CASE SeekFails(p)
    <2>1. Recovered(Files') = db[p].data /\ Return(p) /\ doubt' = doubt
      BY <1>5, SeekFailsInv DEF SeekFails
    <2>2. db'[p].tx = <<>> /\ Base(p)' = db[p].data
      BY <1>2, <2>1, ReturnMove DEF Ended, Moved, Running, Base
    <2> QED
      BY <1>1, <1>2, <2>1, <2>2, Stutters
  <1> QED
    BY <1>3, <1>4, <1>5

LEMMA CrashRefines ==
    ASSUME TypeOK, NEW p, Procs = {p}, KVInv(p), TypeOK', KVInv(p)',
           Kill(p) \/ PowerFails
    PROVE  Engine!Next
  <1>1. barMap = Base(p) /\ barTx = db[p].tx /\ barMap' = Base(p)' /\ barTx' = db'[p].tx
    BY Bars, BarsNext
  <1>2. db'[p].pc = "down" /\ db'[p].tx = <<>>
    BY KillMove DEF PowerFails, Down, Ended, Moved
  <1>3. Base(p)' = Recovered(Files')
    BY <1>2 DEF Base, Running
  <1>4. May(Recovered(Files'), Base(p), db[p].tx, doubt)
    <2>1. PICK f : f = Files' /\ f \in disk \cup {[snap |-> snap, log |-> s] : s \in Seen}
      BY CrashFiles
    <2> QED
      BY <2>1, CrashAny
  <1>5. Base(p)' \in Maps
    <2>1. snap' \in Maps /\ log' \in Logs
      BY DEF TypeOK
    <2> QED
      BY <1>3, <2>1, ReplayType DEF Recovered, Files
  <1>6. doubt' \in {{}, doubt \cup Touched(db[p].tx)}
    BY DEF Kill, PowerFails
  <1> QED
    BY <1>1, <1>2, <1>3, <1>4, <1>5, <1>6, Crashes

\* The engine is the durable map of TxMap, for one process, whatever fails but
\* a short write, and wherever a crash tears a write (internal/kv).
THEOREM EngineRefinesTxMap ==
    ASSUME OneProcess, ~ ShortWrites
    PROVE  Spec => ImplementsTxMap
  <1>1. PICK p : Procs = {p}
    BY DEF OneProcess
  <1>2. Init => TypeOK /\ KVInv(p)
    BY <1>1, InitType, InitInv
  <1>3. TypeOK /\ KVInv(p) /\ [Next]_vars => (TypeOK /\ KVInv(p))'
    BY <1>1, TypeStep, InvStep
  <1>4. Init => Engine!Init
    <2> SUFFICES ASSUME Init PROVE Engine!Init
      OBVIOUS
    <2>1. lock = None /\ doubt = {}
      BY DEF Init
    <2>2. Recovered(Files) = EmptyMap
      <3>1. Files.snap = EmptyMap /\ Files.log = <<>> /\ EmptyMap \in Maps
        BY DEF Init, Files, EmptyMap, Maps, Cell
      <3> QED
        BY <3>1, ReplayEmpty DEF Recovered
    <2> QED
      BY <2>1, <2>2, SameLog DEF Engine!Init
  <1>5. (TypeOK /\ KVInv(p)) /\ (TypeOK /\ KVInv(p))' /\ [Next]_vars
           => [Engine!Next]_Engine!vars
    <2> SUFFICES ASSUME TypeOK, KVInv(p), TypeOK', KVInv(p)', [Next]_vars
                 PROVE  [Engine!Next]_Engine!vars
      OBVIOUS
    <2>1. CASE Operate(p)
      BY <1>1, <2>1, OpenRefines, UpdateRefines, CompactRefines DEF Operate
    <2>2. CASE Kill(p) \/ PowerFails
      BY <1>1, <2>2, CrashRefines
    <2>3. CASE UNCHANGED vars
      BY <2>3, Stutters DEF vars, barMap, barTx, Files
    <2> QED
      BY <1>1, <2>1, <2>2, <2>3 DEF Next
  <1> QED
    BY <1>2, <1>3, <1>4, <1>5, PTL DEF Spec, ImplementsTxMap, Engine!Spec
=============================================================================
