------------------------------- MODULE KVLog -------------------------------
(***************************************************************************)
(* What the files of the key-value engine, internal/kv, mean: the records  *)
(* of the log and the map that a snapshot and a log stand for.  Encoding,  *)
(* encryption and checksums are left out; what matters of them is that a   *)
(* record that was written in part is recognised, and ends the replay.     *)
(***************************************************************************)
EXTENDS Integers, Sequences

CONSTANTS
    Keys,     \* keys of the store
    Values,   \* values
    Absent,   \* marks a deleted or missing key
    Txs       \* the write sets of transactions, as Update encodes them

Cell == Values \cup {Absent}
Maps == [Keys -> Cell]
EmptyMap == [k \in Keys |-> Absent]

\* A deletion is a record without a value.
Entry == [key : Keys, val : Cell]
\* The piece of a record, or the hole of zeros, at which replayLog stops.
Torn == [key |-> Absent, val |-> Absent]
Logs == Seq(Entry \cup {Torn})

Touched(w) == {w[i].key : i \in DOMAIN w}

\* Update writes one record for each key of the write set, deletions first,
\* and no write set is empty.
ASSUME KVLogAssumption ==
    /\ Absent \notin Values /\ Absent \notin Keys
    /\ Txs \subseteq Seq(Entry) \ {<<>>}
    /\ \A w \in Txs : \A i, j \in DOMAIN w : i < j =>
          /\ w[i].key # w[j].key
          /\ w[j].val = Absent => w[i].val = Absent

\* Positions of the records that replayLog applies: those before the first
\* torn one.
Valid(log) == {i \in DOMAIN log : \A j \in 1..i : log[j] # Torn}

\* The last record of a key decides.
Writes(log, k) == {i \in Valid(log) : log[i].key = k}
LastWrite(log, k) == CHOOSE i \in Writes(log, k) : \A j \in Writes(log, k) : j <= i
Replay(m, log) ==
    [k \in Keys |-> IF Writes(log, k) = {} THEN m[k] ELSE log[LastWrite(log, k)].val]

\* The offset at which the replay stops.
ValidLength(log) == CHOOSE n \in 0..Len(log) : Valid(log) = 1..n

Prefix(log, n) == SubSeq(log, 1, n)

\* os.Truncate to an offset that an earlier reading of the file gave: beyond
\* the end of the file it appends zeros.
Resize(log, n) == IF n <= Len(log) THEN Prefix(log, n) ELSE Append(log, Torn)

============================================================================
