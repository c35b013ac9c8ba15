------------------------------- MODULE TxMap -------------------------------
(***************************************************************************)
(* What the key-value engine promises to its caller, module Server above   *)
(* all: a map that transactions change one at a time and that outlives the *)
(* process.  A transaction that commits takes effect as a whole, one that  *)
(* is refused not at all.  One that is under way when the process dies is  *)
(* cut short: its first records take effect, in the order in which Update  *)
(* wrote them; all of them perhaps, or none, but also only some.  What     *)
(* remains in doubt are transactions that were not reported as committed   *)
(* although they are in the log: one that Update refused because the log   *)
(* could not be synced may come back when the process dies, and one that a *)
(* restart found unsynced may be lost when the power fails; until later    *)
(* writes of the same keys or a compaction settle the matter.              *)
(***************************************************************************)
EXTENDS KVLog

VARIABLES
    map,     \* what View shows, and what a restart would find
    tx,      \* the write set of the transaction under way, or <<>>
    doubt    \* keys that such transactions may still change

vars == <<map, tx, doubt>>

Init == map = EmptyMap /\ tx = <<>> /\ doubt = {}

Begin ==
    /\ tx = <<>>
    /\ tx' \in Txs
    /\ UNCHANGED <<map, doubt>>

Commit ==
    /\ tx # <<>>
    /\ map' = Replay(map, tx)
    /\ tx' = <<>>
    /\ doubt' = doubt \ Touched(tx)

Refuse ==
    /\ tx # <<>>
    /\ tx' = <<>>
    /\ doubt' \in {doubt, doubt \cup Touched(tx)}
    /\ UNCHANGED map

Settle ==
    /\ doubt' = {}
    /\ UNCHANGED <<map, tx>>

\* m is what base may have become with the keys of ks in doubt.
Agree(m, base, ks) == \A k \in Keys \ ks : m[k] = base[k]

\* The first n records of the transaction under way take effect; they settle
\* the keys they write.
Crash ==
    /\ map' \in Maps
    /\ \E n \in 0..Len(tx) : LET done == Prefix(tx, n) IN
          Agree(map', Replay(map, done), doubt \ Touched(done))
    /\ tx' = <<>>
    /\ doubt' \in {{}, doubt \cup Touched(tx)}

Next == Begin \/ Commit \/ Refuse \/ Settle \/ Crash

Spec == Init /\ [][Next]_vars
============================================================================
