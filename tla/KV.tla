--------------------------------- MODULE KV --------------------------------
(***************************************************************************)
(* The key-value engine, internal/kv: a map in memory, an append-only log  *)
(* that is synced before a commit is reported, a snapshot that replaces    *)
(* the log when that has grown, and the recovery of the map from both.     *)
(*                                                                         *)
(* A DB is serialised by its mutex, so one process runs one operation at a *)
(* time; but the operation is a sequence of system calls, each of which    *)
(* may fail, and between any two of them the process may be killed or the  *)
(* power may go.  Other processes may open the directory at any time: they *)
(* read and repair the files before they ask for the lock.                 *)
(*                                                                         *)
(* The file system is taken to keep what was synced and to bring metadata  *)
(* to the disk in the order of the calls, as journaling ones do: after a   *)
(* power failure the two files are as they were at some moment since the   *)
(* last sync.                                                              *)
(***************************************************************************)
EXTENDS KVLog, FiniteSets

CONSTANTS
    Procs,        \* processes that open the directory
    None,         \* no process
    Threshold,    \* compaction threshold, in records
    ShortWrites,  \* whether a failing write may leave bytes behind
    MaxLog,       \* bound on the length of the log, and on logSize
    MaxDisk       \* bound on the states of the files since the last sync

ASSUME KVAssumption ==
    /\ None \notin Procs
    /\ Threshold \in Nat \ {0} /\ MaxLog \in Nat /\ MaxDisk \in Nat
    /\ ShortWrites \in BOOLEAN

VARIABLES
    snap,    \* kv.snapshot, the map it decodes to
    log,     \* kv.log
    disk,    \* the states of both files that a power failure may leave
    lock,    \* the process that holds kv.lock
    db,      \* each process's DB, or the call of Open it is in
    doubt    \* history: keys of transactions in the log that were not reported
             \* as committed

vars == <<snap, log, disk, lock, db, doubt>>

Stages == {"down", "replay", "cut", "lock",
           "open", "write", "sync", "snapshot", "truncate", "syncDir"}
\* off: where replayLog stopped; tx: the write set of the Update under way;
\* size: logSize; closing: the compaction is that of Close.
DB == [pc : Stages, data : Maps, off : Nat, tx : {<<>>} \cup Txs, size : Nat,
       closing : BOOLEAN]
Down == [pc |-> "down", data |-> EmptyMap, off |-> 0, tx |-> <<>>, size |-> 0,
         closing |-> FALSE]

Running(p) == db[p].pc \in {"open", "write", "sync", "snapshot", "truncate", "syncDir"}

Files == [snap |-> snap, log |-> log]
Recovered(f) == Replay(f.snap, f.log)

Goto(p, stage) == db' = [db EXCEPT ![p].pc = stage]
\* The process ends its use of the directory; the system drops its lock.
Release(p) ==
    /\ db' = [db EXCEPT ![p] = Down]
    /\ lock' = IF lock = p THEN None ELSE lock

\* A file operation that is not synced: what was possible stays possible.
Unsynced == disk' = disk \cup {Files'} /\ Cardinality(disk') <= MaxDisk
Synced == disk' = {Files'}

\* What a write of w may leave in the log if it is cut short: some of the
\* records, and perhaps a piece of the next one.
Pieces(w) == {Prefix(w, n) \o t : n \in 0..(Len(w) - 1), t \in {<<>>, <<Torn>>}}
Parts(w) == {<<>>, w} \cup Pieces(w)

\* What is in the log, or about to be, because of a write under way.
Seen == {log} \cup {log \o part : part \in
            UNION {Parts(db[q].tx) : q \in {r \in Procs : db[r].pc = "write"}}}

----------------------------------------------------------------------------
(* Open. *)

LoadSnapshot(p) ==
    /\ db[p].pc = "down"
    /\ db' = [db EXCEPT ![p].pc = "replay", ![p].data = snap]
    /\ UNCHANGED <<snap, log, disk, lock, doubt>>

\* Mutant: the torn tail is left where it is.
ReplayLog_NoCut(p) ==
    /\ db[p].pc = "replay"
    /\ \E seen \in Seen :
          db' = [db EXCEPT ![p].data = Replay(@, seen), ![p].off = ValidLength(seen),
                           ![p].pc = "lock"]
    /\ UNCHANGED <<snap, log, disk, lock, doubt>>

ReplayLog(p) ==
    /\ db[p].pc = "replay"
    /\ \E seen \in Seen :
          db' = [db EXCEPT ![p].data = Replay(@, seen), ![p].off = ValidLength(seen),
                           ![p].pc = IF ValidLength(seen) < Len(seen) THEN "cut" ELSE "lock"]
    /\ UNCHANGED <<snap, log, disk, lock, doubt>>

\* The tail is cut off at the offset found, whoever owns the file by now.
Cut(p) ==
    /\ db[p].pc = "cut"
    /\ log' = Resize(log, db[p].off)
    /\ Goto(p, "lock")
    /\ UNCHANGED <<snap, lock, doubt>>
    /\ Unsynced

Lock(p) ==
    /\ db[p].pc = "lock"
    /\ IF lock = None
       THEN /\ lock' = p
            /\ db' = [db EXCEPT ![p].pc = "open", ![p].off = 0, ![p].size = Len(log)]
       ELSE Release(p)
    /\ UNCHANGED <<snap, log, disk, doubt>>

\* A system call of Open fails.
OpenFails(p) ==
    /\ db[p].pc \in {"replay", "cut", "lock"}
    /\ Release(p)
    /\ UNCHANGED <<snap, log, disk, doubt>>

----------------------------------------------------------------------------
(* Update. *)

\* The callback has returned nil with a write set that is not empty.
Update(p, w) ==
    /\ db[p].pc = "open"
    /\ Len(log) + Len(w) <= MaxLog /\ db[p].size + Len(w) <= MaxLog
    /\ db' = [db EXCEPT ![p].pc = "write", ![p].tx = w]
    /\ UNCHANGED <<snap, log, disk, lock, doubt>>

Write(p) ==
    /\ db[p].pc = "write"
    /\ log' = log \o db[p].tx
    /\ disk' = disk \cup {[snap |-> snap, log |-> log \o part] : part \in Parts(db[p].tx)}
    /\ Goto(p, "sync")
    /\ UNCHANGED <<snap, lock, doubt>>

WriteFails(p) ==
    /\ db[p].pc = "write"
    /\ \E part \in {<<>>} \cup (IF ShortWrites THEN Pieces(db[p].tx) ELSE {}) :
          log' = log \o part
    /\ db' = [db EXCEPT ![p].pc = "open", ![p].tx = <<>>]
    /\ UNCHANGED <<snap, lock, doubt>>
    /\ Unsynced

\* The commit: memory follows the log.
Apply(p) ==
    LET size == db[p].size + Len(db[p].tx) IN
    db' = [db EXCEPT ![p].data = Replay(@, db[p].tx), ![p].tx = <<>>, ![p].size = size,
                     ![p].pc = IF size > Threshold THEN "snapshot" ELSE "open"]

\* Mutant: the log is not synced.
Sync_Missing(p) ==
    /\ db[p].pc = "sync"
    /\ Apply(p)
    /\ doubt' = doubt \ Touched(db[p].tx)
    /\ UNCHANGED <<snap, log, disk, lock>>

Sync(p) ==
    /\ db[p].pc = "sync"
    /\ Apply(p)
    /\ doubt' = doubt \ Touched(db[p].tx)
    /\ UNCHANGED <<snap, log, lock>>
    /\ Synced

\* Update reports the error; the records stay in the log.
SyncFails(p) ==
    /\ db[p].pc = "sync"
    /\ db' = [db EXCEPT ![p].pc = "open", ![p].tx = <<>>]
    /\ doubt' = doubt \cup Touched(db[p].tx)
    /\ UNCHANGED <<snap, log, disk, lock>>

----------------------------------------------------------------------------
(* Compaction, after a commit or in Close. *)

Close(p) ==
    /\ db[p].pc = "open"
    /\ db' = [db EXCEPT ![p].pc = "snapshot", ![p].closing = TRUE]
    /\ UNCHANGED <<snap, log, disk, lock, doubt>>

\* Mutant: a process that closes keeps the lock.
Return_Locked(p) ==
    IF db[p].closing THEN db' = [db EXCEPT ![p] = Down] /\ UNCHANGED lock
    ELSE Goto(p, "open") /\ UNCHANGED lock

\* compactLocked returns, with or without an error.
Return(p) ==
    IF db[p].closing THEN Release(p) ELSE Goto(p, "open") /\ UNCHANGED lock

\* Mutant: an error of the renaming is overlooked.
Rename_Failed(p) ==
    /\ db[p].pc = "snapshot"
    /\ Goto(p, "truncate")
    /\ UNCHANGED <<snap, log, disk, lock, doubt>>

\* The snapshot is written to a temporary file, synced and renamed.
Rename(p) ==
    /\ db[p].pc = "snapshot"
    /\ snap' = db[p].data
    /\ Goto(p, "truncate")
    /\ UNCHANGED <<log, lock, doubt>>
    /\ Unsynced

Truncate(p) ==
    /\ db[p].pc = "truncate"
    /\ log' = <<>>
    /\ db' = [db EXCEPT ![p].pc = "syncDir", ![p].size = 0]
    /\ UNCHANGED <<snap, lock, doubt>>
    /\ Unsynced

\* An error of syncDir is ignored.
SyncDir(p) ==
    /\ db[p].pc = "syncDir"
    /\ Return(p)
    /\ \/ disk' = {Files} /\ doubt' = {}
       \/ UNCHANGED <<disk, doubt>>
    /\ UNCHANGED <<snap, log>>

\* A call before the renaming fails, the renaming itself, or Truncate: each
\* leaves the two files alone.
CompactFails(p) ==
    /\ db[p].pc \in {"snapshot", "truncate"}
    /\ Return(p)
    /\ UNCHANGED <<snap, log, disk, doubt>>

\* Seek fails after Truncate has emptied the log; logSize is not reset.
SeekFails(p) ==
    /\ db[p].pc = "truncate"
    /\ log' = <<>>
    /\ Return(p)
    /\ UNCHANGED <<snap, doubt>>
    /\ Unsynced

----------------------------------------------------------------------------
(* The environment. *)

\* A process dies; a write it was in may have been carried out in part.  The
\* next process finds what was written, but it need not be on the disk yet.
Kill(p) ==
    /\ db[p].pc # "down"
    /\ \E part \in IF db[p].pc = "write" THEN Parts(db[p].tx) ELSE {<<>>} :
          log' = log \o part
    /\ Release(p)
    /\ doubt' = doubt \cup Touched(db[p].tx)
    /\ UNCHANGED snap
    /\ Unsynced

PowerFails ==
    /\ \E f \in disk \cup {[snap |-> snap, log |-> s] : s \in Seen} :
          snap' = f.snap /\ log' = f.log
    /\ db' = [p \in Procs |-> Down]
    /\ lock' = None
    /\ doubt' = {}
    /\ Synced

----------------------------------------------------------------------------

Init ==
    /\ snap = EmptyMap /\ log = <<>>
    /\ disk = {Files}
    /\ lock = None
    /\ db = [p \in Procs |-> Down]
    /\ doubt = {}

Operate(p) ==
    \/ LoadSnapshot(p) \/ ReplayLog(p) \/ Cut(p) \/ Lock(p) \/ OpenFails(p)
    \/ \E w \in Txs : Update(p, w)
    \/ Write(p) \/ WriteFails(p) \/ Sync(p) \/ SyncFails(p)
    \/ Close(p) \/ Rename(p) \/ Truncate(p) \/ SyncDir(p) \/ CompactFails(p) \/ SeekFails(p)

Next ==
    \/ \E p \in Procs : Operate(p) \/ Kill(p)
    \/ PowerFails

Spec == Init /\ [][Next]_vars

----------------------------------------------------------------------------
(* Correctness. *)

\* The lock is held by the process that runs, from Lock to Return.
TypeOK ==
    /\ snap \in Maps /\ log \in Logs
    /\ disk \subseteq [snap : Maps, log : Logs]
    /\ lock \in Procs \cup {None}
    /\ db \in [Procs -> DB]
    /\ doubt \subseteq Keys
    /\ \A p \in Procs : lock = p <=> Running(p)

\* What a restart would rebuild now, or after a power failure, agrees with
\* what the running process has in memory, and so with all it has reported as
\* committed; save for the keys of the transaction under way and of those
\* that were not reported as committed but whose records are in the log.
Durable ==
    \A p \in Procs : Running(p) =>
        \A f \in disk \cup {Files} : \A k \in Keys :
            \/ Recovered(f)[k] = db[p].data[k]
            \/ k \in doubt \cup Touched(db[p].tx)

\* Whenever a process dies, and at whatever stage, its map is recovered from
\* the files with the transaction under way applied up to some record, in the
\* order in which Update wrote them: everything it had committed, none of the
\* transaction, all of it or its first records, and never a later record
\* without the ones before.  A write set of one record is so atomic.
CrashLeavesPrefix ==
    [][\A p \in Procs :
          Running(p) /\ doubt = {} /\ ~ Running(p)' =>
             \E n \in 0..Len(db[p].tx) :
                Recovered(Files') = Replay(db[p].data, Prefix(db[p].tx, n))]_vars

\* What the specification of the product says instead: a process that dies
\* leaves the transaction under way applied to all its keys or to none.
CrashAtomic ==
    [][\A p \in Procs :
          Running(p) /\ doubt = {} /\ ~ Running(p)' =>
             Recovered(Files') \in {db[p].data, Replay(db[p].data, db[p].tx)}]_vars

\* The engine implements TxMap: its map is that of the process which holds
\* the lock, or else the one that a restart would find.
Engine == INSTANCE TxMap WITH
    map <- IF lock = None THEN Recovered(Files) ELSE db[lock].data,
    tx <- IF lock = None THEN <<>> ELSE db[lock].tx
ImplementsTxMap == Engine!Spec
============================================================================
