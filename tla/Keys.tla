-------------------------------- MODULE Keys -------------------------------
(***************************************************************************)
(* How a process comes by its keys: openStore of cmd/gsignver opens the    *)
(* key store, internal/kms, which reads or makes the two key files, and    *)
(* only then the database, whose lock keeps a second process out.  Every   *)
(* command of the program goes this way.  The database is encrypted under  *)
(* a key derived from the master key; activation codes are stored as       *)
(* digests under the pepper.                                               *)
(*                                                                         *)
(* A key file is written to a temporary name and renamed, and never        *)
(* synced.  Every system call is a step that may fail; a process may be    *)
(* killed after any of them, and the power may go.  All processes use the  *)
(* same temporary name: one may truncate or rename the file that another   *)
(* is writing.                                                             *)
(***************************************************************************)
EXTENDS Integers, FiniteSets

CONSTANTS
    Procs,      \* processes started on the data directory
    Absent,     \* no such file
    Empty,      \* a file whose content has not, or not all, been written
    MaxKeys     \* bound on the keys drawn

ASSUME KeysAssumption ==
    /\ MaxKeys \in Nat
    /\ Absent \notin Nat /\ Empty \notin Nat /\ Absent # Empty

\* master.key and pepper.key, in the order of kms.Open.
Files == {"master", "pepper"}
Contents == Nat \cup {Absent, Empty}

VARIABLES
    path,     \* the key files
    tmp,      \* the same with suffix .tmp
    kept,     \* the key files that a power failure leaves as they are
    drawn,    \* keys drawn so far: each is new
    used,     \* by file: the keys under which the database holds records
    proc,     \* each process
    clash,    \* history: files that two processes were making at once
    lost      \* history: a power failure has taken a key file

vars == <<path, tmp, kept, drawn, used, proc, clash, lost>>

Making == {"create", "write", "rename"}
Stages == {"down", "read", "load", "lock", "serve"} \cup Making
\* file: the one that is being read or made; fd: where the open temporary
\* file has got to, which another process may have renamed or replaced;
\* keys: those obtained so far, 0 for none.
Process == [pc : Stages, file : Files, fd : {"tmp", "path", "gone"}, keys : [Files -> Nat]]
Down == [pc |-> "down", file |-> "master", fd |-> "gone", keys |-> [f \in Files |-> 0]]

Goto(p, stage) == proc' = [proc EXCEPT ![p].pc = stage]
Exit(p) == proc' = [proc EXCEPT ![p] = Down]

\* Mutant: the pepper is not asked for.
Obtained_One(q, k) ==
    [q EXCEPT !.keys[q.file] = k, !.fd = "gone", !.pc = "load", !.file = "pepper"]

\* loadOrCreate returns the key in hand: on to the next file, or to kv.Open.
Obtained(q, k) ==
    [q EXCEPT !.keys[q.file] = k, !.fd = "gone",
              !.pc = IF q.file = "master" THEN "read" ELSE "load",
              !.file = "pepper"]

----------------------------------------------------------------------------
(* kms.Open: loadOrCreate for each of the two files. *)

Start(p) ==
    /\ proc[p].pc = "down"
    /\ Goto(p, "read")
    /\ UNCHANGED <<path, tmp, kept, drawn, used, clash, lost>>

Makers(f) == {q \in Procs : proc[q].pc \in Making /\ proc[q].file = f}

Read(p) ==
    LET f == proc[p].file IN
    /\ proc[p].pc = "read"
    /\ \/ path[f] = Absent /\ Goto(p, "create")
       \/ path[f] = Empty /\ Exit(p)
       \/ path[f] \in Nat /\ proc' = [proc EXCEPT ![p] = Obtained(@, path[f])]
    /\ clash' = IF path[f] = Absent /\ Makers(f) # {} THEN clash \cup {f} ELSE clash
    /\ UNCHANGED <<path, tmp, kept, drawn, used, lost>>

\* Mutant: the key is written to its place without a temporary file.
Create_InPlace(p) ==
    LET f == proc[p].file IN
    /\ proc[p].pc = "create"
    /\ drawn < MaxKeys
    /\ drawn' = drawn + 1
    /\ path' = [path EXCEPT ![f] = Empty]
    /\ proc' = [proc EXCEPT ![p].pc = "write", ![p].fd = "path", ![p].keys[f] = drawn']
    /\ UNCHANGED <<tmp, kept, used, clash, lost>>

\* os.WriteFile opens the temporary file, truncating what is there.
Create(p) ==
    LET f == proc[p].file IN
    /\ proc[p].pc = "create"
    /\ drawn < MaxKeys
    /\ drawn' = drawn + 1
    /\ tmp' = [tmp EXCEPT ![f] = Empty]
    /\ proc' = [proc EXCEPT ![p].pc = "write", ![p].fd = "tmp", ![p].keys[f] = drawn']
    /\ UNCHANGED <<path, kept, used, clash, lost>>

Write(p) ==
    LET f == proc[p].file
        k == proc[p].keys[f]
    IN  /\ proc[p].pc = "write"
        /\ tmp' = IF proc[p].fd = "tmp" THEN [tmp EXCEPT ![f] = k] ELSE tmp
        /\ path' = IF proc[p].fd = "path" THEN [path EXCEPT ![f] = k] ELSE path
        /\ kept' = IF proc[p].fd = "path" THEN kept \ {f} ELSE kept
        /\ Goto(p, "rename")
        /\ UNCHANGED <<drawn, used, clash, lost>>

\* Where the file that q holds open is found after p has renamed it.
Moved(q, f) ==
    IF q.pc # "write" \/ q.file # f THEN q
    ELSE [q EXCEPT !.fd = IF @ = "tmp" THEN "path" ELSE "gone"]

\* Mutant: an error of the renaming is overlooked.
Rename_Failed(p) ==
    /\ proc[p].pc = "rename"
    /\ proc' = [proc EXCEPT ![p] = Obtained(@, @.keys[@.file])]
    /\ UNCHANGED <<path, tmp, kept, drawn, used, clash, lost>>

\* The process goes on with the key it has drawn, whatever the file holds.
Rename(p) ==
    LET f == proc[p].file
        k == proc[p].keys[f]
    IN  /\ proc[p].pc = "rename"
        /\ IF tmp[f] = Absent
           THEN Exit(p) /\ UNCHANGED <<path, tmp, kept>>
           ELSE /\ path' = [path EXCEPT ![f] = tmp[f]]
                /\ kept' = kept \ {f}
                /\ tmp' = [tmp EXCEPT ![f] = Absent]
                /\ proc' = [q \in Procs |-> IF q = p THEN Obtained(proc[p], k)
                                                     ELSE Moved(proc[q], f)]
        /\ UNCHANGED <<drawn, used, clash, lost>>

----------------------------------------------------------------------------
(* kv.Open, and the use of the database. *)

\* Records under another master key cannot be opened.
Load(p) ==
    /\ proc[p].pc = "load"
    /\ IF used["master"] \subseteq {proc[p].keys["master"]} THEN Goto(p, "lock") ELSE Exit(p)
    /\ UNCHANGED <<path, tmp, kept, drawn, used, clash, lost>>

Lock(p) ==
    /\ proc[p].pc = "lock"
    /\ IF \E q \in Procs : proc[q].pc = "serve" THEN Exit(p) ELSE Goto(p, "serve")
    /\ UNCHANGED <<path, tmp, kept, drawn, used, clash, lost>>

\* A commit that holds the digest of an activation code.
Commit(p) ==
    /\ proc[p].pc = "serve"
    /\ used' = [f \in Files |-> used[f] \cup {proc[p].keys[f]}]
    /\ UNCHANGED <<path, tmp, kept, drawn, proc, clash, lost>>

\* The new snapshot is encrypted under the key of the process.
Compact(p) ==
    /\ proc[p].pc = "serve" /\ used["master"] # {}
    /\ used' = [used EXCEPT !["master"] = {proc[p].keys["master"]}]
    /\ UNCHANGED <<path, tmp, kept, drawn, proc, clash, lost>>

\* A system call fails, the process is killed, or it ends.
Stop(p) ==
    /\ proc[p].pc # "down"
    /\ Exit(p)
    /\ UNCHANGED <<path, tmp, kept, drawn, used, clash, lost>>

----------------------------------------------------------------------------
(* The operating system. *)

\* Nothing but time brings a key file to the disk.
Writeback(f) ==
    /\ path[f] \in Nat
    /\ kept' = kept \cup {f}
    /\ UNCHANGED <<path, tmp, drawn, used, proc, clash, lost>>

\* A file that has not been written back may be gone, or be empty.  The
\* database syncs what it commits.
PowerFails ==
    /\ \E m \in [Files \ kept -> {"stays", "empty", "gone"}] :
          /\ path' = [f \in Files |->
                 IF f \in kept \/ path[f] = Absent \/ m[f] = "stays" THEN path[f]
                 ELSE IF m[f] = "empty" THEN Empty ELSE Absent]
          /\ lost' = (lost \/ path' # path)
    /\ tmp' = [f \in Files |-> Absent]
    /\ kept' = {f \in Files : path'[f] \in Nat}
    /\ proc' = [p \in Procs |-> Down]
    /\ UNCHANGED <<drawn, used, clash>>

----------------------------------------------------------------------------

Init ==
    /\ path = [f \in Files |-> Absent]
    /\ tmp = [f \in Files |-> Absent]
    /\ kept = {} /\ drawn = 0
    /\ used = [f \in Files |-> {}]
    /\ proc = [p \in Procs |-> Down]
    /\ clash = {} /\ lost = FALSE

Next ==
    \/ \E p \in Procs :
          \/ Start(p) \/ Read(p) \/ Create(p) \/ Write(p) \/ Rename(p)
          \/ Load(p) \/ Lock(p) \/ Commit(p) \/ Compact(p) \/ Stop(p)
    \/ \E f \in Files : Writeback(f)
    \/ PowerFails

Spec == Init /\ [][Next]_vars

----------------------------------------------------------------------------
(* Correctness. *)

\* A process that goes on to the database has both keys, and only one is in it.
TypeOK ==
    /\ path \in [Files -> Contents] /\ tmp \in [Files -> Contents]
    /\ kept \subseteq Files /\ clash \subseteq Files
    /\ drawn \in 0..MaxKeys
    /\ used \in [Files -> SUBSET Nat]
    /\ proc \in [Procs -> Process]
    /\ lost \in BOOLEAN
    /\ \A p \in Procs : /\ proc[p].pc \in {"load", "lock", "serve"}
                           => proc[p].keys \in [Files -> 1..drawn]
                       /\ \A q \in Procs : proc[p].pc = "serve" /\ proc[q].pc = "serve"
                                             => p = q

\* Whatever the database holds, the key on disk opens it, and whatever code
\* was issued, the pepper on disk recognises it: two causes apart.  Two
\* processes were making the same file at once, so that one of them goes on
\* with a key that is not on disk although the lock then admits only one; or
\* the power failed before the file, which is not synced, was written back.
KeyOnDisk ==
    ~ lost => \A f \in Files \ clash : used[f] \subseteq {path[f]}

\* The same two causes apart, no process that dies on the way leaves a key
\* file that makes every later start fail.
Startable ==
    ~ lost => \A f \in Files \ clash : path[f] # Empty
============================================================================
