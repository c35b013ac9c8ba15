----------------------------- MODULE KeysProofs -----------------------------
(***************************************************************************)
(* Theorems about Keys, for any number of processes and of keys.           *)
(***************************************************************************)
EXTENDS Keys, TLAPS

Running == {"load", "lock", "serve"}

\* The process has key f from loadOrCreate.
Past(q, f) == q.pc \in Running \/ (f = "master" /\ q.file = "pepper")

\* It has drawn key f and is on the way to put it into place.
Carries(q, f) == q.file = f /\ q.pc \in {"write", "rename"}

Types ==
    /\ path \in [Files -> Contents] /\ tmp \in [Files -> Contents]
    /\ kept \subseteq Files /\ clash \subseteq Files
    /\ drawn \in 0..MaxKeys
    /\ used \in [Files -> SUBSET Nat]
    /\ proc \in [Procs -> Process]
    /\ lost \in BOOLEAN

\* A key in a file or in the hands of a process has been drawn.
Drawn ==
    /\ \A f \in Files : path[f] \in Nat => path[f] \in 1..drawn
    /\ \A f \in Files : tmp[f] \in Nat => tmp[f] \in 1..drawn
    /\ \A p \in Procs, f \in Files :
          Past(proc[p], f) \/ Carries(proc[p], f) => proc[p].keys[f] \in 1..drawn

OneServer ==
    \A p \in Procs, q \in Procs : proc[p].pc = "serve" /\ proc[q].pc = "serve" => p = q

TypeInv == Types /\ Drawn /\ OneServer

----------------------------------------------------------------------------
(* Type correctness. *)

\* The record that a step gives to the process it is a step of.
LEMMA OneProcess ==
    ASSUME Types, NEW p \in Procs, NEW Q, proc' = [proc EXCEPT ![p] = Q]
    PROVE  \A q \in Procs : proc'[q] = IF q = p THEN Q ELSE proc[q]
  BY DEF Types

LEMMA DownIsProcess ==
    /\ Down \in Process /\ Down.pc = "down" /\ Down.file = "master"
    /\ \A f \in Files : ~ Past(Down, f) /\ ~ Carries(Down, f)
  BY DEF Down, Process, Files, Stages, Making, Past, Carries, Running

LEMMA InitTypes == Init => TypeInv
  <1> SUFFICES ASSUME Init PROVE TypeInv
    OBVIOUS
  <1>1. \A p \in Procs : proc[p] = Down
    BY DEF Init
  <1>2. Types
    <2>1. drawn \in 0..MaxKeys
      BY KeysAssumption DEF Init
    <2>2. path \in [Files -> Contents] /\ tmp \in [Files -> Contents]
      BY DEF Init, Contents
    <2>3. proc \in [Procs -> Process]
      BY DownIsProcess DEF Init
    <2> QED
      BY <2>1, <2>2, <2>3 DEF Init, Types
  <1>3. Drawn
    BY <1>1, KeysAssumption, DownIsProcess DEF Init, Drawn
  <1>4. OneServer
    BY <1>1, DownIsProcess DEF OneServer
  <1> QED
    BY <1>2, <1>3, <1>4 DEF TypeInv

\* loadOrCreate returns a key to a process: the next file, or the database.
LEMMA ObtainedIsProcess ==
    ASSUME NEW q \in Process, NEW k \in Nat
    PROVE  LET o == Obtained(q, k) IN
           /\ o \in Process
           /\ o.pc \in {"read", "load"} /\ o.file = "pepper"
           /\ o.keys = [q.keys EXCEPT ![q.file] = k]
           /\ o.pc = "load" => q.file = "pepper"
  BY DEF Obtained, Process, Stages, Making, Files

\* What a step that changes no key may do to the processes.
LEMMA StageKeepsDrawn ==
    ASSUME TypeInv, UNCHANGED <<path, tmp, drawn>>,
           NEW p \in Procs, NEW Q \in Process, proc' = [proc EXCEPT ![p] = Q],
           \A f \in Files : Past(Q, f) \/ Carries(Q, f) => Q.keys[f] \in 1..drawn
    PROVE  Drawn' /\ proc' \in [Procs -> Process]
  <1>1. \A q \in Procs : proc'[q] = IF q = p THEN Q ELSE proc[q]
    BY OneProcess DEF TypeInv
  <1>2. proc' \in [Procs -> Process]
    BY DEF TypeInv, Types
  <1> QED
    BY <1>1, <1>2 DEF TypeInv, Drawn

\* A process that does not begin to serve leaves one server at most.
LEMMA OneServerKept ==
    ASSUME TypeInv, NEW p \in Procs, NEW Q \in Process, proc' = [proc EXCEPT ![p] = Q],
           Q.pc = "serve" => \A q \in Procs : proc[q].pc # "serve"
    PROVE  OneServer'
  <1>1. \A q \in Procs : proc'[q] = IF q = p THEN Q ELSE proc[q]
    BY OneProcess DEF TypeInv
  <1> QED
    BY <1>1 DEF TypeInv, OneServer

LEMMA ExitTypes ==
    ASSUME TypeInv, NEW p \in Procs, Exit(p), UNCHANGED <<path, tmp, kept, drawn, used, lost>>,
           clash' \subseteq Files
    PROVE  TypeInv'
  <1>1. Drawn' /\ proc' \in [Procs -> Process]
    BY StageKeepsDrawn, DownIsProcess DEF Exit
  <1>2. OneServer'
    BY OneServerKept, DownIsProcess DEF Exit
  <1> QED
    BY <1>1, <1>2 DEF TypeInv, Types

LEMMA GotoTypes ==
    ASSUME TypeInv, NEW p \in Procs, NEW stage \in Stages, Goto(p, stage),
           UNCHANGED <<path, tmp, kept, drawn, used, lost>>, clash' \subseteq Files,
           stage \in Running => proc[p].pc \in Running,
           stage \in {"write", "rename"} => proc[p].pc \in {"write", "rename"},
           stage = "serve" => \A q \in Procs : proc[q].pc # "serve"
    PROVE  TypeInv'
  <1> DEFINE Q == [proc[p] EXCEPT !.pc = stage]
  <1>0. proc[p] \in Process
    BY DEF TypeInv, Types
  <1>1. Q \in Process /\ Q.pc = stage /\ Q.file = proc[p].file /\ Q.keys = proc[p].keys
    BY <1>0 DEF Process
  <1>2. proc' = [proc EXCEPT ![p] = Q]
    BY DEF Goto
  <1>3. \A f \in Files : Past(Q, f) \/ Carries(Q, f) => Q.keys[f] \in 1..drawn
    BY <1>1 DEF TypeInv, Drawn, Past, Carries
  <1> HIDE DEF Q
  <1>4. Drawn' /\ proc' \in [Procs -> Process]
    BY <1>1, <1>2, <1>3, StageKeepsDrawn
  <1>5. OneServer'
    BY <1>1, <1>2, OneServerKept
  <1> QED
    BY <1>4, <1>5 DEF TypeInv, Types

LEMMA ReadTypes ==
    ASSUME TypeInv, NEW p \in Procs, Read(p)
    PROVE  TypeInv'
  <1> DEFINE q == proc[p]
  <1>1. q \in Process /\ q.file \in Files /\ clash' \subseteq Files
    BY DEF TypeInv, Types, Process, Read
  <1>2. CASE path[q.file] = Absent
    <2>1. Goto(p, "create")
      BY <1>2, KeysAssumption DEF Read
    <2> QED
      BY <1>1, <2>1, GotoTypes DEF Read, Stages, Making, Running
  <1>3. CASE path[q.file] = Empty
    <2>1. Exit(p)
      BY <1>3, KeysAssumption DEF Read
    <2> QED
      BY <1>1, <2>1, ExitTypes DEF Read
  <1>4. CASE path[q.file] \in Nat
    <2> DEFINE Q == Obtained(q, path[q.file])
    <2>1. path[q.file] \in Nat /\ path[q.file] \in 1..drawn
      BY <1>1, <1>4 DEF TypeInv, Drawn
    <2>2. proc' = [proc EXCEPT ![p] = Q] /\ q.pc = "read"
      BY <1>4, KeysAssumption DEF Read
    <2>3. /\ Q \in Process /\ Q.pc \in {"read", "load"} /\ Q.file = "pepper"
          /\ Q.keys = [q.keys EXCEPT ![q.file] = path[q.file]]
          /\ Q.pc = "load" => q.file = "pepper"
      BY <1>1, <2>1, ObtainedIsProcess
    <2>4. \A f \in Files : Past(Q, f) \/ Carries(Q, f) => Q.keys[f] \in 1..drawn
      <3> SUFFICES ASSUME NEW f \in Files, Past(Q, f) \/ Carries(Q, f), f # q.file
                   PROVE  q.keys[f] \in 1..drawn
        BY <1>1, <2>1, <2>3 DEF Process
      <3> QED
        BY <1>1, <2>3 DEF Past, Carries, Running, Files, TypeInv, Drawn
    <2> HIDE DEF Q
    <2>5. Drawn' /\ proc' \in [Procs -> Process]
      BY <2>2, <2>3, <2>4, StageKeepsDrawn DEF Read
    <2>6. OneServer'
      BY <2>2, <2>3, OneServerKept
    <2> QED
      BY <1>1, <2>5, <2>6 DEF TypeInv, Types, Read
  <1> QED
    BY <1>1, <1>2, <1>3, <1>4 DEF TypeInv, Types, Contents

LEMMA CreateTypes ==
    ASSUME TypeInv, NEW p \in Procs, Create(p)
    PROVE  TypeInv'
  <1> DEFINE f == proc[p].file
             Q == [proc[p] EXCEPT !.pc = "write", !.fd = "tmp", !.keys[f] = drawn']
  <1>1. proc[p] \in Process /\ f \in Files /\ proc[p].pc = "create"
    BY DEF TypeInv, Types, Process, Create
  <1>2. drawn \in Nat /\ drawn' = drawn + 1 /\ drawn' \in 0..MaxKeys
    BY KeysAssumption DEF TypeInv, Types, Create
  <1>3. proc' = [proc EXCEPT ![p] = Q]
    BY DEF Create
  <1>4. /\ Q \in Process /\ Q.pc = "write" /\ Q.file = f
        /\ Q.keys = [proc[p].keys EXCEPT ![f] = drawn']
    <2>1. drawn' \in Nat /\ proc[p].keys \in [Files -> Nat]
      BY <1>1, <1>2 DEF Process
    <2>2. [proc[p].keys EXCEPT ![f] = drawn'] \in [Files -> Nat]
      BY <2>1
    <2>3. Q = [proc[p] EXCEPT !.pc = "write", !.fd = "tmp",
                              !.keys = [proc[p].keys EXCEPT ![f] = drawn']]
      BY <1>1, Zenon DEF Process
    <2> DEFINE K == [proc[p].keys EXCEPT ![f] = drawn']
    <2> HIDE DEF K
    <2>4. [proc[p] EXCEPT !.pc = "write", !.fd = "tmp", !.keys = K] \in Process
      BY <1>1, <2>2 DEF Process, Stages, Making, K
    <2> QED
      BY <1>1, <2>2, <2>3, <2>4 DEF Process, K
  <1> HIDE DEF Q
  <1>5. \A q \in Procs : proc'[q] = IF q = p THEN Q ELSE proc[q]
    BY <1>3, OneProcess DEF TypeInv
  <1>6. tmp' = [tmp EXCEPT ![f] = Empty] /\ UNCHANGED <<path, kept, used, clash, lost>>
    BY DEF Create
  <1>7. Types'
    BY <1>1, <1>2, <1>3, <1>4, <1>6 DEF TypeInv, Types, Contents
  <1>8. Drawn'
    <2>1. \A k : k \in 1..drawn => k \in 1..drawn'
      BY <1>2
    <2>2. \A g \in Files : path'[g] \in Nat => path'[g] \in 1..drawn'
      BY <1>6, <2>1 DEF TypeInv, Drawn
    <2>3. \A g \in Files : tmp'[g] \in Nat => tmp'[g] \in 1..drawn'
      BY <1>1, <1>6, <2>1, KeysAssumption DEF TypeInv, Types, Drawn
    <2>4. ASSUME NEW q \in Procs, NEW g \in Files, Past(proc'[q], g) \/ Carries(proc'[q], g)
          PROVE  proc'[q].keys[g] \in 1..drawn'
      <3>1. CASE q # p
        BY <1>5, <2>1, <2>4, <3>1 DEF TypeInv, Drawn
      <3>2. CASE q = p /\ g = f
        BY <1>1, <1>2, <1>4, <1>5, <3>2 DEF Process
      <3>3. CASE q = p /\ g # f
        <4>1. Past(proc[p], g)
          BY <1>1, <1>4, <1>5, <2>4, <3>3 DEF Past, Carries, Running
        <4> QED
          BY <1>1, <1>4, <1>5, <2>1, <3>3, <4>1 DEF Process, TypeInv, Drawn
      <3> QED
        BY <3>1, <3>2, <3>3
    <2> QED
      BY <2>2, <2>3, <2>4 DEF Drawn
  <1>9. OneServer'
    BY <1>3, <1>4, OneServerKept
  <1> QED
    BY <1>7, <1>8, <1>9 DEF TypeInv

LEMMA WriteTypes ==
    ASSUME TypeInv, NEW p \in Procs, Write(p)
    PROVE  TypeInv'
  <1> DEFINE f == proc[p].file
             k == proc[p].keys[f]
             Q == [proc[p] EXCEPT !.pc = "rename"]
  <1>1. proc[p] \in Process /\ f \in Files /\ proc[p].pc = "write"
    BY DEF TypeInv, Types, Process, Write
  <1>2. k \in 1..drawn /\ k \in Nat
    BY <1>1 DEF TypeInv, Types, Drawn, Carries
  <1>3. proc' = [proc EXCEPT ![p] = Q]
    BY DEF Write, Goto
  <1>4. Q \in Process /\ Q.pc = "rename" /\ Q.file = f /\ Q.keys = proc[p].keys
    BY <1>1 DEF Process, Stages, Making
  <1> HIDE DEF Q
  <1>5. \A q \in Procs : proc'[q] = IF q = p THEN Q ELSE proc[q]
    BY <1>3, OneProcess DEF TypeInv
  <1>6. /\ tmp' \in {tmp, [tmp EXCEPT ![f] = k]}
        /\ path' \in {path, [path EXCEPT ![f] = k]}
        /\ kept' \subseteq kept
        /\ UNCHANGED <<drawn, used, clash, lost>>
    BY DEF Write
  <1> HIDE DEF k
  <1>7. Types'
    BY <1>1, <1>2, <1>3, <1>4, <1>6 DEF TypeInv, Types, Contents
  <1>8. Drawn'
    <2>1. \A g \in Files : path'[g] \in Nat => path'[g] \in 1..drawn'
      BY <1>1, <1>2, <1>6 DEF TypeInv, Types, Drawn
    <2>2. \A g \in Files : tmp'[g] \in Nat => tmp'[g] \in 1..drawn'
      BY <1>1, <1>2, <1>6 DEF TypeInv, Types, Drawn
    <2>3. \A q \in Procs, g \in Files : Past(proc'[q], g) \/ Carries(proc'[q], g)
             => proc'[q].keys[g] \in 1..drawn'
      BY <1>1, <1>4, <1>5, <1>6 DEF TypeInv, Drawn, Past, Carries, Running
    <2> QED
      BY <2>1, <2>2, <2>3 DEF Drawn
  <1>9. OneServer'
    BY <1>3, <1>4, OneServerKept
  <1> QED
    BY <1>7, <1>8, <1>9 DEF TypeInv

\* What the renaming of a file does to the process that has it open.
LEMMA MovedIsProcess ==
    ASSUME NEW q \in Process, NEW f
    PROVE  LET m == Moved(q, f) IN
           m \in Process /\ m.pc = q.pc /\ m.file = q.file /\ m.keys = q.keys
  BY DEF Moved, Process

LEMMA RenameTypes ==
    ASSUME TypeInv, NEW p \in Procs, Rename(p)
    PROVE  TypeInv'
  <1> DEFINE f == proc[p].file
             k == proc[p].keys[f]
             Q == Obtained(proc[p], k)
  <1>1. /\ proc[p] \in Process /\ f \in Files /\ proc[p].pc = "rename"
        /\ k \in 1..drawn /\ k \in Nat
    BY DEF TypeInv, Types, Process, Rename, Drawn, Carries
  <1>2. CASE tmp[f] = Absent
    BY <1>2, ExitTypes DEF Rename, TypeInv, Types
  <1>3. CASE tmp[f] # Absent
    <2>1. /\ Q \in Process /\ Q.pc \in {"read", "load"} /\ Q.file = "pepper"
          /\ Q.keys = [proc[p].keys EXCEPT ![f] = k]
          /\ Q.pc = "load" => f = "pepper"
      BY <1>1, ObtainedIsProcess
    <2>2. proc' = [q \in Procs |-> IF q = p THEN Q ELSE Moved(proc[q], f)]
      BY <1>3 DEF Rename
    <2>3. /\ path' = [path EXCEPT ![f] = tmp[f]] /\ tmp' = [tmp EXCEPT ![f] = Absent]
          /\ kept' = kept \ {f} /\ UNCHANGED <<drawn, used, clash, lost>>
      BY <1>3 DEF Rename
    <2> HIDE DEF Q
    <2>4. \A q \in Procs : q # p =>
             /\ proc'[q] \in Process /\ proc'[q].pc = proc[q].pc
             /\ proc'[q].file = proc[q].file /\ proc'[q].keys = proc[q].keys
      BY <2>2, MovedIsProcess DEF TypeInv, Types
    <2>5. proc'[p] = Q
      BY <2>2
    <2>6. Types'
      <3>1. proc' \in [Procs -> Process]
        BY <2>1, <2>2, <2>4
      <3> QED
        BY <1>1, <2>3, <3>1 DEF TypeInv, Types, Contents
    <2>7. Drawn'
      <3>1. \A g \in Files : path'[g] \in Nat => path'[g] \in 1..drawn'
        BY <1>1, <2>3 DEF TypeInv, Types, Drawn
      <3>2. \A g \in Files : tmp'[g] \in Nat => tmp'[g] \in 1..drawn'
        BY <1>1, <2>3, KeysAssumption DEF TypeInv, Types, Drawn
      <3>3. ASSUME NEW q \in Procs, NEW g \in Files, Past(proc'[q], g) \/ Carries(proc'[q], g)
            PROVE  proc'[q].keys[g] \in 1..drawn'
        <4>1. CASE q # p
          BY <2>3, <2>4, <3>3, <4>1 DEF TypeInv, Drawn, Past, Carries
        <4>2. CASE q = p /\ g = f
          BY <1>1, <2>1, <2>3, <2>5, <4>2 DEF Process
        <4>3. CASE q = p /\ g # f
          <5>1. Past(proc[p], g)
            BY <1>1, <2>1, <2>5, <3>3, <4>3 DEF Past, Carries, Running, Files
          <5> QED
            BY <1>1, <2>1, <2>3, <2>5, <4>3, <5>1 DEF Process, TypeInv, Drawn
        <4> QED
          BY <4>1, <4>2, <4>3
      <3> QED
        BY <3>1, <3>2, <3>3 DEF Drawn
    <2>8. OneServer'
      BY <2>1, <2>4, <2>5 DEF TypeInv, OneServer
    <2> QED
      BY <2>6, <2>7, <2>8 DEF TypeInv
  <1> QED
    BY <1>2, <1>3

LEMMA StoreTypes ==
    ASSUME TypeInv, NEW p \in Procs, Commit(p) \/ Compact(p)
    PROVE  TypeInv'
  <1>1. \A f \in Files : proc[p].keys[f] \in Nat
    BY DEF TypeInv, Types, Process
  <1>2. used' \in [Files -> SUBSET Nat]
    BY <1>1 DEF Commit, Compact, TypeInv, Types, Files
  <1>3. UNCHANGED <<path, tmp, kept, drawn, proc, clash, lost>>
    BY DEF Commit, Compact
  <1> QED
    BY <1>2, <1>3 DEF TypeInv, Types, Drawn, OneServer

LEMMA PowerTypes ==
    ASSUME TypeInv, PowerFails
    PROVE  TypeInv'
  <1>1. PICK m \in [Files \ kept -> {"stays", "empty", "gone"}] :
           path' = [f \in Files |->
                 IF f \in kept \/ path[f] = Absent \/ m[f] = "stays" THEN path[f]
                 ELSE IF m[f] = "empty" THEN Empty ELSE Absent]
    BY DEF PowerFails
  <1>2. \A f \in Files : path'[f] \in {path[f], Empty, Absent}
    BY <1>1
  <1>3. path' \in [Files -> Contents] /\ tmp' \in [Files -> Contents]
    BY <1>1, <1>2 DEF PowerFails, TypeInv, Types, Contents
  <1>4. proc' = [p \in Procs |-> Down] /\ lost' \in BOOLEAN /\ kept' \subseteq Files
    BY DEF PowerFails, TypeInv, Types
  <1>5. \A p \in Procs : proc'[p] = Down
    BY <1>4
  <1>6. Types'
    BY <1>3, <1>4, DownIsProcess DEF PowerFails, TypeInv, Types
  <1>7. Drawn'
    BY <1>2, <1>5, DownIsProcess, KeysAssumption DEF PowerFails, TypeInv, Types, Drawn
  <1>8. OneServer'
    BY <1>5, DownIsProcess DEF OneServer
  <1> QED
    BY <1>6, <1>7, <1>8 DEF TypeInv

LEMMA NextTypes ==
    ASSUME TypeInv, [Next]_vars
    PROVE  TypeInv'
  <1>1. ASSUME NEW p \in Procs, Start(p) PROVE TypeInv'
    BY <1>1, GotoTypes DEF Start, Stages, Running, TypeInv, Types
  <1>2. ASSUME NEW p \in Procs, Load(p) PROVE TypeInv'
    <2>1. CASE Goto(p, "lock")
      BY <1>2, <2>1, GotoTypes DEF Load, Stages, Running, TypeInv, Types
    <2>2. CASE Exit(p)
      BY <1>2, <2>2, ExitTypes DEF Load, TypeInv, Types
    <2> QED
      BY <1>2, <2>1, <2>2 DEF Load
  <1>3. ASSUME NEW p \in Procs, Lock(p) PROVE TypeInv'
    <2>1. CASE \E q \in Procs : proc[q].pc = "serve"
      BY <1>3, <2>1, ExitTypes DEF Lock, TypeInv, Types
    <2>2. CASE ~ \E q \in Procs : proc[q].pc = "serve"
      BY <1>3, <2>2, GotoTypes DEF Lock, Stages, Running, TypeInv, Types
    <2> QED
      BY <2>1, <2>2
  <1>4. ASSUME NEW p \in Procs, Stop(p) PROVE TypeInv'
    BY <1>4, ExitTypes DEF Stop, TypeInv, Types
  <1>5. ASSUME NEW f \in Files, Writeback(f) PROVE TypeInv'
    BY <1>5 DEF Writeback, TypeInv, Types, Drawn, OneServer
  <1>6. CASE UNCHANGED vars
    BY <1>6 DEF vars, TypeInv, Types, Drawn, OneServer
  <1> QED
    BY <1>1, <1>2, <1>3, <1>4, <1>5, <1>6, ReadTypes, CreateTypes, WriteTypes, RenameTypes,
       StoreTypes, PowerTypes DEF Next

LEMMA TypesHold == Spec => []TypeInv
  BY InitTypes, NextTypes, PTL DEF Spec

LEMMA TypeInvImpliesTypeOK == TypeInv => TypeOK
  <1> SUFFICES ASSUME TypeInv, NEW p \in Procs, proc[p].pc \in Running
               PROVE  proc[p].keys \in [Files -> 1..drawn]
    BY DEF TypeInv, Types, OneServer, TypeOK, Running
  <1>1. proc[p].keys \in [Files -> Nat] /\ \A f \in Files : proc[p].keys[f] \in 1..drawn
    BY DEF TypeInv, Types, Process, Drawn, Past
  <1> QED
    BY <1>1

\* Every variable keeps its type; a process reaches the database with both
\* keys, and one process is in it at most (internal/kms Open, internal/kv
\* Open).
THEOREM TypeCorrect == Spec => []TypeOK
  BY TypesHold, TypeInvImpliesTypeOK, PTL

----------------------------------------------------------------------------
(* Keys and data. *)

\* A file that no two processes were making at once: nobody makes it once it
\* is there, its maker's temporary file is its own, and what other processes
\* hold and the database uses is what the file holds.
Sound(f) ==
    /\ path[f] # Empty
    /\ path[f] # Absent => Makers(f) = {}
    /\ \A p \in Makers(f), q \in Makers(f) : p = q
    /\ \A p \in Makers(f) : /\ proc[p].pc = "write" => proc[p].fd = "tmp"
                            /\ proc[p].pc = "rename" => tmp[f] = proc[p].keys[f]
    /\ \A p \in Procs : Past(proc[p], f) => proc[p].keys[f] = path[f]
    /\ used[f] \subseteq {path[f]}

KeysInv == ~ lost => \A f \in Files \ clash : Sound(f)

LEMMA InitSound == Init => KeysInv
  <1> SUFFICES ASSUME Init, NEW f \in Files PROVE Sound(f)
    BY DEF KeysInv
  <1>1. \A p \in Procs : proc[p] = Down
    BY DEF Init
  <1>2. Makers(f) = {}
    BY <1>1, DownIsProcess DEF Makers, Making
  <1> QED
    BY <1>1, <1>2, DownIsProcess, KeysAssumption DEF Init, Sound

\* As long as the file is not there, nobody has its key and nothing is stored
\* under it.
LEMMA NoKeyNoUse ==
    ASSUME TypeInv, NEW f \in Files, Sound(f), path[f] = Absent
    PROVE  used[f] = {} /\ \A p \in Procs : ~ Past(proc[p], f)
  <1>1. used[f] \subseteq Nat
    BY DEF TypeInv, Types
  <1>2. \A p \in Procs : Past(proc[p], f) => proc[p].keys[f] \in Nat
    BY DEF TypeInv, Types, Process
  <1> QED
    BY <1>1, <1>2, KeysAssumption DEF Sound

\* A step of a process that leaves the files alone, and makes it neither a
\* maker of f nor the holder of another key, keeps f sound.
LEMMA StepKeepsSound ==
    ASSUME TypeInv, NEW f \in Files, Sound(f), UNCHANGED <<path, tmp, used>>,
           NEW p \in Procs, NEW Q \in Process, proc' = [proc EXCEPT ![p] = Q],
           ~ (Q.pc \in Making /\ Q.file = f),
           Past(Q, f) => Q.keys[f] = path[f]
    PROVE  Sound(f)'
  <1>1. \A q \in Procs : proc'[q] = IF q = p THEN Q ELSE proc[q]
    BY OneProcess DEF TypeInv
  <1>2. Makers(f)' \subseteq Makers(f) \ {p}
    BY <1>1 DEF Makers
  <1>3. \A q \in Makers(f)' : q \in Makers(f) /\ proc'[q] = proc[q]
    BY <1>1, <1>2 DEF Makers
  <1>4. \A q \in Procs : Past(proc'[q], f) => proc'[q].keys[f] = path'[f]
    BY <1>1 DEF Sound
  <1> QED
    BY <1>2, <1>3, <1>4 DEF Sound

LEMMA ExitSound ==
    ASSUME TypeInv, NEW f \in Files, Sound(f), UNCHANGED <<path, tmp, used>>,
           NEW p \in Procs, Exit(p)
    PROVE  Sound(f)'
  BY StepKeepsSound, DownIsProcess DEF Exit, Making

LEMMA GotoSound ==
    ASSUME TypeInv, NEW f \in Files, Sound(f), UNCHANGED <<path, tmp, used>>,
           NEW p \in Procs, NEW stage \in Stages \ Making, Goto(p, stage),
           stage \in Running => proc[p].pc \in Running
    PROVE  Sound(f)'
  <1> DEFINE Q == [proc[p] EXCEPT !.pc = stage]
  <1>1. proc[p] \in Process
    BY DEF TypeInv, Types
  <1>2. Q \in Process /\ Q.pc = stage /\ Q.file = proc[p].file /\ Q.keys = proc[p].keys
    BY <1>1 DEF Process
  <1>3. proc' = [proc EXCEPT ![p] = Q]
    BY DEF Goto
  <1>4. Past(Q, f) => Q.keys[f] = path[f]
    BY <1>2 DEF Past, Sound
  <1> HIDE DEF Q
  <1> QED
    BY <1>2, <1>3, <1>4, StepKeepsSound

\* A file is missing and nobody else is making it: the reader becomes its
\* maker.  Otherwise it takes the key that is there.
LEMMA ReadSound ==
    ASSUME TypeInv, NEW f \in Files, Sound(f), NEW p \in Procs, Read(p), f \notin clash'
    PROVE  Sound(f)'
  <1> DEFINE g == proc[p].file
  <1>1. /\ proc[p] \in Process /\ g \in Files /\ proc[p].pc = "read"
        /\ UNCHANGED <<path, tmp, used>>
    BY DEF TypeInv, Types, Process, Read
  <1>2. CASE path[g] = Absent
    <2> DEFINE Q == [proc[p] EXCEPT !.pc = "create"]
    <2>1. Q \in Process /\ Q.pc = "create" /\ Q.file = g /\ Q.keys = proc[p].keys
      BY <1>1 DEF Process, Stages, Making
    <2>2. proc' = [proc EXCEPT ![p] = Q]
      BY <1>2, KeysAssumption DEF Read, Goto
    <2> HIDE DEF Q
    <2>3. \A q \in Procs : proc'[q] = IF q = p THEN Q ELSE proc[q]
      BY <2>2, OneProcess DEF TypeInv
    <2>4. Past(Q, f) => Past(proc[p], f)
      BY <2>1 DEF Past, Running
    <2>5. \A q \in Procs : Past(proc'[q], f) => proc'[q].keys[f] = path'[f]
      BY <1>1, <2>1, <2>3, <2>4 DEF Sound
    <2>6. CASE g = f
      <3>1. Makers(f) = {}
        BY <1>2, <2>6 DEF Read
      <3>2. Makers(f)' \subseteq {p}
        BY <2>3, <3>1 DEF Makers
      <3> QED
        BY <1>1, <1>2, <2>1, <2>3, <2>5, <2>6, <3>2 DEF Sound
    <2>7. CASE g # f
      <3>1. ~ (Q.pc \in Making /\ Q.file = f) /\ UNCHANGED <<path, tmp, used>>
        BY <1>1, <2>1, <2>7
      <3>2. Past(Q, f) => Q.keys[f] = path[f]
        BY <1>1, <2>1, <2>4 DEF Sound
      <3> QED
        BY <2>1, <2>2, <3>1, <3>2, StepKeepsSound
    <2> QED
      BY <2>6, <2>7
  <1>3. CASE path[g] = Empty
    <2>1. Exit(p)
      BY <1>3, KeysAssumption DEF Read
    <2> QED
      BY <1>1, <2>1, ExitSound
  <1>4. CASE path[g] \in Nat
    <2> DEFINE Q == Obtained(proc[p], path[g])
    <2>1. proc' = [proc EXCEPT ![p] = Q]
      BY <1>4, KeysAssumption DEF Read
    <2>2. /\ Q \in Process /\ Q.pc \in {"read", "load"} /\ Q.file = "pepper"
          /\ Q.keys = [proc[p].keys EXCEPT ![g] = path[g]]
          /\ Q.pc = "load" => g = "pepper"
      BY <1>1, <1>4, ObtainedIsProcess
    <2> HIDE DEF Q
    <2>3. Past(Q, f) => f = g \/ Past(proc[p], f)
      BY <1>1, <2>2 DEF Past, Running, Files
    <2>4. Past(Q, f) => Q.keys[f] = path[f]
      BY <1>1, <2>2, <2>3 DEF Process, Sound
    <2> QED
      BY <1>1, <2>1, <2>2, <2>4, StepKeepsSound DEF Making
  <1> QED
    BY <1>1, <1>2, <1>3, <1>4 DEF TypeInv, Types, Contents

LEMMA CreateSound ==
    ASSUME TypeInv, NEW f \in Files, Sound(f), NEW p \in Procs, Create(p)
    PROVE  Sound(f)'
  <1> DEFINE g == proc[p].file
             K == [proc[p].keys EXCEPT ![g] = drawn']
             Q == [proc[p] EXCEPT !.pc = "write", !.fd = "tmp", !.keys = K]
  <1>1. proc[p] \in Process /\ g \in Files /\ proc[p].pc = "create"
    BY DEF TypeInv, Types, Process, Create
  <1>2. proc' = [proc EXCEPT ![p] = Q]
    BY DEF Create
  <1>3. /\ tmp' = [tmp EXCEPT ![g] = Empty] /\ UNCHANGED <<path, used>>
    BY DEF Create
  <1>4. \A h \in Files : h # g => K[h] = proc[p].keys[h]
    BY <1>1 DEF Process
  <1> HIDE DEF K
  <1>5. Q.pc = "write" /\ Q.file = g /\ Q.fd = "tmp" /\ Q.keys = K
    BY <1>1 DEF Process
  <1> HIDE DEF Q
  <1>6. \A q \in Procs : proc'[q] = IF q = p THEN Q ELSE proc[q]
    BY <1>2, OneProcess DEF TypeInv
  <1>7. Makers(f)' = Makers(f)
    BY <1>1, <1>5, <1>6 DEF Makers, Making
  <1>8. Past(Q, f) => Past(proc[p], f) /\ f # g
    BY <1>1, <1>5 DEF Past, Running, Files
  <1>9. \A q \in Procs : Past(proc'[q], f) => proc'[q].keys[f] = path'[f]
    BY <1>3, <1>4, <1>5, <1>6, <1>8 DEF Sound
  <1>10. \A q \in Makers(f) : /\ proc'[q].pc = "write" => proc'[q].fd = "tmp"
                              /\ proc'[q].pc = "rename" => tmp'[f] = proc'[q].keys[f]
    <2> SUFFICES ASSUME NEW q \in Makers(f), q # p
                 PROVE  /\ proc'[q].pc = "write" => proc'[q].fd = "tmp"
                        /\ proc'[q].pc = "rename" => tmp'[f] = proc'[q].keys[f]
      BY <1>5, <1>6 DEF Makers
    <2>1. f # g
      BY <1>1 DEF Sound, Makers, Making
    <2> QED
      BY <1>1, <1>3, <1>6, <2>1 DEF Sound, Makers, TypeInv, Types
  <1>11. /\ path'[f] # Empty /\ used'[f] \subseteq {path'[f]}
         /\ path'[f] # Absent => Makers(f)' = {}
         /\ \A q \in Makers(f)', r \in Makers(f)' : q = r
    BY <1>3, <1>7 DEF Sound
  <1>12. \A q \in Makers(f)' : /\ proc'[q].pc = "write" => proc'[q].fd = "tmp"
                               /\ proc'[q].pc = "rename" => tmp'[f] = proc'[q].keys[f]
    BY <1>7, <1>10
  <1> QED
    BY <1>9, <1>11, <1>12 DEF Sound

LEMMA WriteSound ==
    ASSUME TypeInv, NEW f \in Files, Sound(f), NEW p \in Procs, Write(p),
           proc[p].file = f
    PROVE  Sound(f)'
  <1> DEFINE Q == [proc[p] EXCEPT !.pc = "rename"]
  <1>1. proc[p] \in Process /\ proc[p].pc = "write" /\ p \in Makers(f)
    BY DEF TypeInv, Types, Write, Makers, Making
  <1>2. proc[p].fd = "tmp"
    BY <1>1 DEF Sound
  <1>3. /\ proc' = [proc EXCEPT ![p] = Q] /\ UNCHANGED <<path, used>>
        /\ tmp' = [tmp EXCEPT ![f] = proc[p].keys[f]]
    BY <1>2 DEF Write, Goto
  <1>4. Q.pc = "rename" /\ Q.file = f /\ Q.keys = proc[p].keys
    BY <1>1 DEF Process
  <1> HIDE DEF Q
  <1>5. \A q \in Procs : proc'[q] = IF q = p THEN Q ELSE proc[q]
    BY <1>3, OneProcess DEF TypeInv
  <1>6. Makers(f)' = {p} /\ Makers(f) = {p}
    BY <1>1, <1>4, <1>5 DEF Makers, Making, Sound
  <1>7. \A q \in Procs : Past(proc'[q], f) => proc'[q].keys[f] = path'[f]
    <2>1. Past(Q, f) => Past(proc[p], f)
      BY <1>1, <1>4 DEF Past, Running
    <2> QED
      BY <1>3, <1>4, <1>5, <2>1 DEF Sound
  <1>8. tmp'[f] = proc'[p].keys[f]
    BY <1>3, <1>4, <1>5 DEF TypeInv, Types
  <1>9. path[f] = Absent
    BY <1>1 DEF Sound
  <1> QED
    BY <1>3, <1>4, <1>5, <1>6, <1>7, <1>8, <1>9, KeysAssumption DEF Sound

\* The only maker of f renames its own file: its key is that of the file, and
\* there was none before.
LEMMA RenameSound ==
    ASSUME TypeInv, NEW f \in Files, Sound(f), NEW p \in Procs, Rename(p),
           proc[p].file = f
    PROVE  Sound(f)'
  <1> DEFINE k == proc[p].keys[f]
             Q == Obtained(proc[p], k)
  <1>1. /\ proc[p] \in Process /\ proc[p].pc = "rename" /\ p \in Makers(f)
        /\ k \in Nat /\ tmp[f] = k
    BY DEF TypeInv, Types, Process, Rename, Makers, Making, Sound
  <1>2. /\ path' = [path EXCEPT ![f] = k] /\ UNCHANGED used
        /\ proc' = [q \in Procs |-> IF q = p THEN Q ELSE Moved(proc[q], f)]
    BY <1>1, KeysAssumption DEF Rename
  <1>3. /\ Q \in Process /\ Q.pc \in {"read", "load"} /\ Q.file = "pepper"
        /\ Q.keys = [proc[p].keys EXCEPT ![f] = k]
    BY <1>1, ObtainedIsProcess
  <1> HIDE DEF Q
  <1>4. \A q \in Procs : q # p => /\ proc'[q].pc = proc[q].pc /\ proc'[q].file = proc[q].file
                                 /\ proc'[q].keys = proc[q].keys
    BY <1>2, MovedIsProcess DEF TypeInv, Types
  <1>5. path[f] = Absent /\ Makers(f) = {p}
    BY <1>1 DEF Sound
  <1>6. used[f] = {} /\ \A q \in Procs : ~ Past(proc[q], f)
    BY <1>5, NoKeyNoUse
  <1>7. Makers(f)' = {}
    BY <1>2, <1>3, <1>4, <1>5 DEF Makers, Making
  <1>8. path'[f] = k
    BY <1>2 DEF TypeInv, Types
  <1>9. ASSUME NEW q \in Procs, Past(proc'[q], f)
        PROVE  proc'[q].keys[f] = path'[f]
    <2>1. q = p
      BY <1>4, <1>6, <1>9 DEF Past
    <2> QED
      BY <1>1, <1>2, <1>3, <1>8, <2>1 DEF Process
  <1> QED
    BY <1>1, <1>2, <1>6, <1>7, <1>8, <1>9, KeysAssumption DEF Sound

\* Steps that are about the other key file.
LEMMA OtherFileSound ==
    ASSUME TypeInv, NEW f \in Files, Sound(f), NEW p \in Procs,
           Write(p) \/ Rename(p), proc[p].file # f
    PROVE  Sound(f)'
  <1> DEFINE g == proc[p].file
  <1>1. proc[p] \in Process /\ g \in Files /\ proc[p].pc \in {"write", "rename"}
    BY DEF TypeInv, Types, Process, Write, Rename
  <1>2. path'[f] = path[f] /\ tmp'[f] = tmp[f] /\ used' = used
    BY <1>1 DEF Write, Rename, TypeInv, Types
  <1>3. \A q \in Procs : q # p =>
           /\ proc'[q].pc = proc[q].pc /\ proc'[q].file = proc[q].file
           /\ proc'[q].keys = proc[q].keys
           /\ proc[q].file = f => proc'[q] = proc[q]
    <2>1. CASE Write(p)
      BY <2>1 DEF Write, Goto, TypeInv, Types
    <2>2. CASE Rename(p) /\ tmp[g] = Absent
      BY <2>2 DEF Rename, Exit, TypeInv, Types
    <2>3. CASE Rename(p) /\ tmp[g] # Absent
      <3>1. \A q \in Procs : q # p => proc'[q] = Moved(proc[q], g)
        BY <2>3 DEF Rename
      <3>2. \A q \in Procs : proc[q].file = f => Moved(proc[q], g) = proc[q]
        BY DEF Moved
      <3> QED
        BY <3>1, <3>2, MovedIsProcess DEF TypeInv, Types
    <2> QED
      BY <2>1, <2>2, <2>3
  <1>4. /\ ~ (proc'[p].pc \in Making /\ proc'[p].file = f)
        /\ Past(proc'[p], f) => Past(proc[p], f) /\ proc'[p].keys[f] = proc[p].keys[f]
    <2>1. CASE Write(p)
      <3>1. proc'[p] = [proc[p] EXCEPT !.pc = "rename"]
        BY <2>1 DEF Write, Goto, TypeInv, Types
      <3> QED
        BY <1>1, <3>1 DEF Process, Past, Running
    <2>2. CASE Rename(p) /\ tmp[g] = Absent
      <3>1. proc'[p] = Down
        BY <2>2 DEF Rename, Exit, TypeInv, Types
      <3> QED
        BY <3>1, DownIsProcess DEF Making
    <2>3. CASE Rename(p) /\ tmp[g] # Absent
      <3> DEFINE Q == Obtained(proc[p], proc[p].keys[g])
      <3>1. proc'[p] = Q
        BY <2>3 DEF Rename
      <3>2. /\ Q.pc \in {"read", "load"} /\ Q.file = "pepper"
            /\ Q.keys = [proc[p].keys EXCEPT ![g] = proc[p].keys[g]]
            /\ Q.pc = "load" => g = "pepper"
        BY <1>1, ObtainedIsProcess DEF Process
      <3> HIDE DEF Q
      <3> QED
        BY <1>1, <3>1, <3>2 DEF Process, Past, Running, Making, Files
    <2> QED
      BY <2>1, <2>2, <2>3
  <1>5. Makers(f)' = Makers(f) /\ p \notin Makers(f)
    BY <1>3, <1>4 DEF Makers
  <1>6. \A q \in Makers(f) : proc'[q] = proc[q]
    BY <1>3, <1>5 DEF Makers
  <1>7. \A q \in Procs : Past(proc'[q], f) => proc'[q].keys[f] = path'[f]
    BY <1>2, <1>3, <1>4 DEF Sound, Past
  <1> QED
    BY <1>2, <1>5, <1>6, <1>7 DEF Sound

\* Only the owner of the lock stores anything, under the keys of the files.
LEMMA StoreSound ==
    ASSUME TypeInv, NEW f \in Files, Sound(f), NEW p \in Procs, Commit(p) \/ Compact(p)
    PROVE  Sound(f)'
  <1>1. proc[p].pc = "serve" /\ UNCHANGED <<path, tmp, proc>>
    BY DEF Commit, Compact
  <1>2. proc[p].keys[f] = path[f]
    BY <1>1 DEF Sound, Past, Running
  <1>3. used'[f] \subseteq used[f] \cup {proc[p].keys[f]}
    BY DEF Commit, Compact, TypeInv, Types, Files
  <1> QED
    BY <1>1, <1>2, <1>3 DEF Sound, Makers

LEMMA PowerSound ==
    ASSUME TypeInv, KeysInv, PowerFails
    PROVE  KeysInv'
  <1> SUFFICES ASSUME ~ lost', NEW f \in Files, f \notin clash'
               PROVE  Sound(f)'
    BY DEF KeysInv
  <1>1. ~ lost /\ path' = path /\ used' = used /\ clash' = clash
    BY DEF PowerFails, TypeInv, Types
  <1>2. Sound(f)
    BY <1>1 DEF KeysInv
  <1>3. \A p \in Procs : proc'[p] = Down
    BY DEF PowerFails
  <1>4. Makers(f)' = {}
    BY <1>3, DownIsProcess DEF Makers, Making
  <1> QED
    BY <1>1, <1>2, <1>3, <1>4, DownIsProcess DEF Sound

LEMMA NextSound ==
    ASSUME TypeInv, KeysInv, [Next]_vars
    PROVE  KeysInv'
  <1>1. CASE PowerFails
    BY <1>1, PowerSound
  <1>2. CASE ~ PowerFails
    <2>1. lost' = lost /\ clash \subseteq clash'
      BY <1>2 DEF Next, vars, Start, Read, Create, Write, Rename, Load, Lock, Commit, Compact,
                  Stop, Writeback
    <2> SUFFICES ASSUME NEW f \in Files, Sound(f), f \notin clash'
                 PROVE  Sound(f)'
      BY <2>1 DEF KeysInv
    <2>2. ASSUME NEW p \in Procs, Start(p) PROVE Sound(f)'
      BY <2>2, GotoSound DEF Start, Stages, Making, Running
    <2>3. ASSUME NEW p \in Procs, Write(p) PROVE Sound(f)'
      BY <2>3, WriteSound, OtherFileSound
    <2>4. ASSUME NEW p \in Procs, Rename(p) PROVE Sound(f)'
      BY <2>4, RenameSound, OtherFileSound
    <2>5. ASSUME NEW p \in Procs, Load(p) PROVE Sound(f)'
      <3>1. CASE Goto(p, "lock")
        BY <2>5, <3>1, GotoSound DEF Load, Stages, Making, Running
      <3>2. CASE Exit(p)
        BY <2>5, <3>2, ExitSound DEF Load
      <3> QED
        BY <2>5, <3>1, <3>2 DEF Load
    <2>6. ASSUME NEW p \in Procs, Lock(p) PROVE Sound(f)'
      <3>1. CASE Goto(p, "serve")
        BY <2>6, <3>1, GotoSound DEF Lock, Stages, Making, Running
      <3>2. CASE Exit(p)
        BY <2>6, <3>2, ExitSound DEF Lock
      <3> QED
        BY <2>6, <3>1, <3>2 DEF Lock
    <2>7. ASSUME NEW p \in Procs, Stop(p) PROVE Sound(f)'
      BY <2>7, ExitSound DEF Stop
    <2>8. ASSUME UNCHANGED <<path, tmp, used, proc>> PROVE Sound(f)'
      BY <2>8 DEF Sound, Makers
    <2>9. ASSUME NEW g \in Files, Writeback(g) PROVE Sound(f)'
      BY <2>8, <2>9 DEF Writeback
    <2>10. CASE UNCHANGED vars
      BY <2>8, <2>10 DEF vars
    <2> QED
      BY <1>2, <2>2, <2>3, <2>4, <2>5, <2>6, <2>7, <2>9, <2>10, ReadSound, CreateSound, StoreSound
         DEF Next
  <1> QED
    BY <1>1, <1>2

LEMMA KeysHold == Spec => []KeysInv
  <1>1. TypeInv /\ KeysInv /\ [Next]_vars => KeysInv'
    BY NextSound
  <1> QED
    BY <1>1, InitSound, TypesHold, PTL DEF Spec

\* Two processes making one file at once, and a power failure that takes an
\* unsynced key file, are the only ways in which the database comes to hold
\* what the keys on disk cannot open (internal/kms loadOrCreate, cmd/gsignver
\* openStore).
THEOREM KeysStayOnDisk == Spec => []KeyOnDisk
  <1>1. KeysInv => KeyOnDisk
    BY DEF KeysInv, Sound, KeyOnDisk
  <1> QED
    BY <1>1, KeysHold, PTL

\* The same two causes apart, a process killed on the way never leaves a key
\* file that stops every later start (internal/kms loadOrCreate).
THEOREM AlwaysStartable == Spec => []Startable
  <1>1. KeysInv => Startable
    BY DEF KeysInv, Sound, Startable
  <1> QED
    BY <1>1, KeysHold, PTL
=============================================================================
