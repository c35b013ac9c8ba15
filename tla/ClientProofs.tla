---------------------------- MODULE ClientProofs ----------------------------
(***************************************************************************)
(* Theorems about Client, for any number of clients, calls and faults.     *)
(***************************************************************************)
EXTENDS Client, StoreProofs

\* Devices are numbered from 1 in the order of their registration, and are all
\* of the one code.
Numbered ==
    /\ \E n \in Nat : DOMAIN devices = 1..n
    /\ \A d \in DOMAIN devices : devices[d].registered = d /\ devices[d].code = Code

WithinLimit == CountActiveDevices(devices, Code) <= Limit

\* A usable key is that of a device in force.
KeyOfDevice == \A d \in DOMAIN keys : keys[d] = "active" => devices[d].status = "active"

\* The call in progress, and what a caller may plan next.
CallOK ==
    \A c \in Clients :
        /\ clients[c].waiting => /\ clients[c].call \in Request
                                 /\ clients[c].call.client = c
                                 /\ clients[c].call.n = clients[c].calls
        /\ clients[c].plan # "remove_device"

\* r was made: it is the last call of its client, or an earlier one.
Known(r) ==
    LET s == clients[r.client] IN r.n < s.calls \/ (r.n = s.calls /\ r = s.call)

\* A removal names a device that exists.
Aimed(r) == r.kind = "remove_device" => r.target \in DOMAIN devices

NoEffect(r) == \A d \in DeviceIds : <<r, d>> \notin done

\* What has not been carried out is awaited, or was given up.
InboxOK ==
    \A r \in inbox :
        /\ Known(r) /\ NoEffect(r) /\ Aimed(r)
        /\ Pending(r) \/ \E e \in ended : e.call = r /\ e.outcome = "unsure"

\* An answer is sent once the request is carried out or refused, and says so.
AnswersOK ==
    \A a \in answers :
        /\ Known(a.to) /\ Aimed(a.to) /\ a.to \notin inbox
        /\ a.code = "ok" /\ a.to.kind \in Anonymous => <<a.to, a.dev>> \in done
        /\ a.code = "ok" /\ a.to.kind = "remove_device" => ~ Active(a.to.target)
        /\ a.code \in Refusals => NoEffect(a.to)

\* Every request has one effect at most.
DoneOK ==
    /\ \A x \in done : Known(x[1])
    /\ \A x \in done, y \in done : x[1] = y[1] => x[2] = y[2]

EndedOK == \A e \in ended : Known(e.call) /\ (e.outcome = "ok" => Aimed(e.call))

TypeInv == TypeOK /\ Numbered /\ KeyOfDevice /\ WithinLimit /\ CallOK

ClientInv == InboxOK /\ AnswersOK /\ DoneOK /\ EndedOK /\ AnswersTrue

----------------------------------------------------------------------------
(* Requests, answers and devices. *)

LEMMA RequestType ==
    ASSUME NEW r \in Request
    PROVE  /\ r.client \in Clients /\ r.n \in Nat /\ r.kind \in Kinds
           /\ r.dev \in DeviceIds \cup {Nobody} /\ r.target \in DeviceIds \cup {Nobody}
           /\ r.kind \notin Anonymous => r.dev \in DeviceIds
           /\ r.kind = "remove_device" => r.target \in DeviceIds
  BY DEF Request, Kinds, Anonymous

LEMMA PutType ==
    ASSUME NEW S, NEW T, NEW m, IsMap(m, S, T), NEW k \in S, NEW v \in T
    PROVE  IsMap(Put(m, k, v), S, T) /\ DOMAIN Put(m, k, v) = DOMAIN m \cup {k}
  BY DEF IsMap, Put

\* A code with a device in force has an earliest one.
LEMMA EarliestIsActive ==
    ASSUME TypeOK, ActiveDevicesOfCode(devices, Code) # {}
    PROVE  LET d == EarliestActiveDevice(devices, Code) IN
           /\ d \in DOMAIN devices /\ d \in DeviceIds
           /\ devices[d].status = "active"
  <1>1. EarliestActiveDevice(devices, Code) \in ActiveDevicesOfCode(devices, Code)
    BY EarliestDevice DEF TypeOK
  <1> QED
    BY <1>1 DEF ActiveDevicesOfCode, TypeOK, IsMap

\* What a retired device leaves.
LEMMA RetiredType ==
    ASSUME TypeInv, NEW d \in DOMAIN devices
    PROVE  /\ IsMap(RetiredDevices(devices, d), DeviceIds, Device)
           /\ IsMap(DestroyedKeys(keys, d), DeviceIds, KeyStatus)
           /\ DOMAIN RetiredDevices(devices, d) = DOMAIN devices
           /\ DOMAIN DestroyedKeys(keys, d) = DOMAIN keys
           /\ DestroyedKeys(keys, d)[d] = "destroyed"
           /\ \A e \in DOMAIN devices : e # d =>
                 /\ RetiredDevices(devices, d)[e] = devices[e]
                 /\ DestroyedKeys(keys, d)[e] = keys[e]
           /\ RetiredDevices(devices, d)[d].status = "removed"
           /\ \A e \in DOMAIN devices :
                 /\ RetiredDevices(devices, d)[e].registered = devices[e].registered
                 /\ RetiredDevices(devices, d)[e].code = devices[e].code
  BY DEF TypeInv, TypeOK, IsMap, RetiredDevices, DestroyedKeys, Device, KeyStatus

----------------------------------------------------------------------------
(* What the server does to its devices. *)

\* A new device, with the next id.
Enrolled(d) ==
    /\ d \in DeviceIds /\ d \notin DOMAIN devices /\ HasRoom
    /\ DOMAIN devices' = DOMAIN devices \cup {d}
    /\ keys'[d] = "active"
    /\ \A e \in DOMAIN devices : keys'[e] = keys[e]

\* One device less.
Retired(d) ==
    /\ d \in DOMAIN devices
    /\ DOMAIN devices' = DOMAIN devices
    /\ keys'[d] = "destroyed"
    /\ \A e \in DOMAIN devices : e # d => keys'[e] = keys[e]

RegistryInv ==
    /\ IsMap(devices, DeviceIds, Device)
    /\ DOMAIN keys = DOMAIN devices /\ IsMap(keys, DeviceIds, KeyStatus)
    /\ Numbered /\ KeyOfDevice /\ WithinLimit

\* The devices in force are counted one by one.
LEMMA CountsOne ==
    ASSUME TypeInv
    PROVE  LET A == ActiveDevicesOfCode(devices, Code) IN
           /\ CountActiveDevices(devices, Code) \in Nat
           /\ \A d : d \notin A => Cardinality(A \cup {d}) = Cardinality(A) + 1
           /\ \A d : d \in A => Cardinality(A \ {d}) = Cardinality(A) - 1
           /\ A = {} => Cardinality(A) = 0
  <1> DEFINE A == ActiveDevicesOfCode(devices, Code)
  <1>1. IsFiniteSet(A)
    <2>1. PICK n \in Nat : DOMAIN devices = 1..n
      BY DEF TypeInv, Numbered
    <2>2. IsFiniteSet(1..n)
      BY FS_Interval
    <2>3. A \subseteq 1..n
      BY <2>1 DEF ActiveDevicesOfCode
    <2> QED
      BY <2>2, <2>3, FS_Subset
  <1>2. Cardinality(A) \in Nat
    BY <1>1, FS_CardinalityType
  <1>3. \A d : d \notin A => Cardinality(A \cup {d}) = Cardinality(A) + 1
    BY <1>1, FS_AddElement
  <1>4. \A d : d \in A => Cardinality(A \ {d}) = Cardinality(A) - 1
    BY <1>1, FS_RemoveElement
  <1>5. A = {} => Cardinality(A) = 0
    BY FS_EmptySet
  <1> QED
    BY <1>2, <1>3, <1>4, <1>5 DEF CountActiveDevices

\* One device in force less leaves room.
LEMMA LeavesRoom ==
    ASSUME TypeInv, NEW d \in ActiveDevicesOfCode(devices, Code),
           ActiveDevicesOfCode(devices', Code) = ActiveDevicesOfCode(devices, Code) \ {d}
    PROVE  WithinLimit' /\ HasRoom'
  <1>1. /\ CountActiveDevices(devices, Code) \in Nat
        /\ CountActiveDevices(devices', Code) = CountActiveDevices(devices, Code) - 1
    BY CountsOne DEF CountActiveDevices
  <1>2. CountActiveDevices(devices, Code) <= Limit /\ Limit \in Nat
    BY ClientAssumption DEF TypeInv, WithinLimit
  <1> QED
    BY <1>1, <1>2 DEF WithinLimit, HasRoom

LEMMA EnrolStep ==
    ASSUME TypeInv, NEW r \in inbox, ServeActivate(r), HasRoom
    PROVE  \E d \in DeviceIds : RegistryInv' /\ Enrolled(d) /\ Commit(r, d)
  <1>1. PICK n \in Nat : DOMAIN devices = 1..n
    BY DEF TypeInv, Numbered
  <1>0. PICK d \in DeviceIds :
           /\ d = Cardinality(DOMAIN devices) + 1
           /\ devices' = Put(devices, d, [app |-> Code[1], code |-> Code, registered |-> d,
                                          seen |-> d, status |-> "active"])
           /\ keys' = Put(keys, d, "active")
           /\ Commit(r, d)
    BY DEF ServeActivate
  <1> DEFINE rec == [app |-> Code[1], code |-> Code, registered |-> d, seen |-> d,
                     status |-> "active"]
  <1>2. /\ d = Cardinality(DOMAIN devices) + 1 /\ Commit(r, d)
        /\ devices' = Put(devices, d, rec) /\ keys' = Put(keys, d, "active")
    BY <1>0
  <1>3. d = n + 1 /\ d \in Nat
    <2>1. Cardinality(1..n) = n
      BY FS_Interval
    <2> QED
      BY <1>1, <1>2, <2>1
  <1>4. rec \in Device
    BY <1>3, ClientAssumption DEF Device, CodeHashes
  <1>5. /\ IsMap(devices', DeviceIds, Device) /\ DOMAIN devices' = DOMAIN devices \cup {d}
        /\ IsMap(keys', DeviceIds, KeyStatus) /\ DOMAIN keys' = DOMAIN keys \cup {d}
    <2>1. "active" \in KeyStatus
      BY DEF KeyStatus
    <2>2. IsMap(devices, DeviceIds, Device) /\ IsMap(keys, DeviceIds, KeyStatus)
      BY DEF TypeInv, TypeOK
    <2>3. /\ IsMap(Put(devices, d, rec), DeviceIds, Device)
          /\ DOMAIN Put(devices, d, rec) = DOMAIN devices \cup {d}
      <3> HIDE DEF rec
      <3> QED
        BY <1>4, <2>2 DEF IsMap, Put
    <2>4. /\ IsMap(Put(keys, d, "active"), DeviceIds, KeyStatus)
          /\ DOMAIN Put(keys, d, "active") = DOMAIN keys \cup {d}
      BY <2>1, <2>2, PutType
    <2> QED
      BY <1>2, <2>3, <2>4
  <1>6. /\ devices'[d] = rec
        /\ \A e \in DOMAIN devices : e # d => devices'[e] = devices[e] /\ keys'[e] = keys[e]
    BY <1>2 DEF Put, TypeInv, TypeOK
  <1> HIDE DEF rec
  <1>7. d \notin DOMAIN devices /\ DOMAIN devices' = 1..(n + 1)
    BY <1>1, <1>3, <1>5
  <1>8. rec.registered = d /\ rec.status = "active" /\ rec.code = Code
    BY DEF rec
  <1>9. Numbered' /\ KeyOfDevice'
    BY <1>5, <1>6, <1>7, <1>8 DEF TypeInv, TypeOK, Numbered, KeyOfDevice
  <1>10. WithinLimit'
    <2>1. /\ d \notin ActiveDevicesOfCode(devices, Code)
          /\ ActiveDevicesOfCode(devices', Code) = ActiveDevicesOfCode(devices, Code) \cup {d}
      BY <1>5, <1>6, <1>7, <1>8 DEF ActiveDevicesOfCode
    <2>2. /\ CountActiveDevices(devices, Code) \in Nat
          /\ CountActiveDevices(devices', Code) = CountActiveDevices(devices, Code) + 1
      BY <2>1, CountsOne DEF CountActiveDevices
    <2> QED
      BY <2>2, ClientAssumption DEF HasRoom, WithinLimit
  <1>11. keys'[d] = "active" /\ \A e \in DOMAIN devices : keys'[e] = keys[e]
    BY <1>2, <1>6, <1>7 DEF Put
  <1> QED
    BY <1>2, <1>5, <1>7, <1>9, <1>10, <1>11 DEF RegistryInv, Enrolled, TypeInv, TypeOK

LEMMA KickoutStep ==
    ASSUME TypeInv, NEW r \in inbox, ServeKickout(r), ActiveDevicesOfCode(devices, Code) # {}
    PROVE  \E d \in DeviceIds : RegistryInv' /\ Retired(d) /\ HasRoom' /\ Commit(r, d)
  <1> DEFINE d == EarliestActiveDevice(devices, Code)
  <1>1. d \in DOMAIN devices /\ d \in DeviceIds /\ devices[d].status = "active"
    BY EarliestIsActive DEF TypeInv
  <1>2. /\ devices' = RetiredDevices(devices, d) /\ keys' = DestroyedKeys(keys, d)
        /\ Commit(r, d)
    BY DEF ServeKickout
  <1> HIDE DEF d
  <1>3. Retired(d)
    BY <1>1, <1>2, RetiredType DEF Retired
  <1>4. /\ d \in ActiveDevicesOfCode(devices, Code)
        /\ ActiveDevicesOfCode(devices', Code) = ActiveDevicesOfCode(devices, Code) \ {d}
    BY <1>1, <1>2, RetiredType DEF ActiveDevicesOfCode, TypeInv, Numbered
  <1>5. WithinLimit' /\ HasRoom'
    BY <1>4, LeavesRoom
  <1>6. /\ IsMap(devices', DeviceIds, Device) /\ DOMAIN devices' = DOMAIN devices
        /\ IsMap(keys', DeviceIds, KeyStatus) /\ DOMAIN keys' = DOMAIN keys
        /\ keys'[d] = "destroyed"
        /\ \A e \in DOMAIN devices : /\ devices'[e].registered = devices[e].registered
                                     /\ devices'[e].code = devices[e].code
        /\ \A e \in DOMAIN devices : e # d => devices'[e] = devices[e] /\ keys'[e] = keys[e]
    BY <1>1, <1>2, RetiredType
  <1>7. RegistryInv'
    BY <1>5, <1>6 DEF RegistryInv, TypeInv, TypeOK, Numbered, KeyOfDevice
  <1> QED
    BY <1>1, <1>2, <1>3, <1>5, <1>7

\* A removal leaves room, unless the device has removed itself.
Freed(r) == HasRoom' \/ (r.dev = r.target /\ HasRoom' = HasRoom)

LEMMA RemoveStep ==
    ASSUME TypeInv, InboxOK, NEW r \in inbox, ServeRemove(r)
    PROVE  /\ r.target \in DeviceIds /\ RegistryInv' /\ Retired(r.target) /\ Freed(r)
           /\ Commit(r, r.target)
  <1> DEFINE d == r.target
             ds == RetiredDevices(devices, d)
  <1>1. d \in DOMAIN devices /\ d \in DeviceIds /\ r.dev \in DOMAIN devices
    BY DEF ServeRemove, Removes, InboxOK, Aimed, Active, TypeInv, TypeOK, IsMap
  <1>2. /\ devices' = [ds EXCEPT ![r.dev] = devices[r.dev]]
        /\ keys' = DestroyedKeys(keys, d) /\ Commit(r, d)
    BY DEF ServeRemove
  <1>3. /\ IsMap(ds, DeviceIds, Device) /\ DOMAIN ds = DOMAIN devices
        /\ \A e \in DOMAIN devices : e # d => ds[e] = devices[e]
        /\ ds[d].status = "removed"
        /\ \A e \in DOMAIN devices : /\ ds[e].registered = devices[e].registered
                                     /\ ds[e].code = devices[e].code
    BY <1>1, RetiredType
  <1> HIDE DEF ds
  <1>4. /\ IsMap(devices', DeviceIds, Device) /\ DOMAIN devices' = DOMAIN devices
        /\ \A e \in DOMAIN devices : e # d => devices'[e] = devices[e]
        /\ devices'[d] = IF d = r.dev THEN devices[d] ELSE ds[d]
        /\ \A e \in DOMAIN devices : /\ devices'[e].registered = devices[e].registered
                                     /\ devices'[e].code = devices[e].code
    BY <1>1, <1>2, <1>3 DEF IsMap, TypeInv, TypeOK
  <1>5. /\ IsMap(keys', DeviceIds, KeyStatus) /\ DOMAIN keys' = DOMAIN keys
        /\ keys'[d] = "destroyed" /\ \A e \in DOMAIN devices : e # d => keys'[e] = keys[e]
    BY <1>1, <1>2, RetiredType
  <1>6. Retired(d)
    BY <1>1, <1>4, <1>5 DEF Retired
  <1>7. WithinLimit' /\ Freed(r)
    <2>1. devices[d].status = "active"
      BY DEF ServeRemove, Removes
    <2>2. CASE d = r.dev
      <3>1. \A e \in DOMAIN devices : devices'[e] = devices[e]
        BY <1>4, <2>2
      <3>2. ActiveDevicesOfCode(devices', Code) = ActiveDevicesOfCode(devices, Code)
        BY <1>4, <3>1 DEF ActiveDevicesOfCode
      <3> QED
        BY <2>2, <3>2 DEF TypeInv, WithinLimit, HasRoom, CountActiveDevices, Freed
    <2>3. CASE d # r.dev
      <3>1. /\ d \in ActiveDevicesOfCode(devices, Code)
            /\ ActiveDevicesOfCode(devices', Code) = ActiveDevicesOfCode(devices, Code) \ {d}
        BY <1>1, <1>3, <1>4, <2>1, <2>3 DEF ActiveDevicesOfCode, TypeInv, Numbered
      <3> QED
        BY <3>1, LeavesRoom DEF Freed
    <2> QED
      BY <2>2, <2>3
  <1>8. RegistryInv'
    BY <1>4, <1>5, <1>7 DEF RegistryInv, TypeInv, TypeOK, Numbered, KeyOfDevice
  <1> QED
    BY <1>1, <1>2, <1>6, <1>7, <1>8

----------------------------------------------------------------------------
(* The three kinds of steps: a call begins, a call returns, and the rest. *)

Begun(c, r) ==
    /\ ~ clients[c].waiting
    /\ r \in Request /\ r.client = c /\ r.n = clients[c].calls + 1
    /\ Aimed(r)
    /\ r.kind \notin Anonymous => r.dev = clients[c].dev /\ r.dev \in DeviceIds
    /\ c \in Rescuers => /\ r.kind = clients[c].plan
                         /\ r.kind = "fetch_data" => ~ Active(clients[c].dev)
    /\ inbox' = inbox \cup {r}
    /\ clients' = [clients EXCEPT ![c].waiting = TRUE, ![c].call = r, ![c].calls = @ + 1]
    /\ UNCHANGED <<server, answers, faults, ended>>

LEMMA BeginStep ==
    ASSUME TypeInv, NEW c \in Clients, Call(c) \/ Rescue(c)
    PROVE  \E r : Begun(c, r)
  <1> DEFINE req(kind, target) ==
               [client |-> c, n |-> clients[c].calls + 1, kind |-> kind, target |-> target,
                dev |-> IF kind \in Anonymous THEN Nobody ELSE clients[c].dev]
  <1>1. clients[c] \in State /\ clients[c].plan # "remove_device"
    BY DEF TypeInv, TypeOK, CallOK
  <1>2. /\ clients[c].calls + 1 \in Nat /\ clients[c].plan \in Kinds
        /\ clients[c].dev \in DeviceIds \cup {Nobody}
    BY <1>1 DEF State
  <1>3. PICK kind \in Kinds, target \in DeviceIds \cup {Nobody} :
           /\ Send(c, kind, target)
           /\ kind # "remove_device" => target = Nobody
           /\ c \in Rescuers => /\ kind = clients[c].plan
                                /\ kind = "fetch_data" => ~ Active(clients[c].dev)
           /\ kind = "remove_device" => target \in DOMAIN devices /\ target \in DeviceIds
    <2>1. CASE Call(c)
      <3>1. DOMAIN devices \subseteq DeviceIds /\ "remove_device" \in Kinds
        BY DEF TypeInv, TypeOK, IsMap, Kinds
      <3> QED
        BY <2>1, <3>1 DEF Call
    <2>2. CASE Rescue(c)
      BY <1>1, <1>2, <2>2 DEF Rescue
    <2> QED
      BY <2>1, <2>2
  <1> DEFINE r == req(kind, target)
  <1>4. /\ ~ clients[c].waiting /\ Callable(clients[c], kind) /\ inbox' = inbox \cup {r}
        /\ clients' = [clients EXCEPT ![c].waiting = TRUE, ![c].call = r, ![c].calls = @ + 1]
        /\ UNCHANGED <<server, answers, faults, ended>>
    BY <1>3 DEF Send
  <1>5. kind \notin Anonymous => clients[c].dev \in DeviceIds
    BY <1>2, <1>4 DEF Callable
  <1>6. r \in Request
    <2>1. CASE kind \in Anonymous
      BY <1>2, <1>3, <2>1 DEF Request, Anonymous
    <2>2. CASE kind = "fetch_data"
      BY <1>2, <1>3, <1>5, <2>2 DEF Request, Anonymous
    <2>3. CASE kind = "remove_device"
      BY <1>2, <1>3, <1>5, <2>3 DEF Request, Anonymous
    <2> QED
      BY <2>1, <2>2, <2>3 DEF Kinds
  <1>7. /\ r.client = c /\ r.n = clients[c].calls + 1 /\ r.kind = kind /\ r.target = target
        /\ kind \notin Anonymous => r.dev = clients[c].dev
    OBVIOUS
  <1> HIDE DEF r
  <1> QED
    BY <1>3, <1>4, <1>5, <1>6, <1>7 DEF Begun, Aimed

\* The call of c ends with an answer to it, or unsure.
Ended(c, outcome, d) ==
    LET r == clients[c].call
        e == [call |-> r, outcome |-> outcome, dev |-> d]
    IN  /\ clients[c].waiting
        /\ d \in DeviceIds \cup {Nobody}
        /\ \/ outcome = "unsure"
           \/ outcome = "ok" /\ \E a \in answers : a.code = "ok" /\ a.to = r /\ a.dev = d
           \/ outcome = "refused" /\ \E a \in answers : a.code \in Refusals /\ a.to = r
        /\ ended' = ended \cup {e}
        /\ \E p \in Kinds \ {"remove_device"} :
              clients' = [clients EXCEPT ![c].waiting = FALSE, ![c].plan = p,
                                         ![c].dev = Identity(r, outcome, @, d)]
        /\ faults' \in 0..MaxFaults
        /\ UNCHANGED <<server, inbox, answers>>

LEMMA PlanKinds ==
    ASSUME NEW r, NEW code
    PROVE  Plan(r, code) \in Kinds \ {"remove_device"}
  BY DEF Plan, Kinds, Anonymous

LEMMA FaultType ==
    ASSUME TypeOK, Fault
    PROVE  faults' \in 0..MaxFaults
  BY ClientAssumption DEF TypeOK, Fault

LEMMA ReturnStep ==
    ASSUME TypeInv, NEW c \in Clients, Returns(c)
    PROVE  \E outcome \in {"ok", "refused", "unsure"} : \E d : Ended(c, outcome, d)
  <1>1. \A a \in answers : a.dev \in DeviceIds \cup {Nobody} /\ a.code \in Codes
    BY DEF TypeInv, TypeOK, Answer
  <1>2. faults \in 0..MaxFaults
    BY DEF TypeInv, TypeOK
  <1>3. CASE Accept(c)
    <2>1. PICK a \in answers : /\ a.code = "ok" /\ a.to = clients[c].call
                               /\ Return(c, "ok", "ok", a.dev)
      BY <1>3 DEF Accept, Verified
    <2>2. Ended(c, "ok", a.dev)
      BY <1>1, <1>2, <1>3, <2>1, PlanKinds DEF Accept, Return, Ended
    <2> QED
      BY <2>2
  <1>4. CASE Reject(c) \/ GiveUp(c)
    <2>1. Ended(c, "unsure", Nobody)
      BY <1>4, PlanKinds, FaultType DEF Reject, GiveUp, Return, Ended, TypeInv
    <2> QED
      BY <2>1
  <1>5. CASE Refused(c)
    <2>1. PICK a \in answers : /\ a.code # "ok" /\ a.to = clients[c].call
                               /\ Return(c, Outcome(a.code), a.code, Nobody)
      BY <1>5 DEF Refused
    <2>2. \/ Outcome(a.code) = "unsure"
          \/ Outcome(a.code) = "refused" /\ a.code \in Refusals
      BY <1>1, <2>1 DEF Outcome, Codes
    <2>3. Ended(c, Outcome(a.code), Nobody)
      BY <1>2, <1>5, <2>1, <2>2, PlanKinds DEF Refused, Return, Ended
    <2> QED
      BY <2>2, <2>3
  <1> QED
    BY <1>3, <1>4, <1>5 DEF Returns

\* The server is done with r, with an effect or without one.
Served(r, a) ==
    /\ r \in inbox /\ inbox' = inbox \ {r}
    /\ a \in Answer /\ a.to = r /\ answers' = answers \cup {a}
    /\ faults' = IF a.code = "internal" THEN faults + 1 ELSE faults
    /\ faults' \in 0..MaxFaults
    /\ UNCHANGED <<clients, ended>>

Effect(r, d, a) ==
    /\ d \in DeviceIds /\ done' = done \cup {<<r, d>>}
    /\ RegistryInv'
    /\ \/ r.kind = "activate" /\ Enrolled(d)
       \/ r.kind = "kickout" /\ Retired(d) /\ HasRoom'
       \/ r.kind = "remove_device" /\ d = r.target /\ Retired(d) /\ Freed(r)
    /\ (a.code = "ok" /\ a.dev = d) \/ a.code = "internal"

NoChange(r, a) ==
    /\ UNCHANGED server
    /\ a.code = "ok" => /\ r.kind \notin Anonymous /\ Active(r.dev)
                        /\ r.kind = "remove_device" => ~ Active(r.target)
    /\ a.code = "limit" => r.kind = "activate" /\ ~ HasRoom
    /\ a.code = "noDevice" => r.kind = "kickout" /\ HasRoom
    /\ a.code = "crypto" => r.kind \notin Anonymous

LEMMA ReplyStep ==
    ASSUME TypeInv, NEW r \in inbox, NEW code \in Codes, NEW d \in DeviceIds \cup {Nobody},
           Reply(r, code, d), UNCHANGED <<clients, ended>>,
           \/ code = "internal" /\ Fault
           \/ code # "internal" /\ UNCHANGED faults
    PROVE  Served(r, [to |-> r, code |-> code, dev |-> d])
  <1>1. /\ faults' \in 0..MaxFaults
        /\ faults' = IF code = "internal" THEN faults + 1 ELSE faults
    BY FaultType DEF TypeInv, TypeOK, Fault
  <1>2. [to |-> r, code |-> code, dev |-> d] \in Answer
    BY DEF Answer, TypeInv, TypeOK
  <1> QED
    BY <1>1, <1>2 DEF Reply, Served

LEMMA CommitStep ==
    ASSUME TypeInv, NEW r \in inbox, NEW d \in DeviceIds, Commit(r, d), RegistryInv',
           \/ r.kind = "activate" /\ Enrolled(d)
           \/ r.kind = "kickout" /\ Retired(d) /\ HasRoom'
           \/ r.kind = "remove_device" /\ d = r.target /\ Retired(d) /\ Freed(r)
    PROVE  \E a : Served(r, a) /\ Effect(r, d, a)
  <1>1. CASE Reply(r, "ok", d) /\ UNCHANGED faults
    <2> DEFINE a == [to |-> r, code |-> "ok", dev |-> d]
    <2>1. Served(r, a)
      BY <1>1, ReplyStep DEF Commit, Codes
    <2>2. Effect(r, d, a)
      BY DEF Commit, Effect
    <2> QED
      BY <2>1, <2>2
  <1>2. CASE Reply(r, "internal", Nobody) /\ Fault
    <2> DEFINE a == [to |-> r, code |-> "internal", dev |-> Nobody]
    <2>1. Served(r, a)
      BY <1>2, ReplyStep DEF Commit, Codes
    <2>2. Effect(r, d, a)
      BY DEF Commit, Effect
    <2> QED
      BY <2>1, <2>2
  <1> QED
    BY <1>1, <1>2 DEF Commit

LEMMA RefuseStep ==
    ASSUME TypeInv, NEW r \in inbox, NEW code \in Codes \ {"ok"}, Reply(r, code, Nobody),
           UNCHANGED <<server, clients, ended>>,
           \/ code = "internal" /\ Fault
           \/ code # "internal" /\ UNCHANGED faults,
           code = "limit" => r.kind = "activate" /\ ~ HasRoom,
           code = "noDevice" => r.kind = "kickout" /\ HasRoom,
           code = "crypto" => r.kind \notin Anonymous
    PROVE  \E a : Served(r, a) /\ NoChange(r, a)
  <1> DEFINE a == [to |-> r, code |-> code, dev |-> Nobody]
  <1>1. Served(r, a)
    BY ReplyStep
  <1>2. NoChange(r, a)
    BY DEF NoChange
  <1> QED
    BY <1>1, <1>2

LEMMA ServeStep ==
    ASSUME TypeInv, InboxOK, NEW r \in inbox, Serve(r)
    PROVE  \E a : Served(r, a) /\ (NoChange(r, a) \/ \E d \in DeviceIds : Effect(r, d, a))
  <1>1. CASE ServeActivate(r)
    <2>1. CASE HasRoom
      BY <1>1, <2>1, EnrolStep, CommitStep DEF ServeActivate
    <2>2. CASE ~ HasRoom
      BY <1>1, <2>2, RefuseStep DEF ServeActivate, Refuse, Codes, Refusals
    <2> QED
      BY <2>1, <2>2
  <1>2. CASE ServeKickout(r)
    <2>1. CASE ActiveDevicesOfCode(devices, Code) # {}
      BY <1>2, <2>1, KickoutStep, CommitStep DEF ServeKickout
    <2>2. CASE ActiveDevicesOfCode(devices, Code) = {}
      <3>1. HasRoom
        BY <2>2, CountsOne, ClientAssumption DEF HasRoom, CountActiveDevices
      <3> QED
        BY <1>2, <2>2, <3>1, RefuseStep DEF ServeKickout, Refuse, Codes, Refusals
    <2> QED
      BY <2>1, <2>2
  <1>3. CASE ServeRemove(r)
    BY <1>3, RemoveStep, CommitStep DEF ServeRemove, Removes
  <1>4. CASE ServeRead(r)
    <2>1. CASE Active(r.dev)
      <3> DEFINE d == IF r.kind = "remove_device" THEN r.target ELSE r.dev
                 a == [to |-> r, code |-> "ok", dev |-> d]
      <3>1. d \in DeviceIds
        BY <1>4, RequestType DEF ServeRead, TypeInv, TypeOK
      <3>2. Reply(r, "ok", d) /\ UNCHANGED <<server, clients, faults, ended>> /\ ~ Removes(r)
        BY <1>4, <2>1 DEF ServeRead
      <3>3. Served(r, a)
        BY <3>1, <3>2, ReplyStep DEF Codes
      <3>4. r.kind = "remove_device" => ~ Active(r.target)
        BY <3>2 DEF Removes, Active, InboxOK, Aimed, TypeInv, KeyOfDevice
      <3>5. NoChange(r, a)
        BY <1>4, <2>1, <3>2, <3>4 DEF NoChange, ServeRead
      <3> QED
        BY <3>3, <3>5
    <2>2. CASE ~ Active(r.dev)
      BY <1>4, <2>2, RefuseStep DEF ServeRead, Refuse, Codes, Refusals
    <2> QED
      BY <2>1, <2>2
  <1>5. CASE Fail(r)
    BY <1>5, RefuseStep DEF Fail, Codes, Refusals
  <1> QED
    BY <1>1, <1>2, <1>3, <1>4, <1>5 DEF Serve

----------------------------------------------------------------------------
(* Type correctness. *)

LEMMA InitTypes == Init => TypeInv
  <1> SUFFICES ASSUME Init PROVE TypeInv
    OBVIOUS
  <1>1. Fresh \in State
    BY DEF Fresh, State, Kinds, Anonymous
  <1>2. /\ IsMap(devices, DeviceIds, Device) /\ DOMAIN devices = {}
        /\ IsMap(keys, DeviceIds, KeyStatus) /\ DOMAIN keys = {}
    BY DEF Init, IsMap
  <1>3. TypeOK
    BY <1>1, <1>2, ClientAssumption DEF Init, TypeOK
  <1>4. DOMAIN devices = 1..0
    BY <1>2
  <1>5. Numbered /\ KeyOfDevice /\ WithinLimit
    <2>1. ActiveDevicesOfCode(devices, Code) = {}
      BY <1>2 DEF ActiveDevicesOfCode
    <2>2. CountActiveDevices(devices, Code) = 0
      BY <2>1, FS_EmptySet DEF CountActiveDevices
    <2> QED
      BY <1>2, <1>4, <2>2, ClientAssumption DEF Numbered, KeyOfDevice, WithinLimit
  <1>6. CallOK
    BY DEF Init, CallOK, Fresh
  <1> QED
    BY <1>3, <1>5, <1>6 DEF TypeInv

LEMMA BeginTypes ==
    ASSUME TypeInv, NEW c \in Clients, NEW r, Begun(c, r)
    PROVE  TypeInv'
  <1> DEFINE n == clients[c].calls + 1
             s == [clients[c] EXCEPT !.waiting = TRUE, !.call = r, !.calls = n]
  <1>1. clients[c] \in State /\ r \in Request
    BY DEF TypeInv, TypeOK, Begun
  <1>2. n \in Nat
    BY <1>1 DEF State
  <1>3. clients' = [clients EXCEPT ![c] = s]
    BY DEF Begun
  <1> HIDE DEF n
  <1>4. s \in State /\ s.call = r /\ s.calls = n /\ s.plan = clients[c].plan
    BY <1>1, <1>2 DEF State
  <1> HIDE DEF s
  <1>5. TypeOK'
    <2>1. clients \in [Clients -> State] /\ inbox \subseteq Request
      BY DEF TypeInv, TypeOK
    <2>2. clients' \in [Clients -> State]
      BY <1>3, <1>4, <2>1
    <2>3. inbox' \subseteq Request
      BY <1>1, <2>1 DEF Begun
    <2> QED
      BY <2>2, <2>3 DEF Begun, server, TypeInv, TypeOK
  <1>6. CallOK'
    <2>1. \A b \in Clients : clients'[b] = IF b = c THEN s ELSE clients[b]
      BY <1>3 DEF TypeInv, TypeOK
    <2>2. clients[c].plan # "remove_device" /\ r.client = c /\ r.n = clients[c].calls + 1
      BY DEF Begun, TypeInv, CallOK
    <2> QED
      BY <1>1, <1>4, <2>1, <2>2 DEF TypeInv, CallOK, n
  <1>7. Numbered' /\ KeyOfDevice' /\ WithinLimit'
    BY DEF Begun, server, TypeInv, Numbered, KeyOfDevice, WithinLimit
  <1> QED
    BY <1>5, <1>6, <1>7 DEF TypeInv

\* The record of a client whose call has ended.
LEMMA EndedClient ==
    ASSUME TypeInv, NEW c \in Clients, NEW outcome, NEW d, Ended(c, outcome, d)
    PROVE  /\ clients' \in [Clients -> State]
           /\ \A b \in Clients : b # c => clients'[b] = clients[b]
           /\ ~ clients'[c].waiting /\ clients'[c].call = clients[c].call
           /\ clients'[c].calls = clients[c].calls
           /\ clients'[c].plan # "remove_device"
           /\ clients'[c].dev = Identity(clients[c].call, outcome, clients[c].dev, d)
  <1>1. PICK p \in Kinds \ {"remove_device"} :
           clients' = [clients EXCEPT ![c].waiting = FALSE, ![c].plan = p,
                                      ![c].dev = Identity(clients[c].call, outcome, @, d)]
    BY DEF Ended
  <1> DEFINE i == Identity(clients[c].call, outcome, clients[c].dev, d)
             s == [clients[c] EXCEPT !.waiting = FALSE, !.plan = p, !.dev = i]
  <1>2. clients[c] \in State /\ clients \in [Clients -> State]
    BY DEF TypeInv, TypeOK
  <1>3. i \in DeviceIds \cup {Nobody}
    BY <1>2 DEF Identity, State, Ended
  <1>4. clients' = [clients EXCEPT ![c] = s]
    BY <1>1
  <1> HIDE DEF i
  <1>5. /\ s \in State /\ ~ s.waiting /\ s.call = clients[c].call
        /\ s.calls = clients[c].calls /\ s.plan = p /\ s.dev = i
    BY <1>2, <1>3 DEF State
  <1> HIDE DEF s
  <1> QED
    BY <1>2, <1>4, <1>5 DEF i

LEMMA EndTypes ==
    ASSUME TypeInv, NEW c \in Clients, NEW outcome \in {"ok", "refused", "unsure"}, NEW d,
           Ended(c, outcome, d)
    PROVE  TypeInv'
  <1>1. clients[c].call \in Request /\ d \in DeviceIds \cup {Nobody}
    BY DEF TypeInv, CallOK, Ended
  <1>2. TypeOK'
    <2>1. clients' \in [Clients -> State]
      BY EndedClient
    <2>2. ended' \subseteq [call : Request, outcome : {"ok", "refused", "unsure"},
                           dev : DeviceIds \cup {Nobody}]
      BY <1>1 DEF Ended, TypeInv, TypeOK
    <2> QED
      BY <2>1, <2>2 DEF Ended, server, TypeInv, TypeOK
  <1>3. CallOK'
    BY EndedClient DEF TypeInv, CallOK
  <1>4. Numbered' /\ KeyOfDevice' /\ WithinLimit'
    BY DEF Ended, server, TypeInv, Numbered, KeyOfDevice, WithinLimit
  <1> QED
    BY <1>2, <1>3, <1>4 DEF TypeInv

LEMMA ServeTypes ==
    ASSUME TypeInv, InboxOK, NEW r \in inbox, Serve(r)
    PROVE  TypeInv'
  <1>1. PICK a : Served(r, a) /\ (NoChange(r, a) \/ \E d \in DeviceIds : Effect(r, d, a))
    BY ServeStep
  <1>2. RegistryInv' /\ done' \subseteq Request \X DeviceIds
    <2>1. CASE NoChange(r, a)
      BY <2>1 DEF NoChange, server, RegistryInv, TypeInv, TypeOK, Numbered, KeyOfDevice,
                  WithinLimit
    <2>2. ASSUME NEW d \in DeviceIds, Effect(r, d, a) PROVE <1>2!1 /\ <1>2!2
      BY <2>2 DEF Effect, TypeInv, TypeOK
    <2> QED
      BY <1>1, <2>1, <2>2
  <1>3. TypeOK'
    BY <1>1, <1>2 DEF Served, RegistryInv, TypeInv, TypeOK
  <1>4. CallOK'
    BY <1>1 DEF Served, TypeInv, CallOK
  <1> QED
    BY <1>2, <1>3, <1>4 DEF RegistryInv, TypeInv

----------------------------------------------------------------------------
(* What calls report. *)

LEMMA InitClients == Init => ClientInv
  BY DEF Init, ClientInv, InboxOK, AnswersOK, DoneOK, EndedOK, AnswersTrue

\* The calls of everything on record are calls that were made.
LEMMA RecordedRequests ==
    ASSUME TypeInv
    PROVE  /\ \A q \in inbox : q \in Request
           /\ \A a \in answers : a.to \in Request /\ a.code \in Codes
           /\ \A x \in done : x[1] \in Request /\ x[2] \in DeviceIds /\ x = <<x[1], x[2]>>
           /\ \A e \in ended : e.call \in Request
           /\ \A q \in Request : q.client \in Clients /\ q.n \in Nat
  <1>1. \A q \in Request : q.client \in Clients /\ q.n \in Nat
    BY RequestType
  <1> QED
    BY <1>1 DEF TypeInv, TypeOK, Answer

\* A call that begins is a new one, and leaves the others on record.
LEMMA FreshCall ==
    ASSUME TypeInv, NEW c \in Clients, NEW r, Begun(c, r)
    PROVE  /\ ~ Known(r) /\ Known(r)' /\ Pending(r)'
           /\ \A q \in Request : Known(q) => Known(q)'
           /\ \A q \in Request : Pending(q) => Pending(q)'
  <1>1. clients \in [Clients -> State] /\ clients[c].calls \in Nat
    BY DEF TypeInv, TypeOK, State
  <1>2. /\ clients'[c].waiting /\ clients'[c].call = r
        /\ clients'[c].calls = clients[c].calls + 1
        /\ \A b \in Clients : b # c => clients'[b] = clients[b]
    <2> DEFINE s == [clients[c] EXCEPT !.waiting = TRUE, !.call = r, !.calls = @ + 1]
    <2>1. clients' = [clients EXCEPT ![c] = s]
      BY DEF Begun
    <2>2. clients[c] \in State
      BY <1>1
    <2>3. s.waiting /\ s.call = r /\ s.calls = clients[c].calls + 1
      BY <2>2 DEF State
    <2> HIDE DEF s
    <2> QED
      BY <1>1, <2>1, <2>3
  <1>3. r.client = c /\ r.n = clients[c].calls + 1 /\ ~ clients[c].waiting
    BY DEF Begun
  <1>4. ~ Known(r)
    BY <1>1, <1>3 DEF Known
  <1>5. Known(r)' /\ Pending(r)'
    BY <1>2, <1>3 DEF Known, Pending
  <1>6. ASSUME NEW q \in Request, Known(q) PROVE Known(q)'
    <2>1. q.n \in Nat /\ q.client \in Clients
      BY RequestType
    <2> QED
      BY <1>1, <1>2, <1>6, <2>1 DEF Known
  <1>7. ASSUME NEW q \in Request, Pending(q) PROVE Pending(q)'
    <2>1. q.client \in Clients
      BY RequestType
    <2> QED
      BY <1>2, <1>3, <1>7, <2>1 DEF Pending
  <1> QED
    BY <1>4, <1>5, <1>6, <1>7

LEMMA BeginInv ==
    ASSUME TypeInv, ClientInv, NEW c \in Clients, NEW r, Begun(c, r)
    PROVE  ClientInv'
  <1>1. /\ r \in Request /\ Aimed(r) /\ inbox' = inbox \cup {r}
        /\ UNCHANGED <<devices, keys, done, answers, ended>>
    BY DEF Begun, server
  <1>2. /\ \A a \in answers : a.to # r
        /\ \A x \in done : x[1] # r
        /\ \A e \in ended : e.call # r
    BY FreshCall DEF ClientInv, AnswersOK, DoneOK, EndedOK
  <1>3. InboxOK'
    <2> SUFFICES ASSUME NEW q \in inbox'
                 PROVE  /\ Known(q)' /\ NoEffect(q) /\ Aimed(q)
                        /\ Pending(q)' \/ \E e \in ended : e.call = q /\ e.outcome = "unsure"
      BY <1>1 DEF InboxOK, NoEffect, Aimed
    <2>1. CASE q = r
      <3>1. NoEffect(r)
        BY <1>2 DEF NoEffect
      <3> QED
        BY <1>1, <2>1, <3>1, FreshCall
    <2>2. CASE q \in inbox
      BY <2>2, FreshCall, RecordedRequests DEF ClientInv, InboxOK
    <2> QED
      BY <1>1, <2>1, <2>2
  <1>4. AnswersOK'
    BY <1>1, <1>2, FreshCall, RecordedRequests DEF ClientInv, AnswersOK, NoEffect, Aimed, Active
  <1>5. DoneOK' /\ EndedOK'
    BY <1>1, FreshCall, RecordedRequests DEF ClientInv, DoneOK, EndedOK, Aimed
  <1>6. AnswersTrue'
    BY <1>1, <1>2 DEF ClientInv, AnswersTrue, Active
  <1> QED
    BY <1>3, <1>4, <1>5, <1>6 DEF ClientInv

LEMMA EndInv ==
    ASSUME TypeInv, ClientInv, NEW c \in Clients, NEW outcome \in {"ok", "refused", "unsure"},
           NEW d, Ended(c, outcome, d)
    PROVE  ClientInv'
  <1> DEFINE r == clients[c].call
             e0 == [call |-> r, outcome |-> outcome, dev |-> d]
  <1>1. /\ clients[c].waiting /\ ended' = ended \cup {e0}
        /\ UNCHANGED <<devices, keys, done, inbox, answers>>
    BY DEF Ended, server
  <1>2. r \in Request /\ r.client = c /\ r.n = clients[c].calls
    BY <1>1 DEF TypeInv, CallOK
  <1>3. \A q \in Request : Known(q)' = Known(q)
    BY EndedClient, RequestType DEF Known
  <1>4. Known(r)
    BY <1>2 DEF Known
  <1>5. /\ outcome = "ok" => /\ r \notin inbox /\ Aimed(r)
                             /\ r.kind \in Anonymous => <<r, d>> \in done
                             /\ r.kind = "remove_device" => ~ Active(r.target)
        /\ outcome = "refused" => r \notin inbox /\ NoEffect(r)
    BY DEF Ended, ClientInv, AnswersOK
  <1>6. e0.call = r /\ e0.outcome = outcome /\ e0.dev = d
    OBVIOUS
  <1> HIDE DEF e0, r
  <1>7. InboxOK'
    <2> SUFFICES ASSUME NEW q \in inbox
                 PROVE  /\ Known(q)' /\ NoEffect(q) /\ Aimed(q)
                        /\ Pending(q)' \/ \E e \in ended' : e.call = q /\ e.outcome = "unsure"
      BY <1>1 DEF InboxOK, NoEffect, Aimed
    <2>1. q \in Request /\ q.client \in Clients
      BY RecordedRequests
    <2>2. Known(q)' /\ NoEffect(q) /\ Aimed(q)
      BY <1>3, <2>1 DEF ClientInv, InboxOK
    <2>3. CASE Pending(q) /\ q.client = c
      <3>1. q = r
        BY <2>3 DEF Pending, r
      <3>2. outcome = "unsure"
        BY <1>5, <3>1
      <3> QED
        BY <1>1, <1>6, <2>2, <3>1, <3>2
    <2>4. CASE Pending(q) /\ q.client # c
      BY <2>1, <2>2, <2>4, EndedClient DEF Pending
    <2>5. CASE ~ Pending(q)
      BY <1>1, <2>2, <2>5 DEF ClientInv, InboxOK
    <2> QED
      BY <2>3, <2>4, <2>5
  <1>8. AnswersOK'
    BY <1>1, <1>3, RecordedRequests DEF ClientInv, AnswersOK, NoEffect, Aimed, Active
  <1>9. DoneOK'
    BY <1>1, <1>3, RecordedRequests DEF ClientInv, DoneOK
  <1>10. EndedOK'
    <2> SUFFICES ASSUME NEW e \in ended'
                 PROVE  Known(e.call)' /\ (e.outcome = "ok" => Aimed(e.call))
      BY <1>1 DEF EndedOK, Aimed
    <2>1. e.call \in Request /\ Known(e.call) /\ (e.outcome = "ok" => Aimed(e.call))
      BY <1>1, <1>2, <1>4, <1>5, <1>6, RecordedRequests DEF ClientInv, EndedOK
    <2> QED
      BY <1>3, <2>1
  <1>11. AnswersTrue'
    <2> SUFFICES ASSUME NEW e \in ended'
                 PROVE  /\ e.outcome = "ok" /\ e.call.kind \in Anonymous
                              => <<e.call, e.dev>> \in done
                        /\ e.outcome = "ok" /\ e.call.kind = "remove_device"
                              => ~ Active(e.call.target)
                        /\ e.outcome = "refused" => e.call \notin inbox /\ NoEffect(e.call)
      BY <1>1 DEF AnswersTrue, Active, NoEffect
    <2>1. CASE e \in ended
      BY <2>1 DEF ClientInv, AnswersTrue, NoEffect
    <2>2. CASE e = e0
      BY <1>5, <1>6, <2>2
    <2> QED
      BY <1>1, <2>1, <2>2
  <1> QED
    BY <1>7, <1>8, <1>9, <1>10, <1>11 DEF ClientInv

\* A removal that is in force stays in force.
LEMMA RemovedStays ==
    ASSUME TypeInv, NEW r, NEW a, NoChange(r, a) \/ \E d \in DeviceIds : Effect(r, d, a),
           NEW q, Aimed(q), q.kind = "remove_device"
    PROVE  Aimed(q)' /\ (~ Active(q.target) => ~ Active(q.target)')
  <1>1. q.target \in DOMAIN devices
    BY DEF Aimed
  <1>2. CASE NoChange(r, a)
    BY <1>1, <1>2 DEF NoChange, server, Aimed, Active
  <1>3. ASSUME NEW d \in DeviceIds, Effect(r, d, a)
        PROVE  Aimed(q)' /\ (~ Active(q.target) => ~ Active(q.target)')
    <2>1. Enrolled(d) \/ Retired(d)
      BY <1>3 DEF Effect
    <2> QED
      BY <1>1, <2>1 DEF Enrolled, Retired, Aimed, Active, TypeInv, TypeOK
  <1> QED
    BY <1>2, <1>3

LEMMA ServeInv ==
    ASSUME TypeInv, ClientInv, NEW r \in inbox, Serve(r)
    PROVE  ClientInv'
  <1>1. PICK a0 : /\ Served(r, a0)
                  /\ NoChange(r, a0) \/ \E d \in DeviceIds : Effect(r, d, a0)
    BY ServeStep DEF ClientInv
  <1>2. /\ inbox' = inbox \ {r} /\ answers' = answers \cup {a0} /\ a0.to = r
        /\ a0.code \in Codes /\ UNCHANGED <<clients, ended>> /\ r \in Request
    BY <1>1, RecordedRequests DEF Served, Answer
  <1>3. /\ done \subseteq done'
        /\ \A q : \A d \in DeviceIds : <<q, d>> \in done' => <<q, d>> \in done \/ q = r
    BY <1>1 DEF NoChange, server, Effect
  <1>4. \A q : Known(q)' = Known(q) /\ Pending(q)' = Pending(q)
    BY <1>2 DEF Known, Pending
  <1>5. \A q : Aimed(q) => Aimed(q)'
    BY <1>1, RemovedStays DEF Aimed
  <1>6. \A q : Aimed(q) /\ q.kind = "remove_device" /\ ~ Active(q.target)
                  => ~ Active(q.target)'
    BY <1>1, RemovedStays
  <1>7. \A q : q # r /\ NoEffect(q) => NoEffect(q)'
    BY <1>3 DEF NoEffect
  <1>8. Known(r) /\ NoEffect(r) /\ Aimed(r)
    BY DEF ClientInv, InboxOK
  <1>9. InboxOK'
    BY <1>2, <1>4, <1>5, <1>7 DEF ClientInv, InboxOK
  <1>10. AnswersOK'
    <2> SUFFICES ASSUME NEW a \in answers'
                 PROVE  /\ Known(a.to)' /\ Aimed(a.to)' /\ a.to \notin inbox'
                        /\ a.code = "ok" /\ a.to.kind \in Anonymous => <<a.to, a.dev>> \in done'
                        /\ a.code = "ok" /\ a.to.kind = "remove_device"
                              => ~ Active(a.to.target)'
                        /\ a.code \in Refusals => NoEffect(a.to)'
      BY DEF AnswersOK
    <2>1. CASE a \in answers
      <3>1. a.to # r
        BY <2>1 DEF ClientInv, AnswersOK
      <3> QED
        BY <1>2, <1>3, <1>4, <1>5, <1>6, <1>7, <2>1, <3>1 DEF ClientInv, AnswersOK
    <2>2. CASE a = a0
      <3>1. Known(a.to)' /\ Aimed(a.to)' /\ a.to \notin inbox'
        BY <1>2, <1>4, <1>5, <1>8, <2>2
      <3>2. CASE NoChange(r, a0)
        <4>1. a.code = "ok" => /\ r.kind \notin Anonymous
                               /\ r.kind = "remove_device" => ~ Active(r.target)'
          BY <1>6, <1>8, <2>2, <3>2 DEF NoChange
        <4>2. NoEffect(r)'
          BY <1>8, <3>2 DEF NoChange, server, NoEffect
        <4> QED
          BY <1>2, <2>2, <3>1, <4>1, <4>2
      <3>3. ASSUME NEW d \in DeviceIds, Effect(r, d, a0)
            PROVE  /\ a.code = "ok" /\ r.kind \in Anonymous => <<r, a.dev>> \in done'
                   /\ a.code = "ok" /\ r.kind = "remove_device" => ~ Active(r.target)'
                   /\ a.code \notin Refusals
        <4>1. a.code = "ok" => <<r, a.dev>> \in done'
          BY <2>2, <3>3 DEF Effect
        <4>2. r.kind = "remove_device" => ~ Active(r.target)'
          BY <3>3 DEF Effect, Retired, Active
        <4>3. a.code \notin Refusals
          BY <2>2, <3>3 DEF Effect, Refusals
        <4> QED
          BY <4>1, <4>2, <4>3
      <3> QED
        BY <1>1, <1>2, <2>2, <3>1, <3>2, <3>3
    <2> QED
      BY <1>2, <2>1, <2>2
  <1>11. DoneOK'
    <2>1. CASE NoChange(r, a0)
      BY <1>4, <2>1 DEF NoChange, server, ClientInv, DoneOK
    <2>2. ASSUME NEW d \in DeviceIds, Effect(r, d, a0) PROVE DoneOK'
      <3>1. done' = done \cup {<<r, d>>}
        BY <2>2 DEF Effect
      <3>2. \A x \in done : x[1] # r
        BY <1>8, RecordedRequests DEF NoEffect
      <3>3. \A x \in done' : Known(x[1])'
        BY <1>4, <1>8, <3>1 DEF ClientInv, DoneOK
      <3>4. \A x \in done', y \in done' : x[1] = y[1] => x[2] = y[2]
        BY <3>1, <3>2 DEF ClientInv, DoneOK
      <3> QED
        BY <3>3, <3>4 DEF DoneOK
    <2> QED
      BY <1>1, <2>1, <2>2
  <1>12. EndedOK'
    BY <1>2, <1>4, <1>5 DEF ClientInv, EndedOK
  <1>13. AnswersTrue'
    <2> SUFFICES ASSUME NEW e \in ended
                 PROVE  /\ e.outcome = "ok" /\ e.call.kind \in Anonymous
                              => <<e.call, e.dev>> \in done'
                        /\ e.outcome = "ok" /\ e.call.kind = "remove_device"
                              => ~ Active(e.call.target)'
                        /\ e.outcome = "refused" => e.call \notin inbox' /\ NoEffect(e.call)'
      BY <1>2 DEF AnswersTrue, NoEffect
    <2>1. e.outcome = "refused" => e.call # r
      BY DEF ClientInv, AnswersTrue
    <2> QED
      BY <1>2, <1>3, <1>6, <1>7, <2>1 DEF ClientInv, AnswersTrue, EndedOK, NoEffect
  <1> QED
    BY <1>9, <1>10, <1>11, <1>12, <1>13 DEF ClientInv

LEMMA LoseInv ==
    ASSUME TypeInv, ClientInv, NEW r, Lose(r)
    PROVE  TypeInv' /\ ClientInv'
  <1>1. /\ inbox' \subseteq inbox /\ UNCHANGED <<devices, keys, done, answers, clients, faults, ended>>
    BY DEF Lose, server
  <1>2. TypeInv'
    BY <1>1 DEF TypeInv, TypeOK, Numbered, KeyOfDevice, WithinLimit, CallOK
  <1>3. ClientInv'
    BY <1>1 DEF ClientInv, InboxOK, AnswersOK, DoneOK, EndedOK, AnswersTrue, Known, NoEffect,
                Aimed, Pending, Active
  <1> QED
    BY <1>2, <1>3

LEMMA NextInv ==
    ASSUME TypeInv, ClientInv, [Next]_vars
    PROVE  TypeInv' /\ ClientInv'
  <1>1. ASSUME NEW c \in Clients, Call(c) \/ Rescue(c) PROVE TypeInv' /\ ClientInv'
    BY <1>1, BeginStep, BeginTypes, BeginInv
  <1>2. ASSUME NEW c \in Clients, Returns(c) PROVE TypeInv' /\ ClientInv'
    BY <1>2, ReturnStep, EndTypes, EndInv
  <1>3. ASSUME NEW r \in inbox, Serve(r) PROVE TypeInv' /\ ClientInv'
    BY <1>3, ServeTypes, ServeInv DEF ClientInv
  <1>4. CASE UNCHANGED vars
    BY <1>4 DEF vars, TypeInv, TypeOK, Numbered, KeyOfDevice, WithinLimit, CallOK, ClientInv, InboxOK,
                AnswersOK, DoneOK, EndedOK, AnswersTrue, Known, NoEffect, Aimed, Pending, Active
  <1> QED
    BY <1>1, <1>2, <1>3, <1>4, LoseInv DEF Next

----------------------------------------------------------------------------
(* Where the devices are. *)

\* What has become of device d, issued by activation r.
Accounted(r, d) ==
    \/ clients[r.client].dev = d
    \/ Pending(r)
    \/ \E e \in ended : e.call = r /\ e.outcome = "unsure"
    \/ \E e \in ended : /\ e.call.client = r.client /\ e.call.n > r.n
                        /\ e.call.kind = "activate" /\ e.outcome = "ok"

Issued(x, d) == x[1].kind = "activate" /\ x[2] = d

LEMMA SlotsForm ==
    SlotsAccounted <=>
        \A d \in DOMAIN keys : Active(d) =>
            \E x \in done : Issued(x, d) /\ Accounted(x[1], d)
  BY DEF SlotsAccounted, Issued, Accounted

LEMMA BeginSlots ==
    ASSUME TypeInv, ClientInv, SlotsAccounted, NEW c \in Clients, NEW r, Begun(c, r)
    PROVE  SlotsAccounted'
  <1>1. UNCHANGED <<devices, keys, done, ended>>
    BY DEF Begun, server
  <1>2. \A b \in Clients : clients'[b].dev = clients[b].dev
    <2> DEFINE s == [clients[c] EXCEPT !.waiting = TRUE, !.call = r, !.calls = @ + 1]
    <2>1. clients' = [clients EXCEPT ![c] = s]
      BY DEF Begun
    <2>2. clients[c] \in State /\ clients \in [Clients -> State]
      BY DEF TypeInv, TypeOK
    <2>3. s.dev = clients[c].dev
      BY <2>2 DEF State
    <2> HIDE DEF s
    <2> QED
      BY <2>1, <2>2, <2>3
  <1>3. ASSUME NEW q \in Request, NEW d, Accounted(q, d) PROVE Accounted(q, d)'
    BY <1>1, <1>2, <1>3, FreshCall, RecordedRequests DEF Accounted
  <1>4. ASSUME NEW d \in DOMAIN keys', Active(d)'
        PROVE  \E x \in done' : Issued(x, d) /\ Accounted(x[1], d)'
    <2>1. PICK x \in done : Issued(x, d) /\ Accounted(x[1], d)
      BY <1>1, <1>4, SlotsForm DEF Active
    <2> QED
      BY <1>1, <1>3, <2>1, RecordedRequests
  <1> QED
    BY <1>4 DEF SlotsAccounted, Issued, Accounted

LEMMA EndSlots ==
    ASSUME TypeInv, ClientInv, SlotsAccounted, NEW c \in Clients,
           NEW outcome \in {"ok", "refused", "unsure"}, NEW d0, Ended(c, outcome, d0)
    PROVE  SlotsAccounted'
  <1>1. PICK r, e0 : /\ r = clients[c].call
                     /\ e0.call = r /\ e0.outcome = outcome /\ e0.dev = d0
                     /\ ended' = ended \cup {e0}
    <2> DEFINE e == [call |-> clients[c].call, outcome |-> outcome, dev |-> d0]
    <2>1. ended' = ended \cup {e}
      BY DEF Ended
    <2>2. e.call = clients[c].call /\ e.outcome = outcome /\ e.dev = d0
      OBVIOUS
    <2> HIDE DEF e
    <2> QED
      BY <2>1, <2>2
  <1>2. /\ clients[c].waiting /\ r \in Request /\ r.client = c /\ r.n = clients[c].calls
        /\ UNCHANGED <<devices, keys, done>>
    BY <1>1 DEF Ended, server, TypeInv, CallOK
  <1>3. /\ outcome = "ok" /\ r.kind = "activate" => <<r, d0>> \in done
        /\ outcome = "refused" => NoEffect(r)
    BY <1>1 DEF Ended, ClientInv, AnswersOK, Anonymous
  <1>4. /\ clients'[c].dev = Identity(r, outcome, clients[c].dev, d0)
        /\ \A b \in Clients : b # c => clients'[b] = clients[b]
    BY <1>1, EndedClient
  <1>5. ASSUME NEW q \in Request, NEW d \in DeviceIds, <<q, d>> \in done,
               q.kind = "activate", Accounted(q, d)
        PROVE  Accounted(q, d)'
    <2>1. q.client \in Clients /\ q.n \in Nat
      BY RecordedRequests
    <2>2. Known(q)
      BY <1>5 DEF ClientInv, DoneOK
    <2>3. CASE q.client # c
      BY <1>1, <1>4, <1>5, <2>1, <2>3 DEF Accounted, Pending
    <2>4. CASE q.client = c /\ q = r
      <3>1. CASE outcome = "ok"
        <4>1. d = d0
          BY <1>3, <1>5, <2>4, <3>1 DEF ClientInv, DoneOK
        <4> QED
          BY <1>4, <1>5, <2>4, <3>1, <4>1 DEF Accounted, Identity
      <3>2. CASE outcome = "refused"
        BY <1>3, <1>5, <2>4, <3>2 DEF NoEffect
      <3>3. CASE outcome = "unsure"
        BY <1>1, <2>4, <3>3 DEF Accounted
      <3> QED
        BY <3>1, <3>2, <3>3
    <2>5. CASE q.client = c /\ q # r
      <3>1. q.n < r.n /\ ~ Pending(q)
        BY <1>1, <1>2, <2>1, <2>2, <2>5 DEF Known, Pending
      <3>2. CASE clients[c].dev = d
        <4>1. CASE outcome = "ok" /\ r.kind = "activate"
          <5>1. r.n > q.n
            BY <1>2, <2>1, <3>1
          <5> QED
            BY <1>1, <1>2, <2>5, <4>1, <5>1 DEF Accounted
        <4>2. CASE ~ (outcome = "ok" /\ r.kind = "activate")
          BY <1>4, <2>5, <3>2, <4>2 DEF Accounted, Identity
        <4> QED
          BY <4>1, <4>2
      <3>3. CASE clients[c].dev # d
        BY <1>1, <1>5, <2>5, <3>1, <3>3 DEF Accounted
      <3> QED
        BY <3>2, <3>3
    <2> QED
      BY <2>3, <2>4, <2>5
  <1>6. ASSUME NEW d \in DOMAIN keys', Active(d)'
        PROVE  \E x \in done' : Issued(x, d) /\ Accounted(x[1], d)'
    <2>1. PICK x \in done : Issued(x, d) /\ Accounted(x[1], d)
      BY <1>2, <1>6, SlotsForm DEF Active
    <2> QED
      BY <1>2, <1>5, <2>1, RecordedRequests DEF Issued
  <1> QED
    BY <1>6 DEF SlotsAccounted, Issued, Accounted

LEMMA ServeSlots ==
    ASSUME TypeInv, ClientInv, SlotsAccounted, NEW r \in inbox, Serve(r)
    PROVE  SlotsAccounted'
  <1>1. PICK a0 : /\ Served(r, a0)
                  /\ NoChange(r, a0) \/ \E d \in DeviceIds : Effect(r, d, a0)
    BY ServeStep DEF ClientInv
  <1>2. UNCHANGED <<clients, ended>> /\ done \subseteq done'
    BY <1>1 DEF Served, NoChange, server, Effect
  <1>3. \A q, d : Accounted(q, d) => Accounted(q, d)'
    BY <1>2 DEF Accounted, Pending
  <1>4. ASSUME NEW d \in DOMAIN keys', Active(d)'
        PROVE  \E x \in done' : Issued(x, d) /\ Accounted(x[1], d)'
    <2>1. CASE Active(d)
      <3>1. PICK x \in done : Issued(x, d) /\ Accounted(x[1], d)
        BY <2>1, SlotsForm DEF Active
      <3> QED
        BY <1>2, <1>3, <3>1
    <2>2. CASE ~ Active(d)
      <3>1. PICK f \in DeviceIds : Effect(r, f, a0)
        BY <1>1, <1>4, <2>2 DEF NoChange, server, Active
      <3>2. DOMAIN keys = DOMAIN devices /\ DOMAIN keys' = DOMAIN devices'
        BY <3>1 DEF Effect, RegistryInv, TypeInv, TypeOK
      <3>3. ~ Retired(f)
        BY <1>4, <2>2, <3>2 DEF Retired, Active
      <3>4. r.kind = "activate" /\ Enrolled(f)
        BY <3>1, <3>3 DEF Effect
      <3>5. f = d
        BY <1>4, <2>2, <3>2, <3>4 DEF Enrolled, Active
      <3>6. <<r, d>> \in done' /\ Issued(<<r, d>>, d)
        BY <3>1, <3>4, <3>5 DEF Effect, Issued
      <3>7. Accounted(r, d)
        BY DEF ClientInv, InboxOK, Accounted
      <3> QED
        BY <1>3, <3>6, <3>7
    <2> QED
      BY <2>1, <2>2
  <1> QED
    BY <1>4 DEF SlotsAccounted, Issued, Accounted

LEMMA NextSlots ==
    ASSUME TypeInv, ClientInv, SlotsAccounted, [Next]_vars
    PROVE  SlotsAccounted'
  <1>1. ASSUME NEW c \in Clients, Call(c) \/ Rescue(c) PROVE SlotsAccounted'
    BY <1>1, BeginStep, BeginSlots
  <1>2. ASSUME NEW c \in Clients, Returns(c) PROVE SlotsAccounted'
    BY <1>2, ReturnStep, EndSlots
  <1>3. ASSUME NEW r \in inbox, Serve(r) PROVE SlotsAccounted'
    BY <1>3, ServeSlots
  <1>4. ASSUME NEW r, Lose(r) PROVE SlotsAccounted'
    BY <1>4 DEF Lose, server, SlotsAccounted, Pending, Active
  <1>5. CASE UNCHANGED vars
    BY <1>5 DEF vars, SlotsAccounted, Pending, Active
  <1> QED
    BY <1>1, <1>2, <1>3, <1>4, <1>5 DEF Next

----------------------------------------------------------------------------

LEMMA InvHolds == Spec => [](TypeInv /\ ClientInv)
  BY InitTypes, InitClients, NextInv, PTL DEF Spec

\* Every variable keeps its type, and no Biz request leaves a client that has
\* no identity (internal/client Biz).
THEOREM TypeCorrect == Spec => []TypeOK
  <1>1. TypeInv => TypeOK
    BY DEF TypeInv
  <1> QED
    BY <1>1, InvHolds, PTL

\* What a call reports is what became of it, for any number of clients, late,
\* lost and misdirected messages (internal/client verify and its callers).
THEOREM AnswersAreTrue == Spec => []AnswersTrue
  <1>1. ClientInv => AnswersTrue
    BY DEF ClientInv
  <1> QED
    BY <1>1, InvHolds, PTL

\* A device with a usable key is not lost without a cause, for any number of
\* clients and faults: the client it was issued to holds it, waits for it, has
\* ended that activation unsure, or has activated again (internal/client
\* Activate).
THEOREM NoSlotLost == Spec => []SlotsAccounted
  <1>1. Init => SlotsAccounted
    BY DEF Init, SlotsAccounted
  <1>2. (TypeInv /\ ClientInv) /\ SlotsAccounted /\ [Next]_vars => SlotsAccounted'
    BY NextSlots
  <1> QED
    BY <1>1, <1>2, InvHolds, PTL DEF Spec
=============================================================================
