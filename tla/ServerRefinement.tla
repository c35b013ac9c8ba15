-------------------------- MODULE ServerRefinement --------------------------
(***************************************************************************)
(* Server implements Registry, for every value of its constants.           *)
(***************************************************************************)
EXTENDS ServerProofs, StoreProofs

\* The variables of Registry, as Server has them.
barIssued == [d \in DOMAIN devices |-> [code |-> devices[d].code,
                                        since |-> devices[d].registered]]
barSlots == {d \in DOMAIN devices : devices[d].status = "active"}
barUsable == {d \in DOMAIN keys : keys[d] = "active"}
barLimit == [c \in DOMAIN codes |-> MaxDevicesOf(codes[c], apps[c[1]])]
barEvictions == [r \in {q \in Requests : q.kind = "kickout"} |-> ran[r]]

\* A code is issued by an application, and applications stay.
CodesHaveApps == \A c \in DOMAIN codes : c[1] \in DOMAIN apps

RefineInv == TypeInv /\ KeyFollowsLicense /\ CodesHaveApps

----------------------------------------------------------------------------
(* The steps of Registry, in the terms of Server. *)

LEMMA Stutters ==
    ASSUME barIssued' = barIssued, barSlots' = barSlots, barUsable' = barUsable,
           barLimit' = barLimit, barEvictions' = barEvictions
    PROVE  UNCHANGED Abstract!vars
  BY DEF barIssued, barSlots, barUsable, barLimit, barEvictions, Abstract!vars

LEMMA LimitsSet ==
    ASSUME DOMAIN barLimit \subseteq DOMAIN barLimit',
           barLimit' \in [DOMAIN barLimit' -> Nat \ {0}],
           barIssued' = barIssued, barSlots' = barSlots, barUsable' = barUsable,
           barEvictions' = barEvictions
    PROVE  Abstract!Next
  BY DEF barIssued, barSlots, barUsable, barLimit, barEvictions,
         Abstract!Next, Abstract!SetLimits, Abstract!Positive

LEMMA Enrols ==
    ASSUME NEW d \in DeviceIds, NEW c \in CodeHashes, NEW s \in Time,
           d \notin DOMAIN barIssued, c \in DOMAIN barLimit,
           Cardinality({i \in barSlots : barIssued[i].code = c}) < barLimit[c],
           barIssued' = [j \in DOMAIN barIssued \cup {d} |->
                            IF j = d THEN [code |-> c, since |-> s] ELSE barIssued[j]],
           barSlots' = barSlots \cup {d}, barUsable' = barUsable \cup {d},
           barLimit' = barLimit, barEvictions' = barEvictions
    PROVE  Abstract!Next
  <1>0. \A S : Abstract!Cardinality(S) = Cardinality(S)
    BY DEF Abstract!Cardinality, Cardinality, Abstract!IsFiniteSet, IsFiniteSet
  <1>1. Abstract!Enrol(d, c, s)
    BY <1>0 DEF barIssued, barSlots, barUsable, barLimit, barEvictions,
           Abstract!Enrol, Abstract!SlotsOf
  <1> QED
    BY <1>1 DEF Abstract!Next

LEMMA Evicts ==
    ASSUME NEW d \in DeviceIds, d \in barSlots,
           \A e \in barSlots : barIssued[e].code = barIssued[d].code =>
               \/ barIssued[d].since < barIssued[e].since
               \/ barIssued[d].since = barIssued[e].since /\ d <= e,
           barSlots' = barSlots \ {d}, barUsable' = barUsable \ {d},
           barEvictions' # barEvictions, barIssued' = barIssued, barLimit' = barLimit
    PROVE  Abstract!Next
  <1>1. Abstract!Evict(d)
    BY DEF barIssued, barSlots, barUsable, barLimit, barEvictions,
           Abstract!Evict, Abstract!SlotsOf, Abstract!NotAfter
  <1> QED
    BY <1>1 DEF Abstract!Next

LEMMA Removes ==
    ASSUME NEW i \in DeviceIds, NEW d \in DeviceIds, i \in barUsable, d \in barSlots,
           barIssued[d].code = barIssued[i].code,
           barSlots' = IF i = d THEN barSlots ELSE barSlots \ {d},
           barUsable' = barUsable \ {d},
           barIssued' = barIssued, barLimit' = barLimit, barEvictions' = barEvictions
    PROVE  Abstract!Next
  <1>1. Abstract!Remove(i, d)
    BY DEF barIssued, barSlots, barUsable, barLimit, barEvictions, Abstract!Remove
  <1> QED
    BY <1>1 DEF Abstract!Next

----------------------------------------------------------------------------
(* The parts of a step that the mapping sees. *)

LEMMA CodesStep ==
    ASSUME TypeInv, CodesHaveApps, [Next]_vars
    PROVE  CodesHaveApps'
  <1>1. CASE UNCHANGED <<apps, codes>>
    BY <1>1 DEF CodesHaveApps
  <1>2. ASSUME NEW a \in Apps, CreateApp(a) PROVE CodesHaveApps'
    BY <1>2 DEF CreateApp, Put, CodesHaveApps
  <1>3. ASSUME NEW a \in Apps, IssueCode(a) PROVE CodesHaveApps'
    BY <1>3 DEF IssueCode, Put, CodeHash, CodesHaveApps
  <1>4. CASE Tick \/ Prune \/ Crash
    <2>1. CASE Tick  BY <1>1, <2>1 DEF Tick
    <2>2. CASE Prune  BY <1>1, <2>2 DEF Prune
    <2>3. CASE Crash  BY <1>1, <2>3 DEF Crash
    <2> QED  BY <1>4, <2>1, <2>2, <2>3
  <1>5. ASSUME NEW t \in Threads, Handle(t) PROVE UNCHANGED <<apps, codes>>
    <2>1. CASE \/ \E r \in Requests : Gate(t, r) \/ LoadKey(t, r)
               \/ Validate(t) \/ GateCode(t) \/ RefuseTx(t) \/ Unserved(t)
               \/ RecordFailure(t) \/ ClearIp(t) \/ ClearCode(t)
      BY <2>1 DEF Gate, LoadKey, Validate, GateCode, RefuseTx, Unserved, RecordFailure,
                  ClearIp, ClearCode
    <2>2. CASE Activate(t) \/ Kickout(t) \/ Decrypt(t) \/ BizReplay(t) \/ StoreFails(t)
      BY <2>2 DEF Activate, Kickout, Decrypt, BizReplay, StoreFails
    <2>3. CASE BizRefuse(t) \/ BizRead(t) \/ BizRemove(t) \/ BizRefresh(t)
      BY <2>3 DEF BizRefuse, BizTx, BizRead, BizRemove, BizRefresh
    <2> QED  BY <1>5, <2>1, <2>2, <2>3 DEF Handle
  <1> QED
    BY <1>1, <1>2, <1>3, <1>4, <1>5 DEF Next, vars

LEMMA Quiet ==
    ASSUME UNCHANGED <<apps, codes, registry, ran>>
    PROVE  UNCHANGED Abstract!vars
  BY Stutters DEF registry, barIssued, barSlots, barUsable, barLimit, barEvictions

\* The limits are those of the records as long as these do not change.
LEMMA SameLimits ==
    ASSUME UNCHANGED <<apps, codes>>
    PROVE  barLimit' = barLimit
  BY DEF barLimit

\* Only a kickout that is carried out shows in the evictions.
LEMMA SameEvictions ==
    ASSUME TypeOK, NEW r \in Requests, r.kind # "kickout", NEW now,
           ran' = [ran EXCEPT ![r] = Append(@, now)]
    PROVE  barEvictions' = barEvictions
  BY DEF barEvictions, TypeOK

LEMMA NewEviction ==
    ASSUME TypeOK, NEW r \in Requests, r.kind = "kickout", NEW now \in Time,
           ran' = [ran EXCEPT ![r] = Append(@, now)]
    PROVE  barEvictions' # barEvictions
  <1>1. ran[r] \in Seq(Time) /\ ran'[r] = Append(ran[r], now)
    BY DEF TypeOK
  <1>2. ran'[r] # ran[r]
    <2>1. \A q \in Seq(Time) : Len(Append(q, now)) = Len(q) + 1 /\ Len(q) \in Nat
      OBVIOUS
    <2>2. Len(ran'[r]) # Len(ran[r])
      BY <1>1, <2>1
    <2> QED
      BY <2>2
  <1>3. barEvictions[r] = ran[r] /\ barEvictions'[r] = ran'[r]
    BY DEF barEvictions
  <1> QED
    BY <1>2, <1>3

LEMMA LimitType ==
    ASSUME TypeInv, CodesHaveApps
    PROVE  barLimit \in [DOMAIN barLimit -> Nat \ {0}]
  <1>1. ASSUME NEW c \in DOMAIN codes
        PROVE  MaxDevicesOf(codes[c], apps[c[1]]) \in Nat \ {0}
    <2>1. codes[c] \in ActivationCode /\ apps[c[1]] \in Application
      BY DEF TypeInv, TypeOK, IsMap, CodesHaveApps
    <2> QED
      BY <2>1 DEF ActivationCode, Application, MaxDevicesOf
  <1> QED
    BY <1>1 DEF barLimit

----------------------------------------------------------------------------
(* The steps of the server. *)

LEMMA AdminRefines ==
    ASSUME RefineInv, TypeInv', CodesHaveApps', NEW a \in Apps, CreateApp(a) \/ IssueCode(a)
    PROVE  Abstract!Next
  <1>1. UNCHANGED registry /\ UNCHANGED ran /\ DOMAIN codes \subseteq DOMAIN codes'
    BY DEF CreateApp, IssueCode, Put
  <1>2. /\ barIssued' = barIssued /\ barSlots' = barSlots /\ barUsable' = barUsable
        /\ barEvictions' = barEvictions
    BY <1>1 DEF registry, barIssued, barSlots, barUsable, barEvictions
  <1>3. DOMAIN barLimit \subseteq DOMAIN barLimit'
    BY <1>1 DEF barLimit
  <1>4. barLimit' \in [DOMAIN barLimit' -> Nat \ {0}]
    <2>1. ASSUME NEW c \in DOMAIN codes'
          PROVE  MaxDevicesOf(codes'[c], apps'[c[1]]) \in Nat \ {0}
      <3>1. codes'[c] \in ActivationCode /\ apps'[c[1]] \in Application
        BY DEF TypeInv, TypeOK, IsMap, CodesHaveApps
      <3> QED
        BY <3>1 DEF ActivationCode, Application, MaxDevicesOf
    <2> QED
      BY <2>1 DEF barLimit
  <1> QED
    BY <1>2, <1>3, <1>4, LimitsSet

LEMMA ActivateRefines ==
    ASSUME RefineInv, NEW t \in Threads, Activate(t)
    PROVE  Abstract!Next
  <1> DEFINE r == h[t].req
             now == h[t].now
             c == CodeHash(r.app, r.plain)
             rec == [app |-> r.app, code |-> c, registered |-> now, seen |-> now,
                     status |-> "active"]
  <1>1. h[t].pc = "tx" /\ h[t].pc \in AnonStages
    BY DEF Activate, AnonStages
  <1>2. r \in Requests /\ r.kind = "activate" /\ now \in Time /\ c \in CodeHashes
    BY <1>1, AnonHandler, AnonRequest DEF RefineInv, Activate, AnonKinds
  <1>3. PICK d \in DeviceIds \ DOMAIN devices :
           devices' = Put(devices, d, rec) /\ keys' = Put(keys, d, "active")
    BY DEF Activate
  <1>4. /\ c \in DOMAIN codes
        /\ CountActiveDevices(devices, c) < MaxDevicesOf(codes[c], apps[c[1]])
        /\ UNCHANGED <<apps, codes>> /\ ran' = [ran EXCEPT ![r] = Append(@, now)]
    BY DEF Activate, Admissible, CodeUsable, HasRoom, CodeHash
  <1>5. barLimit' = barLimit /\ barEvictions' = barEvictions
    BY <1>2, <1>4, SameLimits, SameEvictions DEF RefineInv, TypeInv
  <1>6. /\ c \in DOMAIN barLimit
        /\ Cardinality({i \in barSlots : barIssued[i].code = c}) < barLimit[c]
    <2>1. {i \in barSlots : barIssued[i].code = c} = ActiveDevicesOfCode(devices, c)
      BY DEF barSlots, barIssued, ActiveDevicesOfCode
    <2> QED
      BY <1>4, <2>1 DEF barLimit, CountActiveDevices
  <1>7. rec.code = c /\ rec.registered = now /\ rec.status = "active"
    OBVIOUS
  <1> HIDE DEF c, rec
  <1>8. /\ DOMAIN devices' = DOMAIN devices \cup {d} /\ devices'[d] = rec
        /\ \A e \in DOMAIN devices : e # d /\ devices'[e] = devices[e]
    BY <1>3 DEF Put
  <1>9. barIssued' = [j \in DOMAIN barIssued \cup {d} |->
                         IF j = d THEN [code |-> c, since |-> now] ELSE barIssued[j]]
    BY <1>7, <1>8 DEF barIssued
  <1>10. barSlots' = barSlots \cup {d}
    BY <1>7, <1>8 DEF barSlots
  <1>11. barUsable' = barUsable \cup {d}
    BY <1>3 DEF Put, barUsable
  <1>12. d \in DeviceIds /\ d \notin DOMAIN barIssued
    BY <1>3 DEF barIssued
  <1> QED
    BY <1>2, <1>5, <1>6, <1>9, <1>10, <1>11, <1>12, Enrols

LEMMA KickoutRefines ==
    ASSUME RefineInv, NEW t \in Threads, Kickout(t)
    PROVE  Abstract!Next
  <1> DEFINE r == h[t].req
             now == h[t].now
             c == CodeHash(r.app, r.plain)
             d == EarliestActiveDevice(devices, c)
             A == ActiveDevicesOfCode(devices, c)
  <1>1. h[t].pc = "tx" /\ h[t].pc \in AnonStages
    BY DEF Kickout, AnonStages
  <1>2. r \in Requests /\ r.kind = "kickout" /\ now \in Time
    BY <1>1, AnonHandler DEF RefineInv, Kickout
  <1>3. IsMap(devices, DeviceIds, Device) /\ A # {} /\ Retire(d)
    BY DEF RefineInv, TypeInv, TypeOK, Kickout
  <1>4. d \in A /\ \A e \in A : Precedes(devices, d, e)
    BY <1>3, EarliestDevice
  <1>5. UNCHANGED <<apps, codes>> /\ ran' = [ran EXCEPT ![r] = Append(@, now)]
    BY DEF Kickout
  <1>6. barLimit' = barLimit /\ barEvictions' # barEvictions
    BY <1>2, <1>5, SameLimits, NewEviction DEF RefineInv, TypeInv
  <1> HIDE DEF d
  <1>7. d \in DeviceIds /\ d \in DOMAIN devices /\ devices[d].code = c /\ d \in barSlots
    BY <1>3, <1>4 DEF ActiveDevicesOfCode, IsMap, barSlots
  <1>8. \A e \in barSlots : barIssued[e].code = barIssued[d].code =>
           \/ barIssued[d].since < barIssued[e].since
           \/ barIssued[d].since = barIssued[e].since /\ d <= e
    <2> SUFFICES ASSUME NEW e \in barSlots, barIssued[e].code = barIssued[d].code
                 PROVE  \/ barIssued[d].since < barIssued[e].since
                        \/ barIssued[d].since = barIssued[e].since /\ d <= e
      OBVIOUS
    <2>1. e \in A
      BY <1>7 DEF barSlots, barIssued, ActiveDevicesOfCode
    <2>2. Precedes(devices, d, e) /\ e \in DOMAIN devices
      BY <1>4, <2>1 DEF ActiveDevicesOfCode
    <2> QED
      BY <1>7, <2>2 DEF Precedes, barIssued
  <1>9. /\ DOMAIN devices' = DOMAIN devices
        /\ \A e \in DOMAIN devices :
              /\ devices'[e].code = devices[e].code
              /\ devices'[e].registered = devices[e].registered
              /\ devices'[e].status = IF e = d THEN "removed" ELSE devices[e].status
        /\ DOMAIN keys' = DOMAIN keys
        /\ \A e \in DOMAIN keys : keys'[e] = IF e = d THEN "destroyed" ELSE keys[e]
    <2>1. devices' = RetiredDevices(devices, d) /\ keys' = DestroyedKeys(keys, d)
      BY <1>3 DEF Retire
    <2>2. \A e \in DOMAIN devices : devices[e] \in Device
      BY <1>3 DEF IsMap
    <2> QED
      BY <2>1, <2>2 DEF RetiredDevices, DestroyedKeys, Device
  <1>10. barIssued' = barIssued
    BY <1>9 DEF barIssued
  <1>11. barSlots' = barSlots \ {d} /\ barUsable' = barUsable \ {d}
    BY <1>9 DEF barSlots, barUsable
  <1> QED
    BY <1>6, <1>7, <1>8, <1>10, <1>11, Evicts

\* A write-back leaves what the mapping sees of a device as it was read.
LEMMA WriteBackKeeps ==
    ASSUME TypeInv, NEW ds, NEW d \in DOMAIN devices, NEW now,
           DOMAIN ds = DOMAIN devices, devices' = WriteBack(ds, d, now)
    PROVE  /\ DOMAIN devices' = DOMAIN devices
           /\ devices'[d].code = devices[d].code
           /\ devices'[d].registered = devices[d].registered
           /\ devices'[d].status = devices[d].status
           /\ \A e \in DOMAIN devices \ {d} : devices'[e] = ds[e]
  <1>1. devices[d] \in Device
    BY DEF TypeInv, TypeOK, IsMap
  <1> QED
    BY <1>1 DEF WriteBack, Put, Device

LEMMA ReadRefines ==
    ASSUME RefineInv, NEW t \in Threads, BizRead(t) \/ BizRefresh(t)
    PROVE  UNCHANGED Abstract!vars
  <1> DEFINE r == h[t].req
  <1>1. h[t].pc \in BizStages
    BY DEF BizRead, BizRefresh, BizStages
  <1>2. r \in Requests /\ r.kind # "kickout"
    BY <1>1, BizHandler DEF RefineInv, BizKinds
  <1>3. /\ r.dev \in DOMAIN devices /\ UNCHANGED <<apps, codes, keys>>
        /\ ran' = [ran EXCEPT ![r] = Append(@, h[t].now)]
        /\ devices' = WriteBack(devices, r.dev, h[t].now)
    BY DEF BizRead, BizRefresh, BizTx, BizGranted
  <1>4. barLimit' = barLimit /\ barEvictions' = barEvictions
    BY <1>2, <1>3, SameLimits, SameEvictions DEF RefineInv, TypeInv
  <1>5. /\ DOMAIN devices' = DOMAIN devices
        /\ \A e \in DOMAIN devices : /\ devices'[e].code = devices[e].code
                                     /\ devices'[e].registered = devices[e].registered
                                     /\ devices'[e].status = devices[e].status
    BY <1>3, WriteBackKeeps DEF RefineInv
  <1>6. barIssued' = barIssued /\ barSlots' = barSlots /\ barUsable' = barUsable
    BY <1>3, <1>5 DEF barIssued, barSlots, barUsable
  <1> QED
    BY <1>4, <1>6, Stutters

LEMMA RemoveRefines ==
    ASSUME RefineInv, NEW t \in Threads, BizRemove(t)
    PROVE  Abstract!Next
  <1> DEFINE r == h[t].req
             ds == RetiredDevices(devices, r.target)
  <1>1. h[t].pc \in BizStages
    BY DEF BizRemove, BizStages
  <1>2. r \in Requests /\ r.kind # "kickout" /\ r.dev \in DeviceIds /\ r.target \in DeviceIds
    BY <1>1, BizHandler, BizRequestType DEF RefineInv, BizKinds
  <1>3. /\ r.dev \in DOMAIN devices /\ r.target \in DOMAIN devices
        /\ devices[r.target].code = devices[r.dev].code
        /\ devices[r.target].status = "active"
        /\ UNCHANGED <<apps, codes>>
        /\ ran' = [ran EXCEPT ![r] = Append(@, h[t].now)]
        /\ devices' = WriteBack(ds, r.dev, h[t].now)
        /\ keys' = DestroyedKeys(keys, r.target)
    BY DEF BizRemove, BizTx, BizGranted, Removable
  <1>4. r.dev \in barUsable
    <2>1. r.lic = r.dev /\ licenses[r.lic].status # "revoked" /\ r.lic \in DOMAIN licenses
      BY DEF BizRemove, BizTx, BizGranted, LicenseStands
    <2>2. licenses[r.dev].status = "active"
      BY <2>1 DEF RefineInv, TypeInv, TypeOK, IsMap, License
    <2> QED
      BY <1>3, <2>2 DEF RefineInv, KeyFollowsLicense, barUsable
  <1>5. r.target \in barSlots /\ barIssued[r.target].code = barIssued[r.dev].code
    BY <1>3 DEF barSlots, barIssued
  <1>6. barLimit' = barLimit /\ barEvictions' = barEvictions
    BY <1>2, <1>3, SameLimits, SameEvictions DEF RefineInv, TypeInv
  <1>7. /\ DOMAIN ds = DOMAIN devices
        /\ \A e \in DOMAIN devices :
              /\ ds[e].code = devices[e].code /\ ds[e].registered = devices[e].registered
              /\ ds[e].status = IF e = r.target THEN "removed" ELSE devices[e].status
    BY DEF RetiredDevices, RefineInv, TypeInv, TypeOK, IsMap, Device
  <1>8. /\ DOMAIN keys' = DOMAIN keys
        /\ \A e \in DOMAIN keys : keys'[e] = IF e = r.target THEN "destroyed" ELSE keys[e]
    BY <1>3 DEF DestroyedKeys
  <1> HIDE DEF ds
  <1>9. /\ DOMAIN devices' = DOMAIN devices
        /\ \A e \in DOMAIN devices :
              /\ devices'[e].code = devices[e].code
              /\ devices'[e].registered = devices[e].registered
              /\ devices'[e].status = IF e = r.target /\ e # r.dev THEN "removed"
                                      ELSE devices[e].status
    <2>1. TypeInv
      BY DEF RefineInv
    <2>2. DOMAIN ds = DOMAIN devices
      BY <1>7
    <2>3. /\ DOMAIN devices' = DOMAIN devices
          /\ devices'[r.dev] = [devices[r.dev] EXCEPT !.seen = h[t].now]
          /\ \A e \in DOMAIN devices \ {r.dev} : devices'[e] = ds[e]
      BY <1>3, <2>2 DEF WriteBack, Put
    <2>4. ASSUME NEW e \in DOMAIN devices, e # r.dev
          PROVE  /\ devices'[e].code = devices[e].code
                 /\ devices'[e].registered = devices[e].registered
                 /\ devices'[e].status = IF e = r.target THEN "removed"
                                         ELSE devices[e].status
      BY <1>7, <2>3, <2>4
    <2>5. /\ devices'[r.dev].code = devices[r.dev].code
          /\ devices'[r.dev].registered = devices[r.dev].registered
          /\ devices'[r.dev].status = devices[r.dev].status
      <3>1. devices[r.dev] \in Device
        BY <2>1, <1>3 DEF TypeInv, TypeOK, IsMap
      <3> QED
        BY <2>3, <3>1 DEF Device
    <2> QED
      BY <2>3, <2>4, <2>5
  <1>10. barIssued' = barIssued
    BY <1>9 DEF barIssued
  <1>11. barSlots' = IF r.dev = r.target THEN barSlots ELSE barSlots \ {r.target}
    BY <1>9 DEF barSlots
  <1>12. barUsable' = barUsable \ {r.target}
    BY <1>8 DEF barUsable
  <1> QED
    BY <1>2, <1>4, <1>5, <1>6, <1>10, <1>11, <1>12, Removes

LEMMA StepRefines ==
    ASSUME RefineInv, TypeInv', CodesHaveApps', [Next]_vars
    PROVE  [Abstract!Next]_Abstract!vars
  <1>1. CASE UNCHANGED vars
    BY <1>1, Quiet DEF vars, registry
  <1>2. CASE Tick \/ Prune \/ Crash
    BY <1>2, Quiet DEF Tick, Prune, Crash
  <1>3. ASSUME NEW a \in Apps, CreateApp(a) \/ IssueCode(a) PROVE Abstract!Next
    BY <1>3, AdminRefines
  <1>4. ASSUME NEW t \in Threads, Handle(t) PROVE [Abstract!Next]_Abstract!vars
    <2>1. CASE Activate(t)
      BY <2>1, ActivateRefines
    <2>2. CASE Kickout(t)
      BY <2>2, KickoutRefines
    <2>3. CASE BizRead(t) \/ BizRefresh(t)
      BY <2>3, ReadRefines
    <2>4. CASE BizRemove(t)
      BY <2>4, RemoveRefines
    <2>5. CASE ~ RegistryStep(t)
      <3>1. UNCHANGED <<apps, codes, registry, ran>>
        BY <1>4, <2>5 DEF Handle, RegistryStep, Gate, LoadKey, Validate, GateCode, RefuseTx,
              Unserved, RecordFailure, ClearIp, ClearCode, Decrypt, BizReplay, BizRefuse,
              StoreFails
      <3> QED
        BY <3>1, Quiet
    <2> QED
      BY <2>1, <2>2, <2>3, <2>4, <2>5 DEF RegistryStep
  <1> QED
    BY <1>1, <1>2, <1>3, <1>4 DEF Next

\* The handlers, however their steps interleave with each other, with the
\* administrator and with crashes, implement the registry: each step of each
\* of them is one of its moves or none (internal/server, internal/store).
THEOREM HandlersImplementRegistry == Spec => ImplementsRegistry
  <1>1. Init => RefineInv /\ Abstract!Init
    <2> SUFFICES ASSUME Init PROVE CodesHaveApps /\ Abstract!Init
      BY TypeInit, KeyInit DEF RefineInv
    <2>1. CodesHaveApps
      BY DEF Init, CodesHaveApps
    <2>2. barLimit \in [DOMAIN barLimit -> Nat \ {0}]
      BY <2>1, TypeInit, LimitType
    <2>3. DOMAIN barIssued = {} /\ barSlots = {} /\ barUsable = {}
      BY DEF Init, barIssued, barSlots, barUsable
    <2> QED
      BY <2>1, <2>2, <2>3 DEF barIssued, barSlots, barUsable, barLimit, Abstract!Init,
                              Abstract!Positive
  <1>2. RefineInv /\ [Next]_vars => RefineInv'
    BY TypeNext, KeyStep, CodesStep DEF RefineInv
  <1>3. RefineInv /\ RefineInv' /\ [Next]_vars => [Abstract!Next]_Abstract!vars
    BY StepRefines DEF RefineInv
  <1> QED
    BY <1>1, <1>2, <1>3, PTL DEF Spec, ImplementsRegistry, Abstract!Spec
============================================================================
