-------------------------- MODULE ClientRefinement --------------------------
(***************************************************************************)
(* The server of Client implements Registry, for any number of clients,    *)
(* calls and faults.                                                       *)
(***************************************************************************)
EXTENDS ClientProofs

\* The variables of Registry, as Client has them.
barIssued == [d \in DOMAIN devices |-> [code |-> devices[d].code,
                                        since |-> devices[d].registered]]
barSlots == {d \in DOMAIN devices : devices[d].status = "active"}
barUsable == {d \in DOMAIN keys : Active(d)}
barLimit == [c \in {Code} |-> Limit]
barEvictions == {x \in done : x[1].kind = "kickout"}

----------------------------------------------------------------------------
(* The steps of Registry, in the terms of Client. *)

LEMMA Stutters ==
    ASSUME barIssued' = barIssued, barSlots' = barSlots, barUsable' = barUsable,
           barEvictions' = barEvictions
    PROVE  UNCHANGED Abstract!vars
  BY DEF barIssued, barSlots, barUsable, barEvictions, Abstract!vars

LEMMA Quiet ==
    ASSUME UNCHANGED server
    PROVE  UNCHANGED Abstract!vars
  BY Stutters DEF server, barIssued, barSlots, barUsable, barEvictions, Active

LEMMA Enrols ==
    ASSUME NEW d \in DeviceIds, d \notin DOMAIN barIssued,
           Cardinality({i \in barSlots : barIssued[i].code = Code}) < Limit,
           barIssued' = [j \in DOMAIN barIssued \cup {d} |->
                            IF j = d THEN [code |-> Code, since |-> d] ELSE barIssued[j]],
           barSlots' = barSlots \cup {d}, barUsable' = barUsable \cup {d},
           barEvictions' = barEvictions
    PROVE  Abstract!Next
  <1>1. \A S : Abstract!Cardinality(S) = Cardinality(S)
    BY DEF Abstract!Cardinality, Cardinality, Abstract!IsFiniteSet, IsFiniteSet
  <1>2. Abstract!Enrol(d, Code, d)
    BY <1>1 DEF barIssued, barSlots, barUsable, barEvictions, Abstract!Enrol, Abstract!SlotsOf
  <1> QED
    BY <1>2, ClientAssumption DEF Abstract!Next

LEMMA Evicts ==
    ASSUME NEW d \in DeviceIds, d \in barSlots,
           \A e \in barSlots : barIssued[e].code = barIssued[d].code =>
               \/ barIssued[d].since < barIssued[e].since
               \/ barIssued[d].since = barIssued[e].since /\ d <= e,
           barSlots' = barSlots \ {d}, barUsable' = barUsable \ {d},
           barEvictions' # barEvictions, barIssued' = barIssued
    PROVE  Abstract!Next
  <1>1. Abstract!Evict(d)
    BY DEF barIssued, barSlots, barUsable, barEvictions,
           Abstract!Evict, Abstract!SlotsOf, Abstract!NotAfter
  <1> QED
    BY <1>1 DEF Abstract!Next

LEMMA Removals ==
    ASSUME NEW i \in DeviceIds, NEW d \in DeviceIds, i \in barUsable, d \in barSlots,
           barIssued[d].code = barIssued[i].code,
           barSlots' = IF i = d THEN barSlots ELSE barSlots \ {d},
           barUsable' = barUsable \ {d},
           barIssued' = barIssued, barEvictions' = barEvictions
    PROVE  Abstract!Next
  <1>1. Abstract!Remove(i, d)
    BY DEF barIssued, barSlots, barUsable, barEvictions, Abstract!Remove
  <1> QED
    BY <1>1 DEF Abstract!Next

----------------------------------------------------------------------------
(* The evictions on record. *)

\* Only a kickout that is carried out shows in them.
LEMMA SameEvictions ==
    ASSUME NEW r, NEW d, Commit(r, d), r.kind # "kickout"
    PROVE  barEvictions' = barEvictions
  <1>1. done' = done \cup {<<r, d>>}
    BY DEF Commit
  <1> QED
    BY <1>1 DEF barEvictions

LEMMA NewEviction ==
    ASSUME NEW r, NEW d \in DeviceIds, Commit(r, d), r.kind = "kickout", NoEffect(r)
    PROVE  barEvictions' # barEvictions
  <1>1. done' = done \cup {<<r, d>>} /\ <<r, d>> \notin done
    BY DEF Commit, NoEffect
  <1>2. <<r, d>> \in barEvictions' /\ <<r, d>> \notin barEvictions
    BY <1>1 DEF barEvictions
  <1> QED
    BY <1>2

----------------------------------------------------------------------------
(* The steps of the server. *)

LEMMA ActivateRefines ==
    ASSUME TypeInv, ClientInv, NEW r \in inbox, ServeActivate(r)
    PROVE  [Abstract!Next]_Abstract!vars
  <1>1. CASE ~ HasRoom
    BY <1>1, Quiet DEF ServeActivate, Refuse
  <1>2. CASE HasRoom
    <2>1. PICK d \in DeviceIds :
             /\ d = Cardinality(DOMAIN devices) + 1
             /\ devices' = Put(devices, d, [app |-> Code[1], code |-> Code, registered |-> d,
                                            seen |-> d, status |-> "active"])
             /\ keys' = Put(keys, d, "active") /\ Commit(r, d)
      BY <1>2 DEF ServeActivate
    <2>2. d \notin DOMAIN devices
      <3>1. PICK n \in Nat : DOMAIN devices = 1..n
        BY DEF TypeInv, Numbered
      <3>2. Cardinality(1..n) = n
        BY FS_Interval
      <3> QED
        BY <2>1, <3>1, <3>2
    <2> DEFINE rec == [app |-> Code[1], code |-> Code, registered |-> d, seen |-> d,
                       status |-> "active"]
    <2>3. rec.code = Code /\ rec.registered = d /\ rec.status = "active"
      OBVIOUS
    <2>4. devices' = Put(devices, d, rec)
      BY <2>1
    <2> HIDE DEF rec
    <2>5. /\ DOMAIN devices' = DOMAIN devices \cup {d} /\ devices'[d] = rec
          /\ \A e \in DOMAIN devices : e # d /\ devices'[e] = devices[e]
      BY <2>2, <2>4 DEF Put
    <2>6. DOMAIN keys = DOMAIN devices
      BY DEF TypeInv, TypeOK
    <2>7. /\ DOMAIN keys' = DOMAIN keys \cup {d} /\ keys'[d] = "active"
          /\ \A e \in DOMAIN keys : keys'[e] = keys[e]
      BY <2>1, <2>2, <2>6 DEF Put
    <2>9. /\ DOMAIN barIssued = DOMAIN devices
          /\ barIssued' = [j \in DOMAIN barIssued \cup {d} |->
                              IF j = d THEN [code |-> Code, since |-> d] ELSE barIssued[j]]
      BY <2>3, <2>5 DEF barIssued
    <2>10. barSlots' = barSlots \cup {d}
      BY <2>3, <2>5 DEF barSlots
    <2>11. barUsable' = barUsable \cup {d}
      BY <2>7 DEF barUsable, Active
    <2>12. Cardinality({i \in barSlots : barIssued[i].code = Code}) < Limit
      <3>1. {i \in barSlots : barIssued[i].code = Code} = ActiveDevicesOfCode(devices, Code)
        BY DEF barSlots, barIssued, ActiveDevicesOfCode
      <3> QED
        BY <1>2, <3>1 DEF HasRoom, CountActiveDevices
    <2>13. barEvictions' = barEvictions
      BY <2>1, SameEvictions DEF ServeActivate
    <2> QED
      BY <2>2, <2>9, <2>10, <2>11, <2>12, <2>13, Enrols
  <1> QED
    BY <1>1, <1>2

LEMMA KickoutRefines ==
    ASSUME TypeInv, ClientInv, NEW r \in inbox, ServeKickout(r)
    PROVE  [Abstract!Next]_Abstract!vars
  <1>1. CASE ActiveDevicesOfCode(devices, Code) = {}
    BY <1>1, Quiet DEF ServeKickout, Refuse
  <1>2. CASE ActiveDevicesOfCode(devices, Code) # {}
    <2> DEFINE A == ActiveDevicesOfCode(devices, Code)
               d == EarliestActiveDevice(devices, Code)
    <2>1. d \in A /\ \A e \in A : Precedes(devices, d, e)
      BY <1>2, EarliestDevice DEF TypeInv, TypeOK
    <2>2. /\ devices' = RetiredDevices(devices, d) /\ keys' = DestroyedKeys(keys, d)
          /\ Commit(r, d) /\ r.kind = "kickout"
      BY <1>2 DEF ServeKickout
    <2> HIDE DEF d
    <2>3. d \in DOMAIN devices /\ d \in DeviceIds /\ devices[d].status = "active"
      BY <2>1 DEF ActiveDevicesOfCode, TypeInv, TypeOK, IsMap
    <2>4. /\ DOMAIN devices' = DOMAIN devices
          /\ \A e \in DOMAIN devices :
                /\ devices'[e].code = devices[e].code
                /\ devices'[e].registered = devices[e].registered
                /\ devices'[e].status = IF e = d THEN "removed" ELSE devices[e].status
      BY <2>2, <2>3 DEF RetiredDevices, TypeInv, TypeOK, IsMap, Device
    <2>5. /\ DOMAIN keys' = DOMAIN keys
          /\ \A e \in DOMAIN keys : keys'[e] = IF e = d THEN "destroyed" ELSE keys[e]
      BY <2>2 DEF DestroyedKeys
    <2>7. barIssued' = barIssued
      BY <2>4 DEF barIssued
    <2>8. barSlots' = barSlots \ {d} /\ d \in barSlots
      BY <2>3, <2>4 DEF barSlots
    <2>9. barUsable' = barUsable \ {d}
      BY <2>5 DEF barUsable, Active
    <2>10. \A e \in barSlots : barIssued[e].code = barIssued[d].code =>
               \/ barIssued[d].since < barIssued[e].since
               \/ barIssued[d].since = barIssued[e].since /\ d <= e
      BY <2>1, <2>3 DEF barSlots, barIssued, ActiveDevicesOfCode, Precedes, TypeInv, Numbered
    <2>11. barEvictions' # barEvictions
      BY <2>2, <2>3, NewEviction DEF ClientInv, InboxOK
    <2> QED
      BY <2>3, <2>7, <2>8, <2>9, <2>10, <2>11, Evicts
  <1> QED
    BY <1>1, <1>2

LEMMA RemoveRefines ==
    ASSUME TypeInv, ClientInv, NEW r \in inbox, ServeRemove(r)
    PROVE  [Abstract!Next]_Abstract!vars
  <1> DEFINE d == r.target
             ds == RetiredDevices(devices, d)
  <1>1. /\ d \in DOMAIN devices /\ d \in DeviceIds /\ r.dev \in DOMAIN devices
        /\ r.dev \in DeviceIds /\ r.dev \in barUsable /\ d \in barSlots
        /\ r.kind # "kickout"
    BY DEF ServeRemove, Removes, ClientInv, InboxOK, Aimed, Active, TypeInv, TypeOK,
           IsMap, barUsable, barSlots
  <1>2. /\ devices' = [ds EXCEPT ![r.dev] = devices[r.dev]]
        /\ keys' = DestroyedKeys(keys, d) /\ Commit(r, d)
    BY DEF ServeRemove
  <1>3. /\ DOMAIN ds = DOMAIN devices
        /\ \A e \in DOMAIN devices :
              /\ ds[e].code = devices[e].code /\ ds[e].registered = devices[e].registered
              /\ ds[e].status = IF e = d THEN "removed" ELSE devices[e].status
    BY DEF RetiredDevices, TypeInv, TypeOK, IsMap, Device
  <1> HIDE DEF ds
  <1>4. /\ DOMAIN devices' = DOMAIN devices
        /\ \A e \in DOMAIN devices :
              /\ devices'[e].code = devices[e].code
              /\ devices'[e].registered = devices[e].registered
              /\ devices'[e].status = IF e = d /\ e # r.dev THEN "removed"
                                      ELSE devices[e].status
    BY <1>1, <1>2, <1>3
  <1>5. /\ DOMAIN keys' = DOMAIN keys
        /\ \A e \in DOMAIN keys : keys'[e] = IF e = d THEN "destroyed" ELSE keys[e]
    BY <1>2 DEF DestroyedKeys
  <1> HIDE DEF d
  <1>7. barIssued' = barIssued
    BY <1>4 DEF barIssued
  <1>8. barSlots' = IF r.dev = d THEN barSlots ELSE barSlots \ {d}
    BY <1>4 DEF barSlots
  <1>9. barUsable' = barUsable \ {d}
    BY <1>5 DEF barUsable, Active
  <1>10. barIssued[d].code = barIssued[r.dev].code
    BY <1>1 DEF barIssued, TypeInv, Numbered
  <1>11. barEvictions' = barEvictions
    BY <1>1, <1>2, SameEvictions
  <1> QED
    BY <1>1, <1>7, <1>8, <1>9, <1>10, <1>11, Removals

LEMMA StepRefines ==
    ASSUME TypeInv, ClientInv, [Next]_vars
    PROVE  [Abstract!Next]_Abstract!vars
  <1>1. CASE UNCHANGED server
    BY <1>1, Quiet DEF server
  <1>2. ASSUME NEW c \in Clients, Call(c) \/ Rescue(c) PROVE UNCHANGED server
    BY <1>2 DEF Call, Rescue, Send
  <1>3. ASSUME NEW c \in Clients, Returns(c) PROVE UNCHANGED server
    BY <1>3 DEF Returns, Accept, Reject, Refused, GiveUp
  <1>4. ASSUME NEW r \in inbox, Serve(r) PROVE [Abstract!Next]_Abstract!vars
    <2>1. CASE ServeRead(r) \/ Fail(r)
      BY <1>1, <2>1 DEF ServeRead, Refuse, Fail
    <2> QED
      BY <1>4, <2>1, ActivateRefines, KickoutRefines, RemoveRefines DEF Serve
  <1>5. CASE UNCHANGED vars
    BY <1>1, <1>5 DEF vars, server
  <1> QED
    BY <1>1, <1>2, <1>3, <1>4, <1>5 DEF Next, Lose

\* The server that the clients see across the network, where a request may be
\* carried out long after its call has ended, implements the registry too:
\* what Server promises step by step, a client sees in one (internal/client
\* against internal/server).
THEOREM ServiceImplementsRegistry == Spec => ImplementsRegistry
  <1>1. Init => Abstract!Init
    <2> SUFFICES ASSUME Init PROVE Abstract!Init
      OBVIOUS
    <2>1. DOMAIN barIssued = {} /\ barSlots = {} /\ barUsable = {}
      BY DEF Init, barIssued, barSlots, barUsable
    <2>2. barLimit \in [DOMAIN barLimit -> Nat \ {0}]
      BY ClientAssumption DEF barLimit
    <2> QED
      BY <2>1, <2>2 DEF barIssued, barSlots, barUsable, barLimit, Abstract!Init,
                        Abstract!Positive
  <1>2. (TypeInv /\ ClientInv) /\ [Next]_vars => [Abstract!Next]_Abstract!vars
    BY StepRefines
  <1> QED
    BY <1>1, <1>2, InvHolds, PTL DEF Spec, ImplementsRegistry, Abstract!Spec
=============================================================================
