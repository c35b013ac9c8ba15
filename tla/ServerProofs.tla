--------------------------- MODULE ServerProofs ---------------------------
(***************************************************************************)
(* Theorems about Server, for every value of its constants.                *)
(***************************************************************************)
EXTENDS Server, FiniteSetTheorems, TLAPS

AnonKinds == {"activate", "kickout"}
BizKinds == {"fetch_data", "remove_device", "refresh"}
AnonStages == {"validate", "gateCode", "tx", "clearIp", "clearCode", "record"}
BizStages == {"decrypt", "bizTx"}

\* What each stage of a handler may assume of its request: the strengthening
\* that makes TypeOK inductive.
HandlerOK ==
    \A t \in Threads :
        /\ h[t].pc \in AnonStages => h[t].req.kind \in AnonKinds
        /\ h[t].pc = "record" => h[t].todo # <<>>
        /\ h[t].pc \in BizStages => h[t].req.kind \in BizKinds

TypeInv == TypeOK /\ HandlerOK

----------------------------------------------------------------------------
(* Requests, maps and handlers. *)

LEMMA AnonRequest ==
    ASSUME NEW r \in Requests, r.kind \in AnonKinds
    PROVE  /\ r.app \in Apps /\ r.nonce \in Nonces /\ r.ts \in Nat
           /\ IpBucket(r) \in Buckets /\ AppBucket(r) \in Buckets /\ CodeBucket(r) \in Buckets
           /\ CodeHash(r.app, r.plain) \in CodeHashes
           /\ NonceKey(r) \in Apps \X Nonces
  <1>1. r \in ActivateRequest \cup KickoutRequest
    BY ServerAssumption DEF AnonKinds, BizRequest
  <1> QED
    BY <1>1 DEF ActivateRequest, KickoutRequest, IpBucket, AppBucket, CodeBucket, CodeHash,
                CodeHashes, Buckets, NonceKey

LEMMA BizRequestType ==
    ASSUME NEW r \in Requests, r.kind \in BizKinds
    PROVE  /\ r \in BizRequest
           /\ r.app \in Apps /\ r.nonce \in Nonces /\ r.ts \in Nat
           /\ r.dev \in DeviceIds /\ r.lic \in DeviceIds /\ r.target \in DeviceIds
           /\ NonceKey(r) \in Apps \X Nonces
  <1>1. r \in BizRequest
    BY ServerAssumption DEF BizKinds, ActivateRequest, KickoutRequest
  <1> QED
    BY <1>1 DEF BizRequest, NonceKey

LEMMA RequestKinds == \A r \in Requests : r.kind \in AnonKinds \cup BizKinds
  BY ServerAssumption DEF ActivateRequest, KickoutRequest, BizRequest, AnonKinds, BizKinds

LEMMA PutIsMap ==
    ASSUME NEW S, NEW T, NEW m, IsMap(m, S, T), NEW k \in S, NEW v \in T
    PROVE  IsMap(Put(m, k, v), S, T)
  BY DEF IsMap, Put

LEMMA DeleteIsMap ==
    ASSUME NEW S, NEW T, NEW m, IsMap(m, S, T), NEW K
    PROVE  IsMap(Delete(m, K), S, T)
  BY DEF IsMap, Delete

LEMMA HandlerInFlight ==
    ASSUME TypeOK, NEW t \in Threads, h[t].pc \in Stages
    PROVE  h[t] \in Handler /\ h[t].req \in Requests /\ h[t].now \in Nat
  BY DEF TypeOK, Idle, Stages, Handler, Time

LEMMA ZeroTime == 0 \in Time /\ <<>> \in Seq(Buckets)
  BY ServerAssumption DEF Time

----------------------------------------------------------------------------
(* Type correctness. *)

\* Steps that move one handler and touch nothing else but, perhaps, the
\* nonces and the buckets.
LEMMA TypeOfMove ==
    ASSUME TypeInv, NEW t \in Threads,
           UNCHANGED <<clock, apps, codes, registry, ran>>,
           IsMap(nonces', Apps \X Nonces, Nat), IsMap(buckets', Buckets, RateLimit),
           h' \in [Threads -> {Idle} \cup Handler],
           \A u \in Threads \ {t} : h'[u] = h[u],
           h'[t].pc \in AnonStages => h'[t].req.kind \in AnonKinds,
           h'[t].pc = "record" => h'[t].todo # <<>>,
           h'[t].pc \in BizStages => h'[t].req.kind \in BizKinds
    PROVE  TypeInv'
  BY DEF TypeInv, TypeOK, HandlerOK, registry

LEMMA SameMaps ==
    ASSUME TypeInv, UNCHANGED <<nonces, buckets>>
    PROVE  IsMap(nonces', Apps \X Nonces, Nat) /\ IsMap(buckets', Buckets, RateLimit)
  BY DEF TypeInv, TypeOK

LEMMA TypeGate ==
    ASSUME TypeInv, NEW t \in Threads, NEW r \in Requests, Gate(t, r)
    PROVE  TypeInv'
  <1>1. IsMap(nonces', Apps \X Nonces, Nat) /\ IsMap(buckets', Buckets, RateLimit)
    BY SameMaps DEF Gate
  <1> DEFINE new == Enter("validate", r, 0)
  <1>2. new \in Handler
    BY ZeroTime DEF Enter, Handler, Stages
  <1>3. h' = [h EXCEPT ![t] = new] /\ h \in [Threads -> {Idle} \cup Handler]
    BY DEF Gate, TypeInv, TypeOK
  <1>4. h' \in [Threads -> {Idle} \cup Handler] /\ h'[t] = new
        /\ \A u \in Threads \ {t} : h'[u] = h[u]
    BY <1>2, <1>3
  <1> QED
    BY <1>1, <1>4, TypeOfMove DEF Gate, Enter, AnonKinds, AnonStages, BizStages

LEMMA TypeLoadKey ==
    ASSUME TypeInv, NEW t \in Threads, NEW r \in Requests, LoadKey(t, r)
    PROVE  TypeInv'
  <1>1. IsMap(nonces', Apps \X Nonces, Nat) /\ IsMap(buckets', Buckets, RateLimit)
    BY SameMaps DEF LoadKey
  <1> DEFINE new == Enter("decrypt", r, apps[r.app].ttl)
  <1>2. new \in Handler
    <2>1. apps[r.app].ttl \in Nat
      BY DEF LoadKey, TypeInv, TypeOK, IsMap, Application
    <2> QED  BY <2>1, ZeroTime DEF Enter, Handler, Stages
  <1>3. h' = [h EXCEPT ![t] = new] /\ h \in [Threads -> {Idle} \cup Handler]
    BY DEF LoadKey, TypeInv, TypeOK
  <1>4. h' \in [Threads -> {Idle} \cup Handler] /\ h'[t] = new
        /\ \A u \in Threads \ {t} : h'[u] = h[u]
    BY <1>2, <1>3
  <1> QED
    BY <1>1, <1>4, TypeOfMove DEF LoadKey, Enter, BizKinds, AnonStages, BizStages

\* What the four ways of moving the handler of thread t leave behind.
LEMMA GotoMove ==
    ASSUME TypeOK, NEW t \in Threads, h[t].pc \in Stages, NEW p \in Stages,
           NEW n \in Time, NEW bs \in Seq(Buckets),
           \/ h' = [h EXCEPT ![t].pc = p]
           \/ h' = [h EXCEPT ![t].pc = p, ![t].now = n]
           \/ h' = [h EXCEPT ![t].pc = p, ![t].now = n, ![t].todo = bs]
    PROVE  /\ h' \in [Threads -> {Idle} \cup Handler]
           /\ \A u \in Threads \ {t} : h'[u] = h[u]
           /\ h'[t].pc = p /\ h'[t].req = h[t].req
           /\ h'[t].now \in {h[t].now, n} /\ h'[t].todo \in {h[t].todo, bs}
  <1>1. h[t] \in Handler /\ h \in [Threads -> {Idle} \cup Handler]
    BY HandlerInFlight DEF TypeOK
  <1>2. CASE h' = [h EXCEPT ![t].pc = p]
    BY <1>1, <1>2 DEF Handler
  <1>3. CASE h' = [h EXCEPT ![t].pc = p, ![t].now = n]
    BY <1>1, <1>3 DEF Handler
  <1>4. CASE h' = [h EXCEPT ![t].pc = p, ![t].now = n, ![t].todo = bs]
    BY <1>1, <1>4 DEF Handler
  <1> QED
    BY <1>2, <1>3, <1>4

LEMMA ChargeMove ==
    ASSUME TypeOK, NEW t \in Threads, h[t].pc \in Stages,
           NEW bs \in Seq(Buckets), Charge(t, bs)
    PROVE  /\ h' \in [Threads -> {Idle} \cup Handler]
           /\ \A u \in Threads \ {t} : h'[u] = h[u]
           /\ h'[t].pc = "record" /\ h'[t].req = h[t].req /\ h'[t].todo = bs
  <1>1. h[t] \in Handler /\ h \in [Threads -> {Idle} \cup Handler]
    BY HandlerInFlight DEF TypeOK
  <1> QED
    BY <1>1, ZeroTime DEF Handler, Charge, Stages

LEMMA FinishMove ==
    ASSUME TypeOK, NEW t \in Threads, Finish(t)
    PROVE  /\ h' \in [Threads -> {Idle} \cup Handler]
           /\ \A u \in Threads \ {t} : h'[u] = h[u]
           /\ h'[t].pc = "idle"
  BY DEF TypeOK, Finish, Idle

LEMMA TypeOfFinish ==
    ASSUME TypeInv, NEW t \in Threads, Finish(t),
           UNCHANGED <<clock, apps, codes, registry, ran>>,
           IsMap(nonces', Apps \X Nonces, Nat), IsMap(buckets', Buckets, RateLimit)
    PROVE  TypeInv'
  BY FinishMove, TypeOfMove DEF TypeInv, AnonStages, BizStages

LEMMA TypeOfCharge ==
    ASSUME TypeInv, NEW t \in Threads, h[t].pc \in AnonStages,
           NEW bs \in Seq(Buckets), bs # <<>>, Charge(t, bs),
           UNCHANGED <<clock, apps, codes, registry, ran>>,
           IsMap(nonces', Apps \X Nonces, Nat), IsMap(buckets', Buckets, RateLimit)
    PROVE  TypeInv'
  <1>1. h[t].pc \in Stages  BY DEF AnonStages, Stages
  <1>2. h[t].req.kind \in AnonKinds  BY DEF TypeInv, HandlerOK
  <1> QED
    BY <1>1, <1>2, ChargeMove, TypeOfMove DEF TypeInv, AnonStages, BizStages

LEMMA BucketSeqs ==
    ASSUME NEW r \in Requests, r.kind \in AnonKinds
    PROVE  /\ <<IpBucket(r), AppBucket(r)>> \in Seq(Buckets)
           /\ <<IpBucket(r), AppBucket(r)>> # <<>>
           /\ <<IpBucket(r), AppBucket(r), CodeBucket(r)>> \in Seq(Buckets)
           /\ <<IpBucket(r), AppBucket(r), CodeBucket(r)>> # <<>>
  BY AnonRequest

\* The request of an anonymous handler, and of a business handler.
LEMMA AnonHandler ==
    ASSUME TypeInv, NEW t \in Threads, h[t].pc \in AnonStages
    PROVE  /\ h[t].pc \in Stages
           /\ h[t].req \in Requests /\ h[t].req.kind \in AnonKinds
           /\ h[t].now \in Time /\ h[t].todo \in Seq(Buckets)
  <1>1. h[t].pc \in Stages  BY DEF AnonStages, Stages
  <1> QED  BY <1>1, HandlerInFlight DEF TypeInv, HandlerOK, Handler

LEMMA BizHandler ==
    ASSUME TypeInv, NEW t \in Threads, h[t].pc \in BizStages
    PROVE  /\ h[t].pc \in Stages
           /\ h[t].req \in Requests /\ h[t].req.kind \in BizKinds
           /\ h[t].now \in Time /\ h[t].ttl \in Nat
  <1>1. h[t].pc \in Stages  BY DEF BizStages, Stages
  <1> QED  BY <1>1, HandlerInFlight DEF TypeInv, HandlerOK, Handler

LEMMA TypeValidate ==
    ASSUME TypeInv, NEW t \in Threads, Validate(t)
    PROVE  TypeInv'
  <1> DEFINE r == h[t].req
  <1>1. h[t].pc \in AnonStages  BY DEF Validate, AnonStages
  <1>2. h[t].pc \in Stages /\ r \in Requests /\ r.kind \in AnonKinds  BY <1>1, AnonHandler
  <1>3. IsMap(nonces', Apps \X Nonces, Nat) /\ IsMap(buckets', Buckets, RateLimit)
    BY SameMaps DEF Validate
  <1>4. CASE Charge(t, <<IpBucket(r), AppBucket(r)>>)
    BY <1>1, <1>2, <1>3, <1>4, BucketSeqs, TypeOfCharge DEF Validate
  <1>5. CASE h' = [h EXCEPT ![t].pc = "gateCode", ![t].now = clock]
    <2>1. clock \in Time /\ "gateCode" \in Stages  BY DEF TypeInv, TypeOK, Stages
    <2>2. /\ h' \in [Threads -> {Idle} \cup Handler]
          /\ \A u \in Threads \ {t} : h'[u] = h[u]
          /\ h'[t].pc = "gateCode" /\ h'[t].req = r
      BY <1>2, <1>5, <2>1, ZeroTime, GotoMove DEF TypeInv
    <2> QED  BY <1>2, <1>3, <2>2, TypeOfMove DEF Validate, BizStages
  <1> QED  BY <1>4, <1>5 DEF Validate

LEMMA TypeGateCode ==
    ASSUME TypeInv, NEW t \in Threads, GateCode(t)
    PROVE  TypeInv'
  <1>1. h[t].pc \in AnonStages  BY DEF GateCode, AnonStages
  <1>2. h[t].pc \in Stages /\ h[t].req \in Requests /\ h[t].req.kind \in AnonKinds
    BY <1>1, AnonHandler
  <1>3. IsMap(nonces', Apps \X Nonces, Nat) /\ IsMap(buckets', Buckets, RateLimit)
    BY SameMaps DEF GateCode
  <1>4. CASE Finish(t)
    BY <1>3, <1>4, TypeOfFinish DEF GateCode
  <1>5. CASE Goto(t, "tx")
    <2>1. "tx" \in Stages  BY DEF Stages
    <2>2. /\ h' \in [Threads -> {Idle} \cup Handler]
          /\ \A u \in Threads \ {t} : h'[u] = h[u]
          /\ h'[t].pc = "tx" /\ h'[t].req = h[t].req
      BY <1>2, <1>5, <2>1, ZeroTime, GotoMove DEF TypeInv, Goto
    <2> QED  BY <1>2, <1>3, <2>2, TypeOfMove DEF GateCode, BizStages
  <1> QED  BY <1>4, <1>5 DEF GateCode

LEMMA TypeRefuseTx ==
    ASSUME TypeInv, NEW t \in Threads, RefuseTx(t)
    PROVE  TypeInv'
  <1>1. h[t].pc \in AnonStages  BY DEF RefuseTx, AnonStages
  <1>2. h[t].req \in Requests /\ h[t].req.kind \in AnonKinds  BY <1>1, AnonHandler
  <1>3. IsMap(nonces', Apps \X Nonces, Nat) /\ IsMap(buckets', Buckets, RateLimit)
    BY SameMaps DEF RefuseTx
  <1> QED  BY <1>1, <1>2, <1>3, BucketSeqs, TypeOfCharge DEF RefuseTx

LEMMA TypeUnserved ==
    ASSUME TypeInv, NEW t \in Threads, Unserved(t)
    PROVE  TypeInv'
  <1>1. IsMap(nonces', Apps \X Nonces, Nat) /\ IsMap(buckets', Buckets, RateLimit)
    BY SameMaps DEF Unserved
  <1> QED  BY <1>1, TypeOfFinish DEF Unserved

LEMMA RateLimitUpdate ==
    ASSUME NEW rl \in RateLimit, NEW n \in Nat, NEW u \in Nat
    PROVE  [rl EXCEPT !.failures = n, !.lockedUntil = u] \in RateLimit
  BY DEF RateLimit

LEMMA NextFailureType ==
    ASSUME TypeOK, NEW b \in Buckets, NEW now \in Time
    PROVE  NextFailure(b, now) \in RateLimit
  <1> DEFINE rl == OpenWindow(b, now)
             until == IF Locks(rl.failures + 1) THEN now + RateLock ELSE rl.lockedUntil
  <1>1. rl \in RateLimit
    BY DEF OpenWindow, TypeOK, IsMap, RateLimit, Time
  <1>2. rl.failures + 1 \in Nat /\ until \in Nat
    BY <1>1, ServerAssumption DEF Time, RateLimit
  <1>3. NextFailure(b, now) = [rl EXCEPT !.failures = rl.failures + 1, !.lockedUntil = until]
    BY DEF NextFailure
  <1> HIDE DEF rl, until
  <1> QED
    BY <1>1, <1>2, <1>3, RateLimitUpdate

LEMMA TypeRecordFailure ==
    ASSUME TypeInv, NEW t \in Threads, RecordFailure(t)
    PROVE  TypeInv'
  <1> DEFINE b == Head(h[t].todo)
             rest == Tail(h[t].todo)
  <1>1. h[t].pc = "record" /\ h[t].pc \in AnonStages  BY DEF RecordFailure, AnonStages
  <1>2. h[t].todo \in Seq(Buckets) /\ h[t].todo # <<>>
    BY <1>1, AnonHandler DEF TypeInv, HandlerOK
  <1>3. b \in Buckets /\ rest \in Seq(Buckets)  BY <1>2
  <1>4. PICK now \in Recent : buckets' = Put(buckets, b, NextFailure(b, now))
    BY DEF RecordFailure
  <1>5. IsMap(buckets', Buckets, RateLimit)
    <2>1. NextFailure(b, now) \in RateLimit
      BY <1>3, NextFailureType DEF TypeInv, Recent
    <2>2. IsMap(buckets, Buckets, RateLimit)  BY DEF TypeInv, TypeOK
    <2> QED  BY <1>3, <1>4, <2>1, <2>2, PutIsMap
  <1>6. IsMap(nonces', Apps \X Nonces, Nat)  BY DEF RecordFailure, TypeInv, TypeOK
  <1>7. CASE rest = <<>>
    BY <1>5, <1>6, <1>7, TypeOfFinish DEF RecordFailure
  <1>8. CASE rest # <<>>
    BY <1>1, <1>3, <1>5, <1>6, <1>8, TypeOfCharge DEF RecordFailure
  <1> QED  BY <1>7, <1>8

LEMMA RetireType ==
    ASSUME TypeOK, NEW d
    PROVE  /\ IsMap(RetiredDevices(devices, d), DeviceIds, Device)
           /\ IsMap(RetiredLicenses(licenses, d), DeviceIds, License)
           /\ IsMap(DestroyedKeys(keys, d), DeviceIds, KeyStatus)
  <1>1. IsMap(RetiredDevices(devices, d), DeviceIds, Device)
    BY DEF TypeOK, IsMap, RetiredDevices, Device
  <1>2. IsMap(RetiredLicenses(licenses, d), DeviceIds, License)
    BY DEF TypeOK, IsMap, RetiredLicenses, License
  <1>3. IsMap(DestroyedKeys(keys, d), DeviceIds, KeyStatus)
    BY DEF TypeOK, IsMap, DestroyedKeys, KeyStatus
  <1> QED
    BY <1>1, <1>2, <1>3

LEMMA ClaimType ==
    ASSUME TypeOK, NEW k \in Apps \X Nonces, NEW now \in Time
    PROVE  IsMap(ClaimNonce(nonces, k, now, NonceTTL), Apps \X Nonces, Nat)
  <1>1. now + NonceTTL \in Nat  BY ServerAssumption DEF Time
  <1> QED  BY <1>1, PutIsMap DEF ClaimNonce, TypeOK

LEMMA RanType ==
    ASSUME TypeOK, NEW r \in Requests, NEW now \in Time
    PROVE  [ran EXCEPT ![r] = Append(@, now)] \in [Requests -> Seq(Time)]
  BY DEF TypeOK

\* Steps that end or advance one handler and rewrite the registry.
LEMMA TypeOfServe ==
    ASSUME TypeInv, NEW t \in Threads,
           UNCHANGED <<clock, apps, codes, buckets>>,
           IsMap(devices', DeviceIds, Device), IsMap(licenses', DeviceIds, License),
           IsMap(keys', DeviceIds, KeyStatus), IsMap(nonces', Apps \X Nonces, Nat),
           ran' \in [Requests -> Seq(Time)],
           h' \in [Threads -> {Idle} \cup Handler],
           \A u \in Threads \ {t} : h'[u] = h[u],
           h'[t].pc = "idle" \/ (h'[t].pc = "clearIp" /\ h'[t].req.kind \in AnonKinds)
    PROVE  TypeInv'
  BY DEF TypeInv, TypeOK, HandlerOK, AnonStages, BizStages

LEMMA AfterCommitMove ==
    ASSUME TypeInv, NEW t \in Threads, h[t].pc = "tx", AfterCommit(t)
    PROVE  /\ h' \in [Threads -> {Idle} \cup Handler]
           /\ \A u \in Threads \ {t} : h'[u] = h[u]
           /\ h'[t].pc = "idle" \/ (h'[t].pc = "clearIp" /\ h'[t].req.kind \in AnonKinds)
  <1>1. h[t].pc \in Stages /\ h[t].req.kind \in AnonKinds
    BY AnonHandler DEF AnonStages
  <1>2. CASE Finish(t)
    BY <1>2, FinishMove DEF TypeInv
  <1>3. CASE h' = [h EXCEPT ![t].pc = "clearIp", ![t].now = 0]
    <2>1. "clearIp" \in Stages  BY DEF Stages
    <2> QED  BY <1>1, <1>3, <2>1, GotoMove, ZeroTime DEF TypeInv
  <1> QED
    BY <1>2, <1>3 DEF AfterCommit

LEMMA TypeActivate ==
    ASSUME TypeInv, NEW t \in Threads, Activate(t)
    PROVE  TypeInv'
  <1> DEFINE r == h[t].req
             now == h[t].now
             c == CodeHash(r.app, r.plain)
  <1>1. h[t].pc = "tx" /\ h[t].pc \in AnonStages  BY DEF Activate, AnonStages
  <1>2. r \in Requests /\ r.kind \in AnonKinds /\ now \in Time  BY <1>1, AnonHandler
  <1>3. r.app \in Apps /\ c \in CodeHashes /\ NonceKey(r) \in Apps \X Nonces
    BY <1>2, AnonRequest
  <1>4. now \in Nat /\ now + apps[r.app].ttl \in Nat
    BY <1>2 DEF Activate, Admissible, TypeInv, TypeOK, IsMap, Application, Time
  <1>5. PICK d \in DeviceIds \ DOMAIN devices :
           /\ devices' = Put(devices, d, [app |-> r.app, code |-> c,
                                registered |-> now, seen |-> now, status |-> "active"])
           /\ licenses' = Put(licenses, d, [expires |-> now + apps[r.app].ttl,
                                            status |-> "active"])
           /\ keys' = Put(keys, d, "active")
    BY DEF Activate
  <1>6. [app |-> r.app, code |-> c, registered |-> now, seen |-> now, status |-> "active"]
           \in Device
    BY <1>3, <1>4 DEF Device
  <1>7. [expires |-> now + apps[r.app].ttl, status |-> "active"] \in License
    BY <1>4 DEF License
  <1>8. /\ IsMap(devices, DeviceIds, Device) /\ IsMap(licenses, DeviceIds, License)
        /\ IsMap(keys, DeviceIds, KeyStatus)
    BY DEF TypeInv, TypeOK
  <1>9. IsMap(devices', DeviceIds, Device)  BY <1>5, <1>6, <1>8, PutIsMap
  <1>10. IsMap(licenses', DeviceIds, License)  BY <1>5, <1>7, <1>8, PutIsMap
  <1>11. IsMap(keys', DeviceIds, KeyStatus)  BY <1>5, <1>8, PutIsMap DEF KeyStatus
  <1>12. IsMap(nonces', Apps \X Nonces, Nat)
    BY <1>2, <1>3, ClaimType DEF Activate, TypeInv
  <1>13. ran' \in [Requests -> Seq(Time)]  BY <1>2, RanType DEF Activate, TypeInv
  <1> QED
    BY <1>1, <1>9, <1>10, <1>11, <1>12, <1>13, AfterCommitMove, TypeOfServe DEF Activate

LEMMA TypeKickout ==
    ASSUME TypeInv, NEW t \in Threads, Kickout(t)
    PROVE  TypeInv'
  <1> DEFINE r == h[t].req
             now == h[t].now
             d == EarliestActiveDevice(devices, CodeHash(r.app, r.plain))
  <1>1. h[t].pc = "tx" /\ h[t].pc \in AnonStages  BY DEF Kickout, AnonStages
  <1>2. r \in Requests /\ r.kind \in AnonKinds /\ now \in Time  BY <1>1, AnonHandler
  <1>3. NonceKey(r) \in Apps \X Nonces  BY <1>2, AnonRequest
  <1>4. Retire(d)  BY DEF Kickout
  <1>5. /\ IsMap(devices', DeviceIds, Device) /\ IsMap(licenses', DeviceIds, License)
        /\ IsMap(keys', DeviceIds, KeyStatus)
    BY <1>4, RetireType DEF Retire, TypeInv
  <1>6. IsMap(nonces', Apps \X Nonces, Nat)
    BY <1>2, <1>3, ClaimType DEF Kickout, TypeInv
  <1>7. ran' \in [Requests -> Seq(Time)]  BY <1>2, RanType DEF Kickout, TypeInv
  <1> QED
    BY <1>1, <1>5, <1>6, <1>7, AfterCommitMove, TypeOfServe DEF Kickout

\* The part of a granted business transaction that its actions share.
LEMMA BizTxType ==
    ASSUME TypeInv, NEW t \in Threads, h[t].pc = "bizTx", BizTx(t, h[t].req, h[t].now)
    PROVE  /\ h[t].req \in Requests /\ h[t].req.kind \in BizKinds /\ h[t].now \in Time
           /\ h[t].ttl \in Nat
           /\ UNCHANGED <<clock, apps, codes, buckets>>
           /\ IsMap(nonces', Apps \X Nonces, Nat)
           /\ ran' \in [Requests -> Seq(Time)]
           /\ h' \in [Threads -> {Idle} \cup Handler]
           /\ \A u \in Threads \ {t} : h'[u] = h[u]
           /\ h'[t].pc = "idle"
  <1>1. /\ h[t].req \in Requests /\ h[t].req.kind \in BizKinds /\ h[t].now \in Time
        /\ h[t].ttl \in Nat
    BY BizHandler DEF BizStages
  <1>2. NonceKey(h[t].req) \in Apps \X Nonces  BY <1>1, BizRequestType
  <1>3. IsMap(nonces', Apps \X Nonces, Nat)  BY <1>1, <1>2, ClaimType DEF BizTx, TypeInv
  <1>4. ran' \in [Requests -> Seq(Time)]  BY <1>1, RanType DEF BizTx, TypeInv
  <1> QED
    BY <1>1, <1>3, <1>4, FinishMove DEF BizTx, TypeInv

LEMMA WriteBackType ==
    ASSUME TypeOK, NEW ds, IsMap(ds, DeviceIds, Device), NEW d \in DOMAIN devices,
           NEW now \in Time
    PROVE  IsMap(WriteBack(ds, d, now), DeviceIds, Device)
  <1>1. d \in DeviceIds /\ devices[d] \in Device  BY DEF TypeOK, IsMap
  <1>2. [devices[d] EXCEPT !.seen = now] \in Device  BY <1>1 DEF Device, Time
  <1> QED  BY <1>1, <1>2, PutIsMap DEF WriteBack

LEMMA TypeBizRead ==
    ASSUME TypeInv, NEW t \in Threads, BizRead(t)
    PROVE  TypeInv'
  <1>1. BizTx(t, h[t].req, h[t].now) /\ h[t].pc = "bizTx"  BY DEF BizRead
  <1>2. h[t].now \in Time /\ h[t].req.dev \in DOMAIN devices
    BY <1>1, BizTxType DEF BizTx, BizGranted
  <1>3. IsMap(devices', DeviceIds, Device)
    BY <1>2, WriteBackType DEF BizRead, TypeInv, TypeOK
  <1>4. IsMap(licenses', DeviceIds, License) /\ IsMap(keys', DeviceIds, KeyStatus)
    BY DEF BizRead, TypeInv, TypeOK
  <1>5. /\ UNCHANGED <<clock, apps, codes, buckets>>
        /\ IsMap(nonces', Apps \X Nonces, Nat)
        /\ ran' \in [Requests -> Seq(Time)]
        /\ h' \in [Threads -> {Idle} \cup Handler]
        /\ \A u \in Threads \ {t} : h'[u] = h[u]
        /\ h'[t].pc = "idle"
    BY <1>1, BizTxType
  <1> QED
    BY <1>5, <1>3, <1>4, TypeOfServe

LEMMA TypeBizRemove ==
    ASSUME TypeInv, NEW t \in Threads, BizRemove(t)
    PROVE  TypeInv'
  <1>1. BizTx(t, h[t].req, h[t].now) /\ h[t].pc = "bizTx"  BY DEF BizRemove
  <1>2. h[t].now \in Time /\ h[t].req.dev \in DOMAIN devices
    BY <1>1, BizTxType DEF BizTx, BizGranted
  <1>3. IsMap(devices', DeviceIds, Device)
    BY <1>2, WriteBackType, RetireType DEF BizRemove, TypeInv
  <1>4. IsMap(licenses', DeviceIds, License) /\ IsMap(keys', DeviceIds, KeyStatus)
    BY RetireType DEF BizRemove, TypeInv
  <1>5. /\ UNCHANGED <<clock, apps, codes, buckets>>
        /\ IsMap(nonces', Apps \X Nonces, Nat)
        /\ ran' \in [Requests -> Seq(Time)]
        /\ h' \in [Threads -> {Idle} \cup Handler]
        /\ \A u \in Threads \ {t} : h'[u] = h[u]
        /\ h'[t].pc = "idle"
    BY <1>1, BizTxType
  <1> QED
    BY <1>5, <1>3, <1>4, TypeOfServe

LEMMA TypeBizRefresh ==
    ASSUME TypeInv, NEW t \in Threads, BizRefresh(t)
    PROVE  TypeInv'
  <1> DEFINE r == h[t].req
  <1>1. BizTx(t, r, h[t].now) /\ h[t].pc = "bizTx"  BY DEF BizRefresh
  <1>2. /\ h[t].now \in Time /\ r.dev \in DOMAIN devices /\ r.lic \in DOMAIN licenses
        /\ h[t].ttl \in Nat
    BY <1>1, BizTxType DEF BizTx, BizGranted
  <1>3. IsMap(devices', DeviceIds, Device)
    BY <1>2, WriteBackType DEF BizRefresh, TypeInv, TypeOK
  <1>4. h[t].now + h[t].ttl \in Nat
    BY <1>2 DEF Time
  <1>5. [expires |-> h[t].now + h[t].ttl, status |-> "active"] \in License
    BY <1>4 DEF License
  <1>6. IsMap(licenses, DeviceIds, License) /\ r.lic \in DeviceIds
    BY <1>2 DEF TypeInv, TypeOK, IsMap
  <1>7. IsMap(licenses', DeviceIds, License)
    BY <1>5, <1>6, PutIsMap DEF BizRefresh
  <1>8. IsMap(keys', DeviceIds, KeyStatus)
    BY DEF BizRefresh, TypeInv, TypeOK
  <1>9. /\ UNCHANGED <<clock, apps, codes, buckets>>
        /\ IsMap(nonces', Apps \X Nonces, Nat)
        /\ ran' \in [Requests -> Seq(Time)]
        /\ h' \in [Threads -> {Idle} \cup Handler]
        /\ \A u \in Threads \ {t} : h'[u] = h[u]
        /\ h'[t].pc = "idle"
    BY <1>1, BizTxType
  <1> QED
    BY <1>9, <1>3, <1>7, <1>8, TypeOfServe

LEMMA TypeClearIp ==
    ASSUME TypeInv, NEW t \in Threads, ClearIp(t)
    PROVE  TypeInv'
  <1>1. h[t].pc \in Stages /\ h[t].req.kind \in AnonKinds
    BY AnonHandler DEF ClearIp, AnonStages
  <1>2. "clearCode" \in Stages  BY DEF Stages
  <1>3. /\ h' \in [Threads -> {Idle} \cup Handler]
        /\ \A u \in Threads \ {t} : h'[u] = h[u]
        /\ h'[t].pc = "clearCode" /\ h'[t].req = h[t].req
    BY <1>1, <1>2, ZeroTime, GotoMove DEF ClearIp, Goto, TypeInv
  <1>4. IsMap(buckets', Buckets, RateLimit) /\ IsMap(nonces', Apps \X Nonces, Nat)
    BY DeleteIsMap DEF ClearIp, TypeInv, TypeOK
  <1> QED
    BY <1>1, <1>3, <1>4, TypeOfMove DEF ClearIp, BizStages

LEMMA TypeClearCode ==
    ASSUME TypeInv, NEW t \in Threads, ClearCode(t)
    PROVE  TypeInv'
  <1>1. IsMap(buckets', Buckets, RateLimit) /\ IsMap(nonces', Apps \X Nonces, Nat)
    BY DeleteIsMap DEF ClearCode, TypeInv, TypeOK
  <1> QED
    BY <1>1, TypeOfFinish DEF ClearCode

LEMMA TypeDecrypt ==
    ASSUME TypeInv, NEW t \in Threads, Decrypt(t)
    PROVE  TypeInv'
  <1>1. h[t].pc \in Stages /\ h[t].req.kind \in BizKinds
    BY BizHandler DEF Decrypt, BizStages
  <1>2. "bizTx" \in Stages /\ clock \in Time  BY DEF Stages, TypeInv, TypeOK
  <1>3. /\ h' \in [Threads -> {Idle} \cup Handler]
        /\ \A u \in Threads \ {t} : h'[u] = h[u]
        /\ h'[t].pc = "bizTx" /\ h'[t].req = h[t].req
    BY <1>1, <1>2, ZeroTime, GotoMove DEF Decrypt, TypeInv
  <1>4. IsMap(nonces', Apps \X Nonces, Nat) /\ IsMap(buckets', Buckets, RateLimit)
    BY SameMaps DEF Decrypt
  <1> QED
    BY <1>1, <1>3, <1>4, TypeOfMove DEF Decrypt, AnonStages

LEMMA TypeBizReplay ==
    ASSUME TypeInv, NEW t \in Threads, BizReplay(t)
    PROVE  TypeInv'
  <1>1. IsMap(nonces', Apps \X Nonces, Nat) /\ IsMap(buckets', Buckets, RateLimit)
    BY SameMaps DEF BizReplay
  <1> QED
    BY <1>1, TypeOfFinish DEF BizReplay

LEMMA TypeBizRefuse ==
    ASSUME TypeInv, NEW t \in Threads, BizRefuse(t)
    PROVE  TypeInv'
  <1>1. h[t].req \in Requests /\ h[t].req.kind \in BizKinds /\ h[t].now \in Time
    BY BizHandler DEF BizRefuse, BizStages
  <1>2. NonceKey(h[t].req) \in Apps \X Nonces  BY <1>1, BizRequestType
  <1>3. IsMap(nonces', Apps \X Nonces, Nat)  BY <1>1, <1>2, ClaimType DEF BizRefuse, TypeInv
  <1>4. IsMap(buckets', Buckets, RateLimit)  BY DEF BizRefuse, TypeInv, TypeOK
  <1> QED
    BY <1>3, <1>4, TypeOfFinish DEF BizRefuse

LEMMA TypeStoreFails ==
    ASSUME TypeInv, NEW t \in Threads, StoreFails(t)
    PROVE  TypeInv'
  <1> DEFINE rest == Tail(h[t].todo)
  <1>1. IsMap(nonces', Apps \X Nonces, Nat) /\ IsMap(buckets', Buckets, RateLimit)
    BY SameMaps DEF StoreFails
  <1>2. CASE Finish(t)
    BY <1>1, <1>2, TypeOfFinish DEF StoreFails
  <1>3. CASE h[t].pc = "clearIp" /\ Goto(t, "clearCode")
    <2>1. h[t].pc \in Stages /\ h[t].req.kind \in AnonKinds
      BY <1>3, AnonHandler DEF AnonStages
    <2>2. "clearCode" \in Stages  BY DEF Stages
    <2>3. /\ h' \in [Threads -> {Idle} \cup Handler]
          /\ \A u \in Threads \ {t} : h'[u] = h[u]
          /\ h'[t].pc = "clearCode" /\ h'[t].req = h[t].req
      BY <1>3, <2>1, <2>2, ZeroTime, GotoMove DEF Goto, TypeInv
    <2> QED  BY <1>1, <2>1, <2>3, TypeOfMove DEF StoreFails, BizStages
  <1>4. CASE h[t].pc = "record" /\ rest # <<>> /\ Charge(t, rest)
    <2>1. h[t].pc \in AnonStages  BY <1>4 DEF AnonStages
    <2>2. h[t].todo \in Seq(Buckets) /\ h[t].todo # <<>>
      BY <1>4, <2>1, AnonHandler DEF TypeInv, HandlerOK
    <2>3. rest \in Seq(Buckets)  BY <2>2
    <2> QED  BY <1>1, <1>4, <2>1, <2>3, TypeOfCharge DEF StoreFails
  <1> QED
    BY <1>2, <1>3, <1>4 DEF StoreFails

LEMMA TypeEnvironment ==
    ASSUME TypeInv, Tick \/ Prune \/ Crash
    PROVE  TypeInv'
  <1>1. CASE Tick
    <2>1. clock' \in Time
      BY <1>1, ServerAssumption DEF Tick, TypeInv, TypeOK, Time
    <2> QED  BY <1>1, <2>1 DEF Tick, TypeInv, TypeOK, HandlerOK, registry
  <1>2. CASE Prune
    <2>1. IsMap(nonces', Apps \X Nonces, Nat)
      BY <1>2, DeleteIsMap DEF Prune, PruneNonces, TypeInv, TypeOK
    <2> QED  BY <1>2, <2>1 DEF Prune, TypeInv, TypeOK, HandlerOK, registry
  <1>3. CASE Crash
    BY <1>3 DEF Crash, TypeInv, TypeOK, HandlerOK, registry, Idle, AnonStages, BizStages
  <1> QED
    BY <1>1, <1>2, <1>3

LEMMA TypeAdmin ==
    ASSUME TypeInv, NEW a \in Apps, CreateApp(a) \/ IssueCode(a)
    PROVE  TypeInv'
  <1>1. CASE CreateApp(a)
    <2>1. PICK m \in AppMaxes, ttl \in AppTtls :
             apps' = Put(apps, a, [max |-> IF m <= 0 THEN 1 ELSE m,
                                   ttl |-> IF ttl <= 0 THEN DefaultTtl ELSE ttl])
      BY <1>1 DEF CreateApp
    <2>2. [max |-> IF m <= 0 THEN 1 ELSE m,
           ttl |-> IF ttl <= 0 THEN DefaultTtl ELSE ttl] \in Application
      BY ServerAssumption DEF Application
    <2>3. IsMap(apps', Apps, Application)
      BY <2>1, <2>2, PutIsMap DEF TypeInv, TypeOK
    <2>4. DOMAIN apps \subseteq DOMAIN apps'  BY <2>1 DEF Put
    <2> QED  BY <1>1, <2>3, <2>4 DEF CreateApp, TypeInv, TypeOK, HandlerOK, registry
  <1>2. CASE IssueCode(a)
    <2>1. PICK p \in Plains, m \in CodeMaxes, ttl \in CodeTtls, now \in Recent :
             codes' = Put(codes, CodeHash(a, p),
                          [max |-> m, expires |-> IF ttl > 0 THEN now + ttl ELSE 0])
      BY <1>2 DEF IssueCode
    <2>2. CodeHash(a, p) \in CodeHashes  BY DEF CodeHash, CodeHashes
    <2>3. [max |-> m, expires |-> IF ttl > 0 THEN now + ttl ELSE 0] \in ActivationCode
      BY ServerAssumption DEF ActivationCode, Recent, Time
    <2>4. IsMap(codes', CodeHashes, ActivationCode)
      BY <2>1, <2>2, <2>3, PutIsMap DEF TypeInv, TypeOK
    <2> QED  BY <1>2, <2>4 DEF IssueCode, TypeInv, TypeOK, HandlerOK, registry
  <1> QED
    BY <1>1, <1>2

LEMMA TypeInit == Init => TypeInv
  BY ServerAssumption DEF Init, TypeInv, TypeOK, HandlerOK, IsMap, Time, Idle,
                          AnonStages, BizStages

LEMMA TypeNext == TypeInv /\ [Next]_vars => TypeInv'
  <1> SUFFICES ASSUME TypeInv, [Next]_vars PROVE TypeInv'
    OBVIOUS
  <1>1. CASE UNCHANGED vars
    BY <1>1 DEF vars, TypeInv, TypeOK, HandlerOK
  <1>2. CASE Tick \/ Prune \/ Crash
    BY <1>2, TypeEnvironment
  <1>3. ASSUME NEW a \in Apps, CreateApp(a) \/ IssueCode(a) PROVE TypeInv'
    BY <1>3, TypeAdmin
  <1>4. ASSUME NEW t \in Threads, Handle(t) PROVE TypeInv'
    BY <1>4, TypeGate, TypeLoadKey, TypeValidate, TypeGateCode, TypeRefuseTx, TypeUnserved,
       TypeActivate, TypeKickout, TypeRecordFailure, TypeClearIp, TypeClearCode, TypeDecrypt,
       TypeBizReplay, TypeBizRefuse, TypeBizRead, TypeBizRemove, TypeBizRefresh,
       TypeStoreFails DEF Handle
  <1> QED
    BY <1>1, <1>2, <1>3, <1>4 DEF Next

\* Every reachable state has the types TypeOK states, and every handler in
\* flight carries a request of the kind its stage handles.
THEOREM TypeCorrect == Spec => [](TypeOK /\ HandlerOK)
  <1>1. Spec => []TypeInv
    BY TypeInit, TypeNext, PTL DEF Spec
  <1>2. TypeInv => TypeOK /\ HandlerOK
    BY DEF TypeInv
  <1> QED
    BY <1>1, <1>2, PTL

----------------------------------------------------------------------------
(* The registry: devices, licences and keys. *)

RegistryStep(t) == Activate(t) \/ Kickout(t) \/ BizRead(t) \/ BizRemove(t) \/ BizRefresh(t)

LEMMA RegistrySteps ==
    ASSUME [Next]_vars
    PROVE  UNCHANGED registry \/ \E t \in Threads : RegistryStep(t)
  <1>1. CASE UNCHANGED vars
    BY <1>1 DEF vars, registry
  <1>2. CASE Tick \/ Prune \/ Crash
    BY <1>2 DEF Tick, Prune, Crash
  <1>3. ASSUME NEW a \in Apps, CreateApp(a) \/ IssueCode(a) PROVE UNCHANGED registry
    BY <1>3 DEF CreateApp, IssueCode
  <1>4. ASSUME NEW t \in Threads, Handle(t) PROVE UNCHANGED registry \/ RegistryStep(t)
    BY <1>4 DEF Handle, RegistryStep, Gate, LoadKey, Validate, GateCode, RefuseTx, Unserved,
                RecordFailure, ClearIp, ClearCode, Decrypt, BizReplay, BizRefuse, StoreFails
  <1> QED
    BY <1>1, <1>2, <1>3, <1>4 DEF Next

\* What a step of the registry does, device by device.  Everything that is
\* proved of the registry follows from these cases.
Enrolled(d) ==
    /\ d \notin DOMAIN devices
    /\ DOMAIN devices' = DOMAIN devices \cup {d}
    /\ DOMAIN licenses' = DOMAIN licenses \cup {d}
    /\ DOMAIN keys' = DOMAIN keys \cup {d}
    /\ devices'[d].status = "active" /\ licenses'[d].status = "active" /\ keys'[d] = "active"
    /\ \A e \in DOMAIN devices : devices'[e] = devices[e]
    /\ \A e \in DOMAIN licenses \ {d} : licenses'[e] = licenses[e]
    /\ \A e \in DOMAIN keys \ {d} : keys'[e] = keys[e]

SameDomains ==
    /\ DOMAIN devices' = DOMAIN devices
    /\ DOMAIN licenses' = DOMAIN licenses
    /\ DOMAIN keys' = DOMAIN keys

\* The licences and keys outside of D keep their status, those in D lose it,
\* and only devices of D may be marked removed.
Retired(D) ==
    /\ SameDomains
    /\ \A e \in DOMAIN devices :
          /\ devices'[e].status = devices[e].status
                \/ (e \in D /\ devices'[e].status = "removed")
          /\ devices'[e].code = devices[e].code
    /\ \A e \in DOMAIN licenses :
          licenses'[e].status = IF e \in D THEN "revoked" ELSE licenses[e].status
    /\ \A e \in DOMAIN keys : keys'[e] = IF e \in D THEN "destroyed" ELSE keys[e]

LEMMA ActivateEffect ==
    ASSUME TypeInv, NEW t \in Threads, Activate(t)
    PROVE  \E d \in DeviceIds : Enrolled(d)
                                /\ devices'[d].code = CodeHash(h[t].req.app, h[t].req.plain)
  <1> DEFINE r == h[t].req
             now == h[t].now
  <1>1. PICK d \in DeviceIds \ DOMAIN devices :
           /\ devices' = Put(devices, d, [app |-> r.app, code |-> CodeHash(r.app, r.plain),
                                registered |-> now, seen |-> now, status |-> "active"])
           /\ licenses' = Put(licenses, d, [expires |-> now + apps[r.app].ttl,
                                            status |-> "active"])
           /\ keys' = Put(keys, d, "active")
    BY DEF Activate
  <1> QED
    BY <1>1 DEF Enrolled, Put

LEMMA RetireEffect ==
    ASSUME TypeInv, NEW d, Retire(d)
    PROVE  Retired({d})
  BY DEF TypeInv, TypeOK, IsMap, Device, License, Retire, RetiredDevices, RetiredLicenses,
         DestroyedKeys, Retired, SameDomains

LEMMA WriteBackEffect ==
    ASSUME TypeInv, NEW ds, NEW d \in DOMAIN devices, NEW now,
           IsMap(ds, DeviceIds, Device), DOMAIN ds = DOMAIN devices
    PROVE  LET w == WriteBack(ds, d, now) IN
           /\ DOMAIN w = DOMAIN devices
           /\ w[d].status = devices[d].status /\ w[d].code = devices[d].code
           /\ w[d].seen = now
           /\ \A e \in DOMAIN devices \ {d} : w[e] = ds[e]
  <1>1. devices[d] \in Device  BY DEF TypeInv, TypeOK, IsMap
  <1> QED  BY <1>1 DEF WriteBack, Put, Device

LEMMA BizReadEffect ==
    ASSUME TypeInv, NEW t \in Threads, BizRead(t)
    PROVE  Retired({})
  <1> DEFINE r == h[t].req
  <1>1. r.dev \in DOMAIN devices  BY DEF BizRead, BizTx, BizGranted
  <1>2. devices' = WriteBack(devices, r.dev, h[t].now) /\ UNCHANGED <<licenses, keys>>
    BY DEF BizRead
  <1>3. IsMap(devices, DeviceIds, Device)  BY DEF TypeInv, TypeOK
  <1>4. /\ DOMAIN devices' = DOMAIN devices
        /\ devices'[r.dev].status = devices[r.dev].status
        /\ devices'[r.dev].code = devices[r.dev].code
        /\ \A e \in DOMAIN devices \ {r.dev} : devices'[e] = devices[e]
    BY <1>1, <1>2, <1>3, WriteBackEffect
  <1> QED
    BY <1>2, <1>4 DEF Retired, SameDomains

LEMMA BizRemoveEffect ==
    ASSUME TypeInv, NEW t \in Threads, BizRemove(t)
    PROVE  h[t].req.target \in DOMAIN devices /\ Retired({h[t].req.target})
  <1> DEFINE r == h[t].req
             ds == RetiredDevices(devices, r.target)
  <1>1. r.dev \in DOMAIN devices  BY DEF BizRemove, BizTx, BizGranted
  <1>2. r.target \in DOMAIN devices  BY DEF BizRemove, Removable
  <1>3. /\ devices' = WriteBack(ds, r.dev, h[t].now)
        /\ licenses' = RetiredLicenses(licenses, r.target)
        /\ keys' = DestroyedKeys(keys, r.target)
    BY DEF BizRemove
  <1>4. IsMap(ds, DeviceIds, Device) /\ DOMAIN ds = DOMAIN devices
    BY RetireType DEF TypeInv, RetiredDevices
  <1>5. \A e \in DOMAIN devices :
           /\ ds[e].status = IF e = r.target THEN "removed" ELSE devices[e].status
           /\ ds[e].code = devices[e].code
    BY DEF RetiredDevices, TypeInv, TypeOK, IsMap, Device
  <1>6. /\ DOMAIN devices' = DOMAIN devices
        /\ devices'[r.dev].status = devices[r.dev].status
        /\ devices'[r.dev].code = devices[r.dev].code
        /\ \A e \in DOMAIN devices \ {r.dev} : devices'[e] = ds[e]
    BY <1>1, <1>3, <1>4, WriteBackEffect
  <1>7. /\ \A e \in DOMAIN licenses :
              licenses'[e].status = IF e = r.target THEN "revoked" ELSE licenses[e].status
        /\ \A e \in DOMAIN keys : keys'[e] = IF e = r.target THEN "destroyed" ELSE keys[e]
        /\ DOMAIN licenses' = DOMAIN licenses /\ DOMAIN keys' = DOMAIN keys
    <2>1. /\ \A e \in DOMAIN licenses :
                licenses'[e].status = IF e = r.target THEN "revoked" ELSE licenses[e].status
          /\ DOMAIN licenses' = DOMAIN licenses
      BY <1>3 DEF RetiredLicenses, TypeInv, TypeOK, IsMap, License
    <2>2. /\ \A e \in DOMAIN keys : keys'[e] = IF e = r.target THEN "destroyed" ELSE keys[e]
          /\ DOMAIN keys' = DOMAIN keys
      <3>1. keys' = [keys EXCEPT ![r.target] = "destroyed"]  BY <1>3, Zenon DEF DestroyedKeys
      <3> HIDE DEF r
      <3> QED  BY <3>1, Zenon
    <2> QED  BY <2>1, <2>2
  <1> QED
    BY <1>2, <1>5, <1>6, <1>7 DEF Retired, SameDomains

LEMMA BizRefreshEffect ==
    ASSUME TypeInv, NEW t \in Threads, BizRefresh(t)
    PROVE  Retired({})
  <1> DEFINE r == h[t].req
  <1>1. r.dev \in DOMAIN devices /\ r.lic \in DOMAIN licenses
        /\ licenses[r.lic].status # "revoked"
    BY DEF BizRefresh, BizTx, BizGranted, LicenseStands
  <1>2. /\ devices' = WriteBack(devices, r.dev, h[t].now) /\ UNCHANGED keys
        /\ licenses' = Put(licenses, r.lic, [expires |-> h[t].now + h[t].ttl,
                                             status |-> "active"])
    BY DEF BizRefresh
  <1>3. IsMap(devices, DeviceIds, Device) /\ licenses[r.lic].status = "active"
    BY <1>1 DEF TypeInv, TypeOK, IsMap, License
  <1>4. /\ DOMAIN devices' = DOMAIN devices
        /\ devices'[r.dev].status = devices[r.dev].status
        /\ devices'[r.dev].code = devices[r.dev].code
        /\ \A e \in DOMAIN devices \ {r.dev} : devices'[e] = devices[e]
    BY <1>1, <1>2, <1>3, WriteBackEffect
  <1>5. /\ DOMAIN licenses' = DOMAIN licenses
        /\ \A e \in DOMAIN licenses : licenses'[e].status = licenses[e].status
    BY <1>1, <1>2, <1>3 DEF Put
  <1> QED
    BY <1>2, <1>4, <1>5 DEF Retired, SameDomains

\* Every step enrols one new device, or retires at most one.
LEMMA RegistryEffect ==
    ASSUME TypeInv, [Next]_vars
    PROVE  \/ UNCHANGED registry
           \/ \E d : Enrolled(d)
           \/ \E D : Retired(D)
  <1>1. ASSUME NEW t \in Threads, RegistryStep(t)
        PROVE  (\E d : Enrolled(d)) \/ (\E D : Retired(D))
    <2>1. CASE Activate(t)  BY <2>1, ActivateEffect
    <2>2. CASE Kickout(t)   BY <2>2, RetireEffect DEF Kickout
    <2>3. CASE BizRead(t)   BY <2>3, BizReadEffect
    <2>4. CASE BizRemove(t)  BY <2>4, BizRemoveEffect
    <2>5. CASE BizRefresh(t)  BY <2>5, BizRefreshEffect
    <2> QED  BY <1>1, <2>1, <2>2, <2>3, <2>4, <2>5 DEF RegistryStep
  <1> QED
    BY <1>1, RegistrySteps

LEMMA KeyStep ==
    ASSUME TypeInv, KeyFollowsLicense, [Next]_vars
    PROVE  KeyFollowsLicense'
  <1>1. CASE UNCHANGED registry
    BY <1>1 DEF registry, KeyFollowsLicense
  <1>2. ASSUME NEW d, Enrolled(d) PROVE KeyFollowsLicense'
    BY <1>2 DEF Enrolled, KeyFollowsLicense
  <1>3. ASSUME NEW D, Retired(D) PROVE KeyFollowsLicense'
    BY <1>3 DEF Retired, SameDomains, KeyFollowsLicense
  <1> QED
    BY <1>1, <1>2, <1>3, RegistryEffect

LEMMA KeyInit == Init => KeyFollowsLicense
  BY DEF Init, KeyFollowsLicense

\* In every reachable state a device's key is usable exactly while its
\* licence stands, and a removed device has neither.
THEOREM KeysFollowLicenses == Spec => []KeyFollowsLicense
  BY TypeInit, TypeNext, KeyInit, KeyStep, PTL DEF Spec

\* No step of the server revives a licence, a key or a device.
THEOREM RevocationsAreFinal == Spec => RevocationIsFinal
  <1> DEFINE Final == \A d \in DOMAIN devices :
                /\ licenses[d].status = "revoked" => licenses'[d].status = "revoked"
                /\ keys[d] = "destroyed" => keys'[d] = "destroyed"
                /\ devices[d].status = "removed" => devices'[d].status = "removed"
  <1>1. ASSUME TypeInv, KeyFollowsLicense, [Next]_vars
        PROVE  [Final]_vars
    <2>1. CASE UNCHANGED registry
      BY <2>1 DEF registry
    <2>2. ASSUME NEW d, Enrolled(d) PROVE Final
      BY <1>1, <2>2 DEF Enrolled, KeyFollowsLicense
    <2>3. ASSUME NEW D, Retired(D) PROVE Final
      BY <1>1, <2>3 DEF Retired, SameDomains, KeyFollowsLicense
    <2> QED
      BY <1>1, <2>1, <2>2, <2>3, RegistryEffect
  <1> QED
    BY <1>1, TypeInit, TypeNext, KeyInit, KeyStep, PTL DEF Spec, RevocationIsFinal

----------------------------------------------------------------------------
(* Replay. *)

\* A captured clock value is recent for as long as a transaction may use it.
InFlightFresh ==
    \A t \in Threads : h[t].pc \in {"gateCode", "tx", "bizTx"} =>
        h[t].now <= clock /\ clock <= h[t].now + MaxStall

\* Each execution lies in the past and is remembered until NonceTTL later:
\* by the nonce record, or by the clock having moved on.
Remembered ==
    \A r \in Requests : \A i \in 1..Len(ran[r]) :
        /\ ran[r][i] <= clock
        /\ \/ ran[r][i] + NonceTTL <= clock
           \/ /\ NonceKey(r) \in DOMAIN nonces
              /\ ran[r][i] + NonceTTL <= nonces[NonceKey(r)]

ReplayInv == TypeInv /\ InFlightFresh /\ Remembered /\ ReplayGap

\* The ways in which a step can touch the nonces and the history: it claims a
\* nonce for a handler whose clock value is fresh, with or without carrying
\* the request out; it prunes; or it leaves both alone.
Claims(r, now) ==
    /\ now \in Time /\ r \in Requests /\ NonceKey(r) \in Apps \X Nonces
    /\ now <= clock /\ clock <= now + MaxStall
    /\ Claimable(nonces, NonceKey(r), now)
    /\ nonces' = ClaimNonce(nonces, NonceKey(r), now, NonceTTL)
    /\ clock' = clock

Prunes ==
    /\ \E now \in Recent : nonces' = PruneNonces(nonces, now)
    /\ UNCHANGED <<clock, ran>>

LEMMA NonceSteps ==
    ASSUME TypeInv, InFlightFresh, [Next]_vars
    PROVE  \/ UNCHANGED <<nonces, ran>> /\ clock' \in Nat /\ clock <= clock'
           \/ Prunes
           \/ \E r \in Requests, now \in Time :
                 /\ Claims(r, now)
                 /\ ran' = ran \/ ran' = [ran EXCEPT ![r] = Append(@, now)]
  <1>0. clock \in Nat /\ clock <= clock  BY ServerAssumption DEF TypeInv, TypeOK, Time
  <1>1. CASE UNCHANGED vars
    BY <1>0, <1>1 DEF vars
  <1>2. CASE Tick
    BY <1>0, <1>2 DEF Tick
  <1>3. CASE Prune
    BY <1>3 DEF Prune, Prunes
  <1>4. CASE Crash
    BY <1>0, <1>4 DEF Crash
  <1>5. ASSUME NEW a \in Apps, CreateApp(a) \/ IssueCode(a)
        PROVE  UNCHANGED <<nonces, ran, clock>>
    BY <1>5 DEF CreateApp, IssueCode
  <1>6. ASSUME NEW t \in Threads, Handle(t)
        PROVE  \/ UNCHANGED <<nonces, ran, clock>>
               \/ \E r \in Requests, now \in Time :
                     /\ Claims(r, now)
                     /\ ran' = ran \/ ran' = [ran EXCEPT ![r] = Append(@, now)]
    <2> DEFINE r == h[t].req
               now == h[t].now
    <2>1. CASE \/ \E q \in Requests : Gate(t, q) \/ LoadKey(t, q)
               \/ Validate(t) \/ GateCode(t) \/ RefuseTx(t) \/ Unserved(t)
               \/ RecordFailure(t) \/ ClearIp(t) \/ ClearCode(t)
               \/ Decrypt(t) \/ BizReplay(t) \/ StoreFails(t)
      BY <2>1 DEF Gate, LoadKey, Validate, GateCode, RefuseTx, Unserved, RecordFailure,
                  ClearIp, ClearCode, Decrypt, BizReplay, StoreFails
    <2>2. CASE Activate(t) \/ Kickout(t)
      <3>1. h[t].pc = "tx" /\ h[t].pc \in AnonStages
        BY <2>2 DEF Activate, Kickout, AnonStages
      <3>2. r \in Requests /\ r.kind \in AnonKinds /\ now \in Time  BY <3>1, AnonHandler
      <3>3. NonceKey(r) \in Apps \X Nonces  BY <3>2, AnonRequest
      <3>4. now <= clock /\ clock <= now + MaxStall  BY <3>1 DEF InFlightFresh
      <3>5. /\ Claimable(nonces, NonceKey(r), now)
            /\ nonces' = ClaimNonce(nonces, NonceKey(r), now, NonceTTL)
            /\ clock' = clock /\ ran' = [ran EXCEPT ![r] = Append(@, now)]
        BY <2>2 DEF Activate, Kickout, Admissible
      <3> QED  BY <3>2, <3>3, <3>4, <3>5 DEF Claims
    <2>3. CASE BizRefuse(t) \/ BizRead(t) \/ BizRemove(t) \/ BizRefresh(t)
      <3>1. h[t].pc = "bizTx" /\ h[t].pc \in BizStages
        BY <2>3 DEF BizRefuse, BizRead, BizRemove, BizRefresh, BizStages
      <3>2. r \in Requests /\ r.kind \in BizKinds /\ now \in Time  BY <3>1, BizHandler
      <3>3. NonceKey(r) \in Apps \X Nonces  BY <3>2, BizRequestType
      <3>4. now <= clock /\ clock <= now + MaxStall  BY <3>1 DEF InFlightFresh
      <3>5. /\ Claimable(nonces, NonceKey(r), now)
            /\ nonces' = ClaimNonce(nonces, NonceKey(r), now, NonceTTL)
            /\ clock' = clock
            /\ ran' = ran \/ ran' = [ran EXCEPT ![r] = Append(@, now)]
        BY <2>3 DEF BizRefuse, BizRead, BizRemove, BizRefresh, BizTx
      <3> QED  BY <3>2, <3>3, <3>4, <3>5 DEF Claims
    <2> QED
      BY <1>6, <2>1, <2>2, <2>3 DEF Handle
  <1> QED
    BY <1>0, <1>1, <1>2, <1>3, <1>4, <1>5, <1>6 DEF Next

\* A nonce that is claimed was not in force: an earlier execution under it
\* lapsed at or before now, up to the age of now itself.
LEMMA ClaimedIsLapsed ==
    ASSUME ReplayInv, NEW r \in Requests, NEW now \in Time, Claims(r, now),
           NEW q \in Requests, NonceKey(q) = NonceKey(r), NEW i \in 1..Len(ran[q])
    PROVE  ran[q][i] + NonceTTL <= now + MaxStall
  <1>1. ran[q][i] \in Nat /\ clock \in Nat /\ now \in Nat /\ MaxStall \in Nat /\ NonceTTL \in Nat
    BY ServerAssumption DEF ReplayInv, TypeInv, TypeOK, Time
  <1>2. CASE ran[q][i] + NonceTTL <= clock
    BY <1>1, <1>2 DEF Claims
  <1>3. CASE /\ NonceKey(q) \in DOMAIN nonces
             /\ ran[q][i] + NonceTTL <= nonces[NonceKey(q)]
    <2>1. nonces[NonceKey(q)] \in Nat  BY <1>3 DEF ReplayInv, TypeInv, TypeOK, IsMap
    <2>2. nonces[NonceKey(q)] <= now  BY <1>1, <1>3, <2>1 DEF Claims, Claimable
    <2> QED  BY <1>1, <1>3, <2>1, <2>2
  <1> QED
    BY <1>2, <1>3 DEF ReplayInv, Remembered

\* A handler's step moves that handler only, and takes no time.
LEMMA HandleFrame ==
    ASSUME TypeInv, NEW t \in Threads, Handle(t)
    PROVE  clock' = clock /\ \A u \in Threads \ {t} : h'[u] = h[u]
  <1>1. h \in [Threads -> {Idle} \cup Handler]  BY DEF TypeInv, TypeOK
  <1>2. CASE \E r \in Requests : Gate(t, r) \/ LoadKey(t, r)
    BY <1>1, <1>2 DEF Gate, LoadKey, Enter
  <1>3. CASE Validate(t) \/ GateCode(t) \/ RefuseTx(t) \/ Unserved(t) \/ Decrypt(t)
    BY <1>1, <1>3 DEF Validate, GateCode, RefuseTx, Unserved, Decrypt, Charge, Finish, Goto
  <1>4. CASE Activate(t) \/ Kickout(t)
    BY <1>1, <1>4 DEF Activate, Kickout, AfterCommit, Finish
  <1>5. CASE RecordFailure(t) \/ ClearIp(t) \/ ClearCode(t) \/ StoreFails(t)
    BY <1>1, <1>5 DEF RecordFailure, ClearIp, ClearCode, StoreFails, Charge, Finish, Goto
  <1>6. CASE \/ BizReplay(t) \/ BizRefuse(t) \/ BizRead(t) \/ BizRemove(t) \/ BizRefresh(t)
    BY <1>1, <1>6 DEF BizReplay, BizRefuse, BizRead, BizRemove, BizRefresh, BizTx, Finish
  <1> QED
    BY <1>2, <1>3, <1>4, <1>5, <1>6 DEF Handle

LEMMA FreshStep ==
    ASSUME TypeInv, InFlightFresh, [Next]_vars
    PROVE  InFlightFresh'
  <1>0. clock \in Nat /\ MaxStall \in Nat /\ \A t \in Threads : h[t] \in {Idle} \cup Handler
    BY ServerAssumption DEF TypeInv, TypeOK, Time
  <1>1. CASE UNCHANGED vars
    BY <1>1 DEF vars, InFlightFresh
  <1>2. CASE Tick
    <2>1. ASSUME NEW t \in Threads, h'[t].pc \in {"gateCode", "tx", "bizTx"}
          PROVE  h'[t].now <= clock' /\ clock' <= h'[t].now + MaxStall
      <3>1. h[t].pc \in {"gateCode", "tx", "bizTx"} /\ h'[t] = h[t] /\ clock' = clock + 1
        BY <1>2, <2>1 DEF Tick
      <3>2. h[t].now \in Nat  BY <3>1, HandlerInFlight DEF TypeInv, Stages
      <3>3. h[t].now <= clock /\ clock + 1 <= h[t].now + MaxStall
        BY <1>2, <3>1 DEF Tick, InFlightFresh
      <3> QED  BY <1>0, <3>1, <3>2, <3>3
    <2> QED  BY <2>1 DEF InFlightFresh
  <1>3. CASE Crash
    BY <1>3 DEF Crash, Idle, InFlightFresh
  <1>4. CASE Prune
    BY <1>4 DEF Prune, InFlightFresh
  <1>5. ASSUME NEW a \in Apps, CreateApp(a) \/ IssueCode(a)
        PROVE  InFlightFresh'
    BY <1>5 DEF CreateApp, IssueCode, InFlightFresh
  <1>6. ASSUME NEW t \in Threads, Handle(t) PROVE InFlightFresh'
    <2>1. clock' = clock /\ \A u \in Threads \ {t} : h'[u] = h[u]
      BY <1>6, HandleFrame
    <2>2. \/ h'[t].pc \notin {"gateCode", "tx", "bizTx"}
          \/ h'[t].now = clock
          \/ h[t].pc = "gateCode" /\ h'[t].now = h[t].now
      <3>1. h \in [Threads -> {Idle} \cup Handler]  BY DEF TypeInv, TypeOK
      <3>2. CASE \E r \in Requests : Gate(t, r) \/ LoadKey(t, r)
        BY <3>1, <3>2 DEF Gate, LoadKey, Enter
      <3>3. CASE Validate(t)
        <4>1. h[t] \in Handler  BY <3>3, HandlerInFlight DEF Validate, Stages, TypeInv
        <4> QED  BY <3>1, <3>3, <4>1 DEF Validate, Charge, Handler
      <3>4. CASE GateCode(t)
        <4>1. h[t] \in Handler  BY <3>4, HandlerInFlight DEF GateCode, Stages, TypeInv
        <4> QED  BY <3>1, <3>4, <4>1 DEF GateCode, Finish, Goto, Idle, Handler
      <3>5. CASE RefuseTx(t)
        <4>1. h[t] \in Handler  BY <3>5, HandlerInFlight DEF RefuseTx, Stages, TypeInv
        <4> QED  BY <3>1, <3>5, <4>1 DEF RefuseTx, Charge, Handler
      <3>6. CASE Activate(t) \/ Kickout(t)
        <4>1. h[t] \in Handler  BY <3>6, HandlerInFlight DEF Activate, Kickout, Stages, TypeInv
        <4> QED  BY <3>1, <3>6, <4>1 DEF Activate, Kickout, AfterCommit, Finish, Idle, Handler
      <3>7. CASE RecordFailure(t)
        <4>1. h[t] \in Handler  BY <3>7, HandlerInFlight DEF RecordFailure, Stages, TypeInv
        <4> QED  BY <3>1, <3>7, <4>1 DEF RecordFailure, Finish, Charge, Idle, Handler
      <3>8. CASE ClearIp(t)
        <4>1. h[t] \in Handler  BY <3>8, HandlerInFlight DEF ClearIp, Stages, TypeInv
        <4> QED  BY <3>1, <3>8, <4>1 DEF ClearIp, Goto, Handler
      <3>9. CASE Decrypt(t)
        <4>1. h[t] \in Handler  BY <3>9, HandlerInFlight DEF Decrypt, Stages, TypeInv
        <4> QED  BY <3>1, <3>9, <4>1 DEF Decrypt, Handler
      <3>10. CASE StoreFails(t)
        <4>1. h[t] \in Handler  BY <3>10, HandlerInFlight DEF StoreFails, Stages, TypeInv
        <4> QED  BY <3>1, <3>10, <4>1 DEF StoreFails, Finish, Goto, Charge, Idle, Handler
      <3>11. CASE \/ Unserved(t) \/ ClearCode(t) \/ BizReplay(t) \/ BizRefuse(t)
                  \/ BizRead(t) \/ BizRemove(t) \/ BizRefresh(t)
        BY <3>1, <3>11 DEF Unserved, ClearCode, BizReplay, BizRefuse, BizRead, BizRemove,
                           BizRefresh, BizTx, Finish, Idle
      <3> QED
        BY <1>6, <3>2, <3>3, <3>4, <3>5, <3>6, <3>7, <3>8, <3>9, <3>10, <3>11 DEF Handle
    <2> QED
      BY <1>0, <2>1, <2>2 DEF InFlightFresh
  <1> QED
    BY <1>1, <1>2, <1>3, <1>4, <1>5, <1>6 DEF Next

LEMMA ReplayStep ==
    ASSUME ReplayInv, [Next]_vars
    PROVE  Remembered' /\ ReplayGap'
  <1>0. /\ clock \in Nat /\ MaxStall \in Nat /\ NonceTTL \in Nat
        /\ ran \in [Requests -> Seq(Nat)]
        /\ nonces \in [DOMAIN nonces -> Nat]
    BY ServerAssumption DEF ReplayInv, TypeInv, TypeOK, IsMap, Time
  <1>1. CASE UNCHANGED <<nonces, ran>> /\ clock' \in Nat /\ clock <= clock'
    <2>1. Remembered'
      BY <1>0, <1>1 DEF ReplayInv, Remembered
    <2> QED  BY <1>1, <2>1 DEF ReplayInv, ReplayGap
  <1>2. CASE Prunes
    <2>1. PICK now \in Recent : nonces' = PruneNonces(nonces, now)  BY <1>2 DEF Prunes
    <2>2. now \in Nat /\ now <= clock  BY DEF Recent, Time
    <2>3. ran' = ran /\ clock' = clock  BY <1>2 DEF Prunes
    <2>4. ASSUME NEW r \in Requests, NEW i \in 1..Len(ran[r])
          PROVE  /\ ran[r][i] <= clock
                 /\ \/ ran[r][i] + NonceTTL <= clock
                    \/ /\ NonceKey(r) \in DOMAIN nonces'
                       /\ ran[r][i] + NonceTTL <= nonces'[NonceKey(r)]
      <3> DEFINE k == NonceKey(r)
      <3>1. ran[r][i] \in Nat  BY <1>0
      <3>2. CASE ran[r][i] + NonceTTL <= clock
        BY <3>2, <2>4 DEF ReplayInv, Remembered
      <3>3. CASE k \in DOMAIN nonces /\ ran[r][i] + NonceTTL <= nonces[k]
        <4>1. nonces[k] \in Nat  BY <1>0, <3>3
        <4>2. CASE nonces[k] <= now
          BY <1>0, <2>2, <2>4, <3>1, <3>3, <4>1, <4>2 DEF ReplayInv, Remembered
        <4>3. CASE ~ (nonces[k] <= now)
          <5>1. k \in DOMAIN nonces' /\ nonces'[k] = nonces[k]
            BY <2>1, <3>3, <4>3 DEF PruneNonces, Delete
          <5> QED  BY <2>4, <3>3, <5>1 DEF ReplayInv, Remembered
        <4> QED  BY <4>2, <4>3
      <3> QED  BY <2>4, <3>2, <3>3 DEF ReplayInv, Remembered
    <2>5. Remembered'  BY <2>3, <2>4 DEF Remembered
    <2> QED  BY <2>3, <2>5 DEF ReplayInv, ReplayGap
  <1>3. ASSUME NEW r \in Requests, NEW now \in Time, Claims(r, now),
               ran' = ran \/ ran' = [ran EXCEPT ![r] = Append(@, now)]
        PROVE  Remembered' /\ ReplayGap'
    <2> DEFINE k == NonceKey(r)
    <2>1. /\ now \in Nat /\ now <= clock /\ clock <= now + MaxStall /\ clock' = clock
          /\ k \in DOMAIN nonces' /\ nonces'[k] = now + NonceTTL
          /\ \A j \in DOMAIN nonces : j # k => j \in DOMAIN nonces' /\ nonces'[j] = nonces[j]
      BY <1>3 DEF Claims, ClaimNonce, Put, Time
    \* What was remembered stays so: a nonce is overwritten only once lapsed.
    <2>2. ASSUME NEW q \in Requests, NEW i \in 1..Len(ran[q])
          PROVE  /\ ran[q][i] <= clock
                 /\ \/ ran[q][i] + NonceTTL <= clock
                    \/ /\ NonceKey(q) \in DOMAIN nonces'
                       /\ ran[q][i] + NonceTTL <= nonces'[NonceKey(q)]
      <3>1. /\ ran[q][i] <= clock
            /\ \/ ran[q][i] + NonceTTL <= clock
               \/ /\ NonceKey(q) \in DOMAIN nonces
                  /\ ran[q][i] + NonceTTL <= nonces[NonceKey(q)]
        BY <2>2 DEF ReplayInv, Remembered
      <3>2. CASE NonceKey(q) = k /\ k \in DOMAIN nonces
                 /\ ran[q][i] + NonceTTL <= nonces[k]
        <4>1. nonces[k] \in Nat /\ nonces[k] <= now
          BY <1>0, <1>3, <2>1, <3>2 DEF Claims, Claimable
        <4>2. ran[q][i] \in Nat  BY <1>0
        <4> QED  BY <1>0, <2>1, <3>1, <3>2, <4>1, <4>2
      <3> QED  BY <2>1, <3>1, <3>2
    <2>3. CASE ran' = ran
      BY <2>1, <2>2, <2>3 DEF Remembered, ReplayGap, ReplayInv
    <2>4. CASE ran' = [ran EXCEPT ![r] = Append(@, now)]
      <3>1. /\ Len(ran'[r]) = Len(ran[r]) + 1
            /\ ran'[r][Len(ran[r]) + 1] = now
            /\ \A i \in 1..Len(ran[r]) : ran'[r][i] = ran[r][i]
            /\ \A q \in Requests \ {r} : ran'[q] = ran[q]
            /\ Len(ran[r]) \in Nat
        BY <1>0, <2>4
      <3>2. Remembered'
        <4>1. ASSUME NEW q \in Requests, NEW i \in 1..Len(ran'[q])
              PROVE  /\ ran'[q][i] <= clock'
                     /\ \/ ran'[q][i] + NonceTTL <= clock'
                        \/ /\ NonceKey(q) \in DOMAIN nonces'
                           /\ ran'[q][i] + NonceTTL <= nonces'[NonceKey(q)]
          <5>1. CASE q = r /\ i = Len(ran[r]) + 1
            <6>1. ran'[q][i] = now /\ NonceKey(q) = k  BY <3>1, <5>1
            <6>2. now + NonceTTL \in Nat  BY <1>0, <2>1
            <6> QED  BY <1>0, <2>1, <6>1, <6>2
          <5>2. CASE ~ (q = r /\ i = Len(ran[r]) + 1)
            <6>1. i \in 1..Len(ran[q]) /\ ran'[q][i] = ran[q][i]  BY <3>1, <4>1, <5>2
            <6> QED  BY <2>1, <2>2, <6>1
          <5> QED  BY <5>1, <5>2
        <4> QED  BY <4>1 DEF Remembered
      <3>3. ASSUME NEW q \in Requests, NEW i \in 1..Len(ran'[q]), NEW j \in 1..Len(ran'[q]),
                   i < j
            PROVE  ran'[q][i] + NonceTTL <= ran'[q][j] + MaxStall
        <4>1. CASE q = r /\ j = Len(ran[r]) + 1
          <5>1. i \in 1..Len(ran[r]) /\ ran'[q][i] = ran[r][i] /\ ran'[q][j] = now
            BY <3>1, <3>3, <4>1
          <5> QED  BY <1>3, <5>1, ClaimedIsLapsed
        <4>2. CASE ~ (q = r /\ j = Len(ran[r]) + 1)
          <5>1. /\ i \in 1..Len(ran[q]) /\ j \in 1..Len(ran[q])
                /\ ran'[q][i] = ran[q][i] /\ ran'[q][j] = ran[q][j]
            BY <3>1, <3>3, <4>2
          <5> QED  BY <3>3, <5>1 DEF ReplayInv, ReplayGap
        <4> QED  BY <4>1, <4>2
      <3> QED  BY <3>2, <3>3 DEF ReplayGap
    <2> QED
      BY <1>3, <2>3, <2>4
  <1> QED
    BY <1>1, <1>2, <1>3, NonceSteps DEF ReplayInv

LEMMA ReplayInit == Init => InFlightFresh /\ Remembered /\ ReplayGap
  BY DEF Init, InFlightFresh, Remembered, ReplayGap, Idle

LEMMA ReplayInductive == Spec => []ReplayInv
  <1>1. Init => ReplayInv
    BY TypeInit, ReplayInit DEF ReplayInv
  <1>2. ReplayInv /\ [Next]_vars => ReplayInv'
    BY TypeNext, FreshStep, ReplayStep DEF ReplayInv
  <1> QED
    BY <1>1, <1>2, PTL DEF Spec

\* For any durations, and however the pruner and the handlers interleave, two
\* executions of one request lie at least NonceTTL - MaxStall apart.
THEOREM ReplaysAreSpaced == Spec => []ReplayGap
  <1>1. ReplayInv => ReplayGap
    BY DEF ReplayInv
  <1> QED
    BY <1>1, ReplayInductive, PTL

\* Executions happen within the window of their timestamp.
Timely ==
    /\ \A t \in Threads : h[t].pc \in {"gateCode", "tx"} => InWindow(h[t].req.ts, h[t].now)
    /\ \A r \in Requests : \A i \in 1..Len(ran[r]) : InWindow(r.ts, ran[r][i])

LEMMA TimelyHandlers ==
    ASSUME TypeInv, Timely, [Next]_vars
    PROVE  \A t \in Threads :
               h'[t].pc \in {"gateCode", "tx"} => InWindow(h'[t].req.ts, h'[t].now)
  <1>0. h \in [Threads -> {Idle} \cup Handler]  BY DEF TypeInv, TypeOK
  <1>1. CASE UNCHANGED h
    BY <1>1 DEF Timely
  <1>2. CASE Crash
    BY <1>2 DEF Crash, Idle
  <1>3. ASSUME NEW t \in Threads, Handle(t), h'[t].pc \in {"gateCode", "tx"}
        PROVE  InWindow(h'[t].req.ts, h'[t].now)
    <2>1. CASE Validate(t)
      <3>1. h[t] \in Handler  BY <2>1, HandlerInFlight DEF Validate, Stages, TypeInv
      <3> QED  BY <1>0, <1>3, <2>1, <3>1 DEF Validate, Charge, Handler
    <2>2. CASE GateCode(t)
      <3>1. h[t] \in Handler  BY <2>2, HandlerInFlight DEF GateCode, Stages, TypeInv
      <3> QED  BY <1>0, <1>3, <2>2, <3>1 DEF GateCode, Finish, Goto, Idle, Handler, Timely
    <2>3. CASE \E r \in Requests : Gate(t, r) \/ LoadKey(t, r)
      BY <1>0, <1>3, <2>3 DEF Gate, LoadKey, Enter
    <2>4. CASE RefuseTx(t) \/ RecordFailure(t) \/ ClearIp(t) \/ ClearCode(t) \/ StoreFails(t)
               \/ Decrypt(t)
      <3>1. h[t].pc \in Stages
        BY <2>4 DEF RefuseTx, RecordFailure, ClearIp, ClearCode, StoreFails, Decrypt, Stages
      <3>2. h[t] \in Handler  BY <3>1, HandlerInFlight DEF TypeInv
      <3> QED  BY <1>0, <1>3, <2>4, <3>2 DEF RefuseTx, RecordFailure, ClearIp, ClearCode,
                  StoreFails, Decrypt, Charge, Finish, Goto, Idle, Handler
    <2>5. CASE Activate(t) \/ Kickout(t)
      <3>1. h[t] \in Handler  BY <2>5, HandlerInFlight DEF Activate, Kickout, Stages, TypeInv
      <3> QED  BY <1>0, <1>3, <2>5, <3>1 DEF Activate, Kickout, AfterCommit, Finish, Idle, Handler
    <2>6. CASE Unserved(t) \/ BizReplay(t) \/ BizRefuse(t) \/ BizRead(t) \/ BizRemove(t)
               \/ BizRefresh(t)
      BY <1>0, <1>3, <2>6 DEF Unserved, BizReplay, BizRefuse, BizRead, BizRemove, BizRefresh,
                              BizTx, Finish, Idle
    <2> QED  BY <1>3, <2>1, <2>2, <2>3, <2>4, <2>5, <2>6 DEF Handle
  <1>4. ASSUME NEW t \in Threads, Handle(t), NEW u \in Threads,
               h'[u].pc \in {"gateCode", "tx"}
        PROVE  InWindow(h'[u].req.ts, h'[u].now)
    BY <1>3, <1>4, HandleFrame DEF Timely
  <1>5. CASE Tick \/ Prune \/ \E a \in Apps : CreateApp(a) \/ IssueCode(a)
    BY <1>1, <1>5 DEF Tick, Prune, CreateApp, IssueCode
  <1> QED
    BY <1>1, <1>2, <1>4, <1>5 DEF Next, vars

LEMMA TimelyRuns ==
    ASSUME TypeInv, Timely, [Next]_vars
    PROVE  \A r \in Requests : \A i \in 1..Len(ran'[r]) : InWindow(r.ts, ran'[r][i])
  <1>0. ran \in [Requests -> Seq(Time)]  BY DEF TypeInv, TypeOK
  <1>1. CASE UNCHANGED ran
    BY <1>1 DEF Timely
  <1>2. ASSUME NEW r \in Requests, NEW now \in Time, InWindow(r.ts, now),
               ran' = [ran EXCEPT ![r] = Append(@, now)],
               NEW q \in Requests, NEW i \in 1..Len(ran'[q])
        PROVE  InWindow(q.ts, ran'[q][i])
    <2>1. CASE q = r /\ i = Len(ran[r]) + 1
      <3>1. ran'[q][i] = now  BY <1>0, <1>2, <2>1
      <3> QED  BY <1>2, <2>1, <3>1
    <2>2. CASE ~ (q = r /\ i = Len(ran[r]) + 1)
      <3>1. i \in 1..Len(ran[q]) /\ ran'[q][i] = ran[q][i]  BY <1>0, <1>2, <2>2
      <3> QED  BY <3>1 DEF Timely
    <2> QED  BY <2>1, <2>2
  <1>3. ASSUME NEW t \in Threads, Activate(t) \/ Kickout(t)
        PROVE  /\ h[t].req \in Requests /\ h[t].now \in Time
               /\ InWindow(h[t].req.ts, h[t].now)
               /\ ran' = [ran EXCEPT ![h[t].req] = Append(@, h[t].now)]
    <2>1. h[t].pc = "tx" /\ h[t].pc \in AnonStages
      BY <1>3 DEF Activate, Kickout, AnonStages
    <2>2. h[t].req \in Requests /\ h[t].now \in Time  BY <2>1, AnonHandler
    <2> QED  BY <1>3, <2>1, <2>2 DEF Activate, Kickout, Timely
  <1>4. ASSUME NEW t \in Threads, BizRead(t) \/ BizRemove(t) \/ BizRefresh(t)
        PROVE  /\ h[t].req \in Requests /\ h[t].now \in Time
               /\ InWindow(h[t].req.ts, h[t].now)
               /\ ran' = [ran EXCEPT ![h[t].req] = Append(@, h[t].now)]
    <2>1. h[t].pc \in BizStages  BY <1>4 DEF BizRead, BizRemove, BizRefresh, BizStages
    <2>2. h[t].req \in Requests /\ h[t].now \in Time  BY <2>1, BizHandler
    <2> QED  BY <1>4, <2>2 DEF BizRead, BizRemove, BizRefresh, BizTx, BizGranted
  <1>5. \/ UNCHANGED ran
        \/ \E t \in Threads : \/ Activate(t) \/ Kickout(t)
                              \/ BizRead(t) \/ BizRemove(t) \/ BizRefresh(t)
    <2>1. CASE UNCHANGED vars  BY <2>1 DEF vars
    <2>2. CASE Tick \/ Prune \/ Crash  BY <2>2 DEF Tick, Prune, Crash
    <2>3. ASSUME NEW a \in Apps, CreateApp(a) \/ IssueCode(a) PROVE UNCHANGED ran
      BY <2>3 DEF CreateApp, IssueCode
    <2>4. ASSUME NEW t \in Threads, Handle(t)
          PROVE  \/ UNCHANGED ran
                 \/ \/ Activate(t) \/ Kickout(t)
                    \/ BizRead(t) \/ BizRemove(t) \/ BizRefresh(t)
      BY <2>4 DEF Handle, Gate, LoadKey, Validate, GateCode, RefuseTx, Unserved,
                  RecordFailure, ClearIp, ClearCode, Decrypt, BizReplay, BizRefuse, StoreFails
    <2> QED  BY <2>1, <2>2, <2>3, <2>4 DEF Next
  <1> QED
    BY <1>1, <1>2, <1>3, <1>4, <1>5

LEMMA TimelyInductive == Spec => [](ReplayInv /\ Timely)
  <1>1. Init => Timely
    BY DEF Init, Timely, Idle
  <1>2. ReplayInv /\ Timely /\ [Next]_vars => Timely'
    BY TimelyHandlers, TimelyRuns DEF ReplayInv, Timely
  <1> QED
    BY <1>1, <1>2, ReplayInductive, PTL DEF Spec

\* A request that is carried out again was stamped ahead of the clock when it
\* was carried out before: by TSWindow, less the stall, with the durations of the
\* code, and by NonceTTL - TSWindow - MaxStall with any others.
THEOREM RepeatsAreAhead == Spec => []RepeatedIsAhead
  <1>1. ReplayInv /\ Timely => RepeatedIsAhead
    <2> SUFFICES ASSUME ReplayInv, Timely, NEW r \in Requests,
                        NEW i \in 1..Len(ran[r]), NEW j \in 1..Len(ran[r]), i < j
                 PROVE  ran[r][i] + NonceTTL <= r.ts + TSWindow + MaxStall
      BY DEF RepeatedIsAhead
    <2>1. TSWindow \in Nat /\ NonceTTL \in Nat /\ MaxStall \in Nat
      BY ServerAssumption
    <2>2. ran[r][i] \in Nat /\ ran[r][j] \in Nat
      <3>1. ran[r] \in Seq(Time)  BY DEF ReplayInv, TypeInv, TypeOK
      <3>2. ran[r][i] \in Time /\ ran[r][j] \in Time  BY <3>1
      <3> QED  BY <3>2 DEF Time
    <2>3. r.ts \in Nat
      <3>1. CASE r.kind \in AnonKinds  BY <3>1, AnonRequest
      <3>2. CASE r.kind \in BizKinds  BY <3>2, BizRequestType
      <3> QED  BY <3>1, <3>2, RequestKinds
    <2>4. ran[r][i] + NonceTTL <= ran[r][j] + MaxStall
      BY DEF ReplayInv, ReplayGap
    <2>5. ran[r][j] - r.ts <= TSWindow
      BY DEF Timely, InWindow
    <2> DEFINE a == ran[r][i]
               b == ran[r][j]
    <2>6. a \in Nat /\ b \in Nat /\ a + NonceTTL <= b + MaxStall /\ b - r.ts <= TSWindow
      BY <2>2, <2>4, <2>5
    <2> HIDE DEF a, b
    <2>7. a + NonceTTL <= r.ts + TSWindow + MaxStall
      BY <2>1, <2>3, <2>6
    <2> QED
      BY <2>7 DEF a
  <1> QED
    BY <1>1, TimelyInductive, PTL

\* How far repeated executions have moved on since the first one.
Gap == NonceTTL - MaxStall

Spread ==
    \A r \in Requests : \A i \in 1..Len(ran[r]) : ran[r][1] + (i - 1) * Gap <= ran[r][i]

LEMMA OneGapMore ==
    ASSUME NEW n \in Int, NEW g \in Int
    PROVE  n * g \in Int /\ n * g = (n - 1) * g + g
  OBVIOUS

LEMMA SpreadStep ==
    ASSUME ReplayInv, ReplayInv', Spread, [Next]_vars
    PROVE  Spread'
  <1>0. /\ NonceTTL \in Nat /\ MaxStall \in Nat /\ Gap \in Int
        /\ ran \in [Requests -> Seq(Nat)] /\ ran' \in [Requests -> Seq(Nat)]
    BY ServerAssumption DEF ReplayInv, TypeInv, TypeOK, Time, Gap
  <1>1. CASE ran' = ran
    BY <1>1 DEF Spread, Gap
  <1>2. ASSUME NEW r \in Requests, NEW now \in Time, ran' = [ran EXCEPT ![r] = Append(@, now)]
        PROVE  Spread'
    <2>1. /\ Len(ran'[r]) = Len(ran[r]) + 1 /\ Len(ran[r]) \in Nat
          /\ \A i \in 1..Len(ran[r]) : ran'[r][i] = ran[r][i]
          /\ \A q \in Requests \ {r} : ran'[q] = ran[q]
      BY <1>0, <1>2
    <2>2. ASSUME NEW q \in Requests, NEW i \in 1..Len(ran'[q])
          PROVE  ran'[q][1] + (i - 1) * Gap <= ran'[q][i]
      <3> DEFINE k == Len(ran[r])
      <3>1. CASE q # r \/ i # k + 1
        <4>1. i \in 1..Len(ran[q]) /\ ran'[q][i] = ran[q][i] /\ ran'[q][1] = ran[q][1]
          BY <2>1, <2>2, <3>1
        <4> QED  BY <4>1 DEF Spread
      <3>2. CASE q = r /\ i = k + 1 /\ k = 0
        <4>1. i = 1 /\ ran'[q][1] \in Nat  BY <1>0, <2>2, <3>2
        <4>2. (i - 1) * Gap = 0  BY <1>0, <4>1
        <4> QED  BY <4>1, <4>2
      \* The new execution follows the last one before it by one gap or more.
      <3>3. CASE q = r /\ i = k + 1 /\ k # 0
        <4>1. k \in 1..Len(ran[r]) /\ k \in 1..Len(ran'[r]) /\ i \in 1..Len(ran'[r]) /\ k < i
          BY <2>1, <2>2, <3>3
        <4>2. ran'[r][1] + (k - 1) * Gap <= ran'[r][k]
          BY <2>1, <4>1 DEF Spread
        <4>3. ran'[r][k] + NonceTTL <= ran'[r][i] + MaxStall
          BY <4>1 DEF ReplayInv, ReplayGap
        <4>4. k * Gap \in Int /\ (k - 1) * Gap \in Int /\ k * Gap = (k - 1) * Gap + Gap
          <5>1. k \in Int /\ k - 1 \in Int  BY <2>1
          <5> QED  BY <1>0, <5>1, OneGapMore
        <4>5. ran'[r][1] \in Nat /\ ran'[r][k] \in Nat /\ ran'[r][i] \in Nat
          <5>1. 1 \in 1..Len(ran'[r])  BY <4>1
          <5>2. ran'[r] \in Seq(Nat)  BY <1>0
          <5> QED  BY <4>1, <5>1, <5>2
        <4>6. ran'[r][k] + Gap <= ran'[r][i]
          <5> DEFINE b == ran'[r][k]
                     c == ran'[r][i]
          <5>1. b \in Nat /\ c \in Nat /\ b + NonceTTL <= c + MaxStall  BY <4>3, <4>5
          <5> HIDE DEF b, c
          <5>2. b + Gap <= c  BY <1>0, <5>1 DEF Gap
          <5> QED  BY <5>2 DEF b, c
        <4>7. ran'[r][1] + k * Gap <= ran'[r][i]
          <5> DEFINE a == ran'[r][1]
                     b == ran'[r][k]
                     c == ran'[r][i]
                     m == (k - 1) * Gap
                     n == k * Gap
          <5>1. a \in Nat /\ b \in Nat /\ c \in Nat /\ m \in Int /\ n \in Int /\ n = m + Gap
                /\ a + m <= b /\ b + Gap <= c
            BY <4>2, <4>4, <4>5, <4>6
          <5> HIDE DEF a, b, c, m, n
          <5>2. a + n <= c  BY <1>0, <5>1
          <5> QED  BY <5>2 DEF a, c, n
        <4>8. i - 1 = k  BY <2>1, <3>3
        <4> QED  BY <3>3, <4>7, <4>8
      <3> QED  BY <3>1, <3>2, <3>3
    <2> QED  BY <2>2 DEF Spread, Gap
  <1> QED
    BY <1>1, <1>2, NonceSteps DEF ReplayInv, Prunes

LEMMA SpreadInductive == Spec => []Spread
  <1>1. Init => Spread
    BY DEF Init, Spread
  <1>2. ReplayInv /\ ReplayInv' /\ Spread /\ [Next]_vars => Spread'
    BY SpreadStep
  <1> QED
    BY <1>1, <1>2, ReplayInductive, PTL DEF Spec

\* One request is carried out at most 1 + 2 * TSWindow \div (NonceTTL - MaxStall)
\* times, whatever the durations: with those of the code, twice.
THEOREM RepeatsAreLimited == Spec => []RepeatsLimited
  <1>1. ReplayInv /\ Timely /\ Spread => RepeatsLimited
    <2> SUFFICES ASSUME ReplayInv, Timely, Spread, NEW r \in Requests, ran[r] # <<>>
                 PROVE  (Len(ran[r]) - 1) * Gap <= 2 * TSWindow
      BY DEF RepeatsLimited, Gap
    <2> DEFINE n == Len(ran[r])
               a == ran[r][1]
               b == ran[r][n]
               m == (n - 1) * Gap
    <2>1. TSWindow \in Nat /\ Gap \in Int
      BY ServerAssumption DEF Gap
    <2>2. ran[r] \in Seq(Time)
      BY DEF ReplayInv, TypeInv, TypeOK
    <2>3. n \in Nat \ {0} /\ 1 \in 1..n /\ n \in 1..n
      BY <2>2
    <2>4. a \in Nat /\ b \in Nat /\ m \in Int
      <3>1. a \in Nat /\ b \in Nat
        <4>1. a \in Time /\ b \in Time  BY <2>2, <2>3
        <4> QED  BY <4>1 DEF Time
      <3> QED  BY <2>1, <2>3, <3>1, OneGapMore
    <2>5. a + m <= b
      BY <2>3 DEF Spread
    <2>6. r.ts - a <= TSWindow /\ b - r.ts <= TSWindow
      BY <2>3 DEF Timely, InWindow
    <2>7. r.ts \in Nat
      <3>1. CASE r.kind \in AnonKinds  BY <3>1, AnonRequest
      <3>2. CASE r.kind \in BizKinds  BY <3>2, BizRequestType
      <3> QED  BY <3>1, <3>2, RequestKinds
    <2> HIDE DEF a, b, m
    <2>8. m <= 2 * TSWindow
      BY <2>1, <2>4, <2>5, <2>6, <2>7
    <2> QED
      BY <2>8 DEF m
  <1> QED
    BY <1>1, TimelyInductive, SpreadInductive, PTL


----------------------------------------------------------------------------
(* The limit on the devices of a code. *)

LEMMA ActiveDevicesFinite ==
    ASSUME NEW ds, DOMAIN ds \subseteq DeviceIds, NEW c
    PROVE  /\ IsFiniteSet(ActiveDevicesOfCode(ds, c))
           /\ CountActiveDevices(ds, c) \in Nat
  <1>1. IsFiniteSet(DeviceIds)
    BY MaxDevicesAssumption, FS_Interval DEF DeviceIds
  <1>2. ActiveDevicesOfCode(ds, c) \in SUBSET DeviceIds
    BY DEF ActiveDevicesOfCode
  <1>3. IsFiniteSet(ActiveDevicesOfCode(ds, c))
    BY <1>1, <1>2, FS_Subset
  <1> QED
    BY <1>3, FS_CardinalityType DEF CountActiveDevices

\* No code grows unless a device is enrolled in it, and then by one.
LEMMA CountStep ==
    ASSUME TypeInv, [Next]_vars, NEW c
    PROVE  \/ CountActiveDevices(devices', c) <= CountActiveDevices(devices, c)
           \/ /\ CountActiveDevices(devices', c) = CountActiveDevices(devices, c) + 1
              /\ \E t \in Threads : Activate(t) /\ c = CodeHash(h[t].req.app, h[t].req.plain)
  <1> DEFINE before == ActiveDevicesOfCode(devices, c)
             after == ActiveDevicesOfCode(devices', c)
  <1>0. TypeInv'  BY TypeNext
  <1>1. IsFiniteSet(before) /\ CountActiveDevices(devices, c) \in Nat
    BY ActiveDevicesFinite DEF TypeInv, TypeOK, IsMap
  <1>2. CountActiveDevices(devices', c) \in Nat
    BY <1>0, ActiveDevicesFinite DEF TypeInv, TypeOK, IsMap
  <1>3. ASSUME after \subseteq before
        PROVE  CountActiveDevices(devices', c) <= CountActiveDevices(devices, c)
    BY <1>1, <1>3, FS_Subset DEF CountActiveDevices
  <1>4. CASE UNCHANGED registry
    BY <1>3, <1>4 DEF registry, ActiveDevicesOfCode
  <1>5. ASSUME NEW D, Retired(D)
        PROVE  CountActiveDevices(devices', c) <= CountActiveDevices(devices, c)
    <2>1. after \subseteq before
      BY <1>5 DEF Retired, SameDomains, ActiveDevicesOfCode
    <2> QED  BY <1>3, <2>1
  <1>6. ASSUME NEW t \in Threads, Activate(t)
        PROVE  \/ CountActiveDevices(devices', c) <= CountActiveDevices(devices, c)
               \/ /\ CountActiveDevices(devices', c) = CountActiveDevices(devices, c) + 1
                  /\ c = CodeHash(h[t].req.app, h[t].req.plain)
    <2>1. PICK d \in DeviceIds : Enrolled(d)
                 /\ devices'[d].code = CodeHash(h[t].req.app, h[t].req.plain)
      BY <1>6, ActivateEffect
    <2>2. CASE c = CodeHash(h[t].req.app, h[t].req.plain)
      <3>1. after = before \cup {d} /\ d \notin before
        BY <2>1, <2>2 DEF Enrolled, ActiveDevicesOfCode
      <3>2. Cardinality(after) = Cardinality(before) + 1
        BY <1>1, <3>1, FS_AddElement
      <3> QED  BY <2>2, <3>2 DEF CountActiveDevices
    <2>3. CASE c # CodeHash(h[t].req.app, h[t].req.plain)
      <3>1. after \subseteq before
        BY <2>1, <2>3 DEF Enrolled, ActiveDevicesOfCode
      <3> QED  BY <1>3, <3>1
    <2> QED  BY <2>2, <2>3
  <1>7. ASSUME NEW t \in Threads, RegistryStep(t), ~ Activate(t)
        PROVE  \E D : Retired(D)
    BY <1>7, RetireEffect, BizReadEffect, BizRemoveEffect, BizRefreshEffect
       DEF RegistryStep, Kickout
  <1> QED
    BY <1>4, <1>5, <1>6, <1>7, RegistrySteps

\* However activations, removals and changes of the limit interleave, a code
\* grows only up to the limit in force.
THEOREM QuotasAreRespected == Spec => QuotaRespected
  <1> DEFINE Grows == \A c \in DOMAIN codes :
                CountActiveDevices(devices', c) > CountActiveDevices(devices, c)
                   => CountActiveDevices(devices', c) <= MaxDevicesOf(codes[c], apps[c[1]])
  <1>1. ASSUME TypeInv, [Next]_vars PROVE [Grows]_vars
    <2>1. ASSUME NEW c \in DOMAIN codes,
                 CountActiveDevices(devices', c) > CountActiveDevices(devices, c)
          PROVE  CountActiveDevices(devices', c) <= MaxDevicesOf(codes[c], apps[c[1]])
      <3>1. TypeInv'  BY <1>1, TypeNext
      <3>2. CountActiveDevices(devices, c) \in Nat /\ CountActiveDevices(devices', c) \in Nat
        BY <1>1, <3>1, ActiveDevicesFinite DEF TypeInv, TypeOK, IsMap
      <3>3. CountActiveDevices(devices', c) = CountActiveDevices(devices, c) + 1
            /\ \E t \in Threads : Activate(t) /\ c = CodeHash(h[t].req.app, h[t].req.plain)
        BY <1>1, <2>1, <3>2, CountStep
      <3>4. PICK t \in Threads : Activate(t) /\ c = CodeHash(h[t].req.app, h[t].req.plain)
        BY <3>3
      <3>5. CountActiveDevices(devices, c) < MaxDevicesOf(codes[c], apps[c[1]])
            /\ h[t].req.app \in DOMAIN apps /\ c[1] = h[t].req.app
        BY <3>4 DEF Activate, HasRoom, CodeHash, Admissible
      <3>6. MaxDevicesOf(codes[c], apps[c[1]]) \in Int
        BY <1>1, <3>5 DEF MaxDevicesOf, TypeInv, TypeOK, IsMap, ActivationCode, Application
      <3> HIDE DEF Grows
      <3> QED  BY <3>2, <3>3, <3>5, <3>6
    <2> QED  BY <2>1
  <1> QED
    BY <1>1, TypeInit, TypeNext, PTL DEF Spec, QuotaRespected


----------------------------------------------------------------------------
(* Business requests. *)

LEMMA FreshInductive == Spec => [](TypeInv /\ InFlightFresh)
  <1>1. ReplayInv => TypeInv /\ InFlightFresh  BY DEF ReplayInv
  <1> QED  BY <1>1, ReplayInductive, PTL

\* A business request is carried out by a handler to which it was granted, with
\* a fresh clock value.
LEMMA BizRuns ==
    ASSUME TypeInv, InFlightFresh, [Next]_vars,
           NEW r \in Requests \cap BizRequest, ran'[r] # ran[r]
    PROVE  \E now \in Time : now <= clock /\ clock <= now + MaxStall /\ BizGranted(r, now)
  <1>0. ran \in [Requests -> Seq(Time)]  BY DEF TypeInv, TypeOK
  <1>1. ASSUME NEW t \in Threads, BizRead(t) \/ BizRemove(t) \/ BizRefresh(t)
        PROVE  \E now \in Time : now <= clock /\ clock <= now + MaxStall /\ BizGranted(r, now)
    <2>1. h[t].pc = "bizTx" /\ h[t].pc \in BizStages
      BY <1>1 DEF BizRead, BizRemove, BizRefresh, BizStages
    <2>2. h[t].now \in Time /\ h[t].req \in Requests  BY <2>1, BizHandler
    <2>3. BizTx(t, h[t].req, h[t].now)  BY <1>1 DEF BizRead, BizRemove, BizRefresh
    <2>4. h[t].req = r  BY <1>0, <2>2, <2>3 DEF BizTx
    <2>5. h[t].now <= clock /\ clock <= h[t].now + MaxStall  BY <2>1 DEF InFlightFresh
    <2> QED  BY <2>2, <2>3, <2>4, <2>5 DEF BizTx
  <1>2. ASSUME NEW t \in Threads, Activate(t) \/ Kickout(t) PROVE FALSE
    <2>1. h[t].pc = "tx" /\ h[t].pc \in AnonStages
      BY <1>2 DEF Activate, Kickout, AnonStages
    <2>2. h[t].req \in Requests /\ h[t].req.kind \in AnonKinds  BY <2>1, AnonHandler
    <2>3. ran' = [ran EXCEPT ![h[t].req] = Append(@, h[t].now)]
      BY <1>2 DEF Activate, Kickout
    <2>4. h[t].req = r  BY <1>0, <2>2, <2>3
    <2> QED  BY <2>2, <2>4 DEF BizRequest, AnonKinds
  <1>3. CASE UNCHANGED vars \/ Tick \/ Prune \/ Crash
    BY <1>3 DEF vars, Tick, Prune, Crash
  <1>4. ASSUME NEW a \in Apps, CreateApp(a) \/ IssueCode(a) PROVE FALSE
    BY <1>4 DEF CreateApp, IssueCode
  <1>5. ASSUME NEW t \in Threads, Handle(t)
        PROVE  \/ BizRead(t) \/ BizRemove(t) \/ BizRefresh(t)
               \/ Activate(t) \/ Kickout(t)
    BY <1>5 DEF Handle, Gate, LoadKey, Validate, GateCode, RefuseTx, Unserved,
                RecordFailure, ClearIp, ClearCode, Decrypt, BizReplay, BizRefuse, StoreFails
  <1> QED
    BY <1>1, <1>2, <1>3, <1>4, <1>5 DEF Next

\* Although the key of a business request is read in an earlier transaction,
\* it is carried out only while key and licence stand, and until the licence
\* expires up to the age of the captured clock.
THEOREM ServedWhileLicensed == Spec => ServedWhileLive
  <1> DEFINE Live == \A r \in Requests \cap BizRequest :
                ran'[r] # ran[r] =>
                   /\ licenses[r.dev].status = "active" /\ keys[r.dev] = "active"
                   /\ r.kind # "refresh" => clock <= licenses[r.dev].expires + MaxStall
  <1>1. ASSUME TypeInv, InFlightFresh, KeyFollowsLicense, [Next]_vars PROVE [Live]_vars
    <2>1. ASSUME NEW r \in Requests \cap BizRequest, ran'[r] # ran[r]
          PROVE  /\ licenses[r.dev].status = "active" /\ keys[r.dev] = "active"
                 /\ r.kind # "refresh" => clock <= licenses[r.dev].expires + MaxStall
      <3>1. PICK now \in Time :
               now <= clock /\ clock <= now + MaxStall /\ BizGranted(r, now)
        BY <1>1, <2>1, BizRuns
      <3>2. /\ r.lic = r.dev /\ r.dev \in DOMAIN licenses /\ r.dev \in DOMAIN devices
            /\ licenses[r.dev].status # "revoked"
            /\ r.kind # "refresh" => now <= licenses[r.dev].expires
        BY <3>1 DEF BizGranted, LicenseStands
      <3>3. licenses[r.dev].status \in {"active", "revoked"} /\ licenses[r.dev].expires \in Nat
        BY <1>1, <3>2 DEF TypeInv, TypeOK, IsMap, License
      <3>4. keys[r.dev] = "active"
        BY <1>1, <3>2, <3>3 DEF KeyFollowsLicense
      <3>5. clock \in Nat /\ now \in Nat /\ MaxStall \in Nat
        BY <1>1, ServerAssumption DEF TypeInv, TypeOK, Time
      <3>6. CASE r.kind = "refresh"  BY <3>2, <3>3, <3>4, <3>6
      <3>7. CASE r.kind # "refresh"
        BY <3>1, <3>2, <3>3, <3>4, <3>5, <3>7
      <3> QED  BY <3>6, <3>7
    <2> QED  BY <2>1
  <1> QED
    BY <1>1, FreshInductive, KeysFollowLicenses, PTL DEF Spec, ServedWhileLive

\* A request that is not a business request is carried out by a handler to
\* which the transaction admitted it, with a fresh clock value.
LEMMA AnonRuns ==
    ASSUME TypeInv, InFlightFresh, [Next]_vars,
           NEW r \in Requests \ BizRequest, ran'[r] # ran[r]
    PROVE  \E now \in Time : now <= clock /\ clock <= now + MaxStall /\ Admissible(r, now)
  <1>0. ran \in [Requests -> Seq(Time)]  BY DEF TypeInv, TypeOK
  <1>1. ASSUME NEW t \in Threads, Activate(t) \/ Kickout(t)
        PROVE  \E now \in Time : now <= clock /\ clock <= now + MaxStall /\ Admissible(r, now)
    <2>1. h[t].pc = "tx" /\ h[t].pc \in AnonStages
      BY <1>1 DEF Activate, Kickout, AnonStages
    <2>2. h[t].now \in Time /\ h[t].req \in Requests  BY <2>1, AnonHandler
    <2>3. Admissible(h[t].req, h[t].now) /\ ran' = [ran EXCEPT ![h[t].req] = Append(@, h[t].now)]
      BY <1>1 DEF Activate, Kickout
    <2>4. h[t].req = r  BY <1>0, <2>2, <2>3
    <2>5. h[t].now <= clock /\ clock <= h[t].now + MaxStall  BY <2>1 DEF InFlightFresh
    <2> QED  BY <2>2, <2>3, <2>4, <2>5
  <1>2. ASSUME NEW t \in Threads, BizRead(t) \/ BizRemove(t) \/ BizRefresh(t) PROVE FALSE
    <2>1. h[t].pc \in BizStages  BY <1>2 DEF BizRead, BizRemove, BizRefresh, BizStages
    <2>2. h[t].req \in Requests /\ h[t].req.kind \in BizKinds  BY <2>1, BizHandler
    <2>3. h[t].req \in BizRequest  BY <2>2, BizRequestType
    <2>4. ran' = [ran EXCEPT ![h[t].req] = Append(@, h[t].now)]
      BY <1>2 DEF BizRead, BizRemove, BizRefresh, BizTx
    <2> QED  BY <1>0, <2>2, <2>3, <2>4
  <1>3. CASE UNCHANGED vars \/ Tick \/ Prune \/ Crash
    BY <1>3 DEF vars, Tick, Prune, Crash
  <1>4. ASSUME NEW a \in Apps, CreateApp(a) \/ IssueCode(a) PROVE FALSE
    BY <1>4 DEF CreateApp, IssueCode
  <1>5. ASSUME NEW t \in Threads, Handle(t)
        PROVE  \/ BizRead(t) \/ BizRemove(t) \/ BizRefresh(t)
               \/ Activate(t) \/ Kickout(t)
    BY <1>5 DEF Handle, Gate, LoadKey, Validate, GateCode, RefuseTx, Unserved,
                RecordFailure, ClearIp, ClearCode, Decrypt, BizReplay, BizRefuse, StoreFails
  <1> QED
    BY <1>1, <1>2, <1>3, <1>4, <1>5 DEF Next

\* An activation code is used until it expires up to the age of the captured
\* clock, however long a handler is held up between its steps.
THEOREM CodesInForce == Spec => CodeInForce
  <1> DEFINE InForce == \A r \in Requests \ BizRequest :
                ran'[r] # ran[r] =>
                   LET c == CodeHash(r.app, r.plain) IN
                   /\ c \in DOMAIN codes
                   /\ codes[c].expires > 0 => clock <= codes[c].expires + MaxStall
  <1>1. ASSUME TypeInv, InFlightFresh, [Next]_vars PROVE [InForce]_vars
    <2>1. ASSUME NEW r \in Requests \ BizRequest, ran'[r] # ran[r]
          PROVE  LET c == CodeHash(r.app, r.plain) IN
                 /\ c \in DOMAIN codes
                 /\ codes[c].expires > 0 => clock <= codes[c].expires + MaxStall
      <3> DEFINE c == CodeHash(r.app, r.plain)
      <3>1. PICK now \in Time :
               now <= clock /\ clock <= now + MaxStall /\ Admissible(r, now)
        BY <1>1, <2>1, AnonRuns
      <3>2. c \in DOMAIN codes /\ (codes[c].expires > 0 => now <= codes[c].expires)
        BY <3>1 DEF Admissible, CodeUsable
      <3>3. codes[c].expires \in Nat
        BY <1>1, <3>2 DEF TypeInv, TypeOK, IsMap, ActivationCode
      <3>4. clock \in Nat /\ now \in Nat /\ MaxStall \in Nat
        BY <1>1, ServerAssumption DEF TypeInv, TypeOK, Time
      <3> HIDE DEF c
      <3>5. codes[c].expires > 0 => clock <= codes[c].expires + MaxStall
        BY <3>1, <3>2, <3>3, <3>4
      <3> QED  BY <3>2, <3>5 DEF c
    <2> QED  BY <2>1
  <1> QED
    BY <1>1, FreshInductive, PTL DEF Spec, CodeInForce

----------------------------------------------------------------------------
(* Rate limiting. *)

\* No window starts in the future, and no lock ends later than one from now.
WindowsOpened ==
    \A b \in DOMAIN buckets :
        buckets[b].windowStart <= clock /\ buckets[b].lockedUntil <= clock + RateLock

\* What a lock and the window it belongs to have to do with each other.
LockedByFailures ==
    \A b \in DOMAIN buckets :
        /\ buckets[b].failures < RateMax => buckets[b].lockedUntil = 0
        /\ buckets[b].failures >= RateMax =>
              buckets[b].windowStart + RateLock <= buckets[b].lockedUntil + MaxStall

LockInv == TypeInv /\ WindowsOpened /\ LockedByFailures

\* The record rl that counting a failure in bucket b may leave behind.
LockFrom(b, rl) ==
    /\ rl.failures < RateMax => rl.lockedUntil = 0
    /\ rl.failures >= RateMax =>
          /\ clock <= rl.windowStart + RateWindow + MaxStall
          /\ rl.lockedUntil <= clock + RateLock
          /\ clock + RateLock <= rl.lockedUntil + MaxStall
    /\ b \in DOMAIN buckets /\ buckets[b].windowStart = rl.windowStart =>
          buckets[b].lockedUntil <= rl.lockedUntil + MaxStall

\* Only a recorded failure and a clearing touch the buckets, and at no time.
LEMMA BucketFrame ==
    ASSUME NEW t \in Threads, Handle(t), ~ RecordFailure(t)
    PROVE  UNCHANGED clock /\ (UNCHANGED buckets \/ \E K : buckets' = Delete(buckets, K))
  <1>1. CASE ClearIp(t)    BY <1>1 DEF ClearIp
  <1>2. CASE ClearCode(t)  BY <1>2 DEF ClearCode
  <1>3. CASE Activate(t) \/ Kickout(t) \/ BizRead(t) \/ BizRemove(t) \/ BizRefresh(t)
    BY <1>3 DEF Activate, Kickout, BizRead, BizRemove, BizRefresh, BizTx
  <1>4. CASE \/ \E r \in Requests : Gate(t, r) \/ LoadKey(t, r)
             \/ Validate(t) \/ GateCode(t) \/ RefuseTx(t) \/ Unserved(t)
             \/ Decrypt(t) \/ BizReplay(t) \/ BizRefuse(t) \/ StoreFails(t)
    BY <1>4 DEF Gate, LoadKey, Validate, GateCode, RefuseTx, Unserved, Decrypt,
                BizReplay, BizRefuse, StoreFails
  <1> QED  BY <1>1, <1>2, <1>3, <1>4 DEF Handle

\* A step counts one failure in one bucket, clears some, or lets time pass.
LEMMA BucketSteps ==
    ASSUME TypeInv, [Next]_vars
    PROVE  \/ UNCHANGED buckets /\ clock' \in Nat /\ clock <= clock'
           \/ UNCHANGED clock /\ \E K : buckets' = Delete(buckets, K)
           \/ UNCHANGED clock /\ \E b \in Buckets, now \in Recent :
                                    buckets' = Put(buckets, b, NextFailure(b, now))
  <1>0. clock \in Nat /\ clock <= clock  BY DEF TypeInv, TypeOK, Time
  <1>1. CASE UNCHANGED vars \/ Tick \/ Prune \/ Crash
    BY <1>0, <1>1 DEF vars, Tick, Prune, Crash
  <1>2. ASSUME NEW a \in Apps, CreateApp(a) \/ IssueCode(a) PROVE UNCHANGED <<buckets, clock>>
    BY <1>2 DEF CreateApp, IssueCode
  <1>3. ASSUME NEW t \in Threads, Handle(t), ~ RecordFailure(t)
        PROVE  UNCHANGED clock /\ (UNCHANGED buckets \/ \E K : buckets' = Delete(buckets, K))
    BY <1>3, BucketFrame
  <1>4. ASSUME NEW t \in Threads, RecordFailure(t)
        PROVE  UNCHANGED clock /\ \E b \in Buckets, now \in Recent :
                                     buckets' = Put(buckets, b, NextFailure(b, now))
    <2>1. h[t].pc = "record" /\ h[t].pc \in AnonStages  BY <1>4 DEF RecordFailure, AnonStages
    <2>2. h[t].todo \in Seq(Buckets) /\ h[t].todo # <<>>
      BY <2>1, AnonHandler DEF TypeInv, HandlerOK
    <2>3. Head(h[t].todo) \in Buckets  BY <2>2
    <2> QED  BY <1>4, <2>3 DEF RecordFailure
  <1> QED
    BY <1>0, <1>1, <1>2, <1>3, <1>4 DEF Next

\* What counting a failure makes of a record that satisfies the invariant.
LEMMA NextFailureLocks ==
    ASSUME LockInv, NEW b \in Buckets, NEW now \in Recent
    PROVE  LET rl == NextFailure(b, now) IN
           /\ rl.windowStart <= clock /\ rl.lockedUntil <= clock + RateLock
           /\ rl.failures >= RateMax => rl.windowStart + RateLock <= rl.lockedUntil + MaxStall
           /\ LockFrom(b, rl)
  <1> DEFINE old == OpenWindow(b, now)
             rl == NextFailure(b, now)
  <1>1. /\ now \in Nat /\ clock \in Nat /\ now <= clock /\ clock <= now + MaxStall
        /\ RateLock \in Nat /\ RateWindow \in Nat /\ MaxStall \in Nat /\ RateMax \in Nat \ {0}
    BY ServerAssumption DEF Recent, LockInv, TypeInv, TypeOK, Time
  <1>2. old \in RateLimit
    BY <1>1 DEF OpenWindow, LockInv, TypeInv, TypeOK, IsMap, RateLimit
  <1>3. old.failures \in Nat /\ old.windowStart \in Nat /\ old.lockedUntil \in Nat
    BY <1>2 DEF RateLimit
  <1>4. /\ old.windowStart <= clock /\ old.lockedUntil <= clock + RateLock
        /\ now - old.windowStart <= RateWindow
        /\ old.failures < RateMax => old.lockedUntil = 0
    <2>1. CASE b \in DOMAIN buckets /\ old = buckets[b] /\ now - buckets[b].windowStart <= RateWindow
      BY <2>1 DEF LockInv, WindowsOpened, LockedByFailures
    <2>2. CASE old = [failures |-> 0, windowStart |-> now, lockedUntil |-> 0]
      BY <1>1, <2>2
    <2> QED  BY <2>1, <2>2 DEF OpenWindow
  <1>5. /\ rl.failures = old.failures + 1
        /\ rl.windowStart = old.windowStart
        /\ rl.lockedUntil = IF Locks(old.failures + 1) THEN now + RateLock ELSE old.lockedUntil
    BY <1>2 DEF NextFailure, RateLimit
  \* A new window starts later than the one it replaces.
  <1>6. ASSUME b \in DOMAIN buckets, buckets[b].windowStart = rl.windowStart
        PROVE  buckets[b] = old
    <2>1. buckets[b].windowStart \in Nat
      BY <1>6 DEF LockInv, TypeInv, TypeOK, IsMap, RateLimit
    <2>2. CASE now - buckets[b].windowStart <= RateWindow
      BY <1>6, <2>2 DEF OpenWindow
    <2>3. CASE ~ (now - buckets[b].windowStart <= RateWindow)
      <3>1. old.windowStart = now  BY <2>3 DEF OpenWindow
      <3> QED  BY <1>1, <1>5, <1>6, <2>1, <2>3, <3>1
    <2> QED  BY <2>2, <2>3
  <1> HIDE DEF old, rl
  <1>7. /\ rl.windowStart <= clock /\ rl.lockedUntil <= clock + RateLock
        /\ rl.failures >= RateMax => rl.windowStart + RateLock <= rl.lockedUntil + MaxStall
        /\ rl.failures < RateMax => rl.lockedUntil = 0
        /\ rl.failures >= RateMax =>
              /\ clock <= rl.windowStart + RateWindow + MaxStall
              /\ clock + RateLock <= rl.lockedUntil + MaxStall
        /\ old.lockedUntil <= rl.lockedUntil + MaxStall
    <2>1. CASE old.failures + 1 >= RateMax
      BY <1>1, <1>3, <1>4, <1>5, <2>1 DEF Locks
    <2>2. CASE ~ (old.failures + 1 >= RateMax)
      BY <1>1, <1>3, <1>4, <1>5, <2>2 DEF Locks
    <2> QED  BY <2>1, <2>2
  <1>8. LockFrom(b, rl)
    BY <1>6, <1>7 DEF LockFrom
  <1> QED
    BY <1>7, <1>8 DEF rl

LEMMA LockStep ==
    ASSUME LockInv, [Next]_vars
    PROVE  /\ WindowsOpened' /\ LockedByFailures'
           /\ \A b \in DOMAIN buckets' :
                 b \notin DOMAIN buckets \/ buckets'[b] # buckets[b] => LockFrom(b, buckets'[b])
  <1>0. clock \in Nat /\ RateLock \in Nat /\ IsMap(buckets, Buckets, RateLimit)
    BY ServerAssumption DEF LockInv, TypeInv, TypeOK, Time
  <1> DEFINE Changes == \A b \in DOMAIN buckets' :
                 b \notin DOMAIN buckets \/ buckets'[b] # buckets[b] => LockFrom(b, buckets'[b])
  <1>1. CASE UNCHANGED buckets /\ clock' \in Nat /\ clock <= clock'
    <2>1. ASSUME NEW b \in DOMAIN buckets
          PROVE  buckets[b].windowStart <= clock' /\ buckets[b].lockedUntil <= clock' + RateLock
      <3>1. /\ buckets[b].windowStart \in Nat /\ buckets[b].windowStart <= clock
            /\ buckets[b].lockedUntil \in Nat /\ buckets[b].lockedUntil <= clock + RateLock
        BY <1>0 DEF IsMap, RateLimit, LockInv, WindowsOpened
      <3> QED  BY <1>0, <1>1, <3>1
    <2> QED  BY <1>1, <2>1 DEF LockInv, WindowsOpened, LockedByFailures
  <1>2. ASSUME UNCHANGED clock, NEW K, buckets' = Delete(buckets, K)
        PROVE  WindowsOpened' /\ LockedByFailures' /\ Changes
    <2>1. \A b \in DOMAIN buckets' : b \in DOMAIN buckets /\ buckets'[b] = buckets[b]
      BY <1>2 DEF Delete
    <2> QED  BY <1>2, <2>1 DEF LockInv, WindowsOpened, LockedByFailures
  <1>3. ASSUME UNCHANGED clock, NEW k \in Buckets, NEW now \in Recent,
               buckets' = Put(buckets, k, NextFailure(k, now))
        PROVE  WindowsOpened' /\ LockedByFailures' /\ Changes
    <2>1. /\ buckets'[k] = NextFailure(k, now)
          /\ \A b \in DOMAIN buckets' \ {k} : b \in DOMAIN buckets /\ buckets'[b] = buckets[b]
      BY <1>3 DEF Put
    <2>2. /\ buckets'[k].windowStart <= clock /\ buckets'[k].lockedUntil <= clock + RateLock
          /\ buckets'[k].failures >= RateMax =>
                buckets'[k].windowStart + RateLock <= buckets'[k].lockedUntil + MaxStall
          /\ LockFrom(k, buckets'[k])
      BY <2>1, NextFailureLocks
    <2>3. buckets'[k].failures < RateMax => buckets'[k].lockedUntil = 0
      BY <2>2 DEF LockFrom
    <2>4. ASSUME NEW b \in DOMAIN buckets'
          PROVE  /\ buckets'[b].windowStart <= clock /\ buckets'[b].lockedUntil <= clock + RateLock
                 /\ buckets'[b].failures < RateMax => buckets'[b].lockedUntil = 0
                 /\ buckets'[b].failures >= RateMax =>
                       buckets'[b].windowStart + RateLock <= buckets'[b].lockedUntil + MaxStall
      <3>1. CASE b = k  BY <2>2, <2>3, <3>1
      <3>2. CASE b # k
        BY <2>1, <2>4, <3>2 DEF LockInv, WindowsOpened, LockedByFailures
      <3> QED  BY <3>1, <3>2
    <2>5. Changes
      BY <2>1, <2>2
    <2> QED  BY <1>3, <2>4, <2>5 DEF WindowsOpened, LockedByFailures
  <1> QED
    BY <1>1, <1>2, <1>3, BucketSteps DEF LockInv

LEMMA LockInductive == Spec => []LockInv
  <1>1. Init => LockInv
    BY TypeInit DEF Init, LockInv, WindowsOpened, LockedByFailures
  <1>2. LockInv /\ [Next]_vars => LockInv'
    BY TypeNext, LockStep DEF LockInv
  <1> QED
    BY <1>1, <1>2, PTL DEF Spec

\* Every lock is due to RateMax failures of one window, lasts for RateLock from
\* the last of them, give or take the age of a clock value, and is not cut short
\* by a failure that is recorded late, for any durations and any handlers.
THEOREM LocksFollowFailures == Spec => LockFollowsFailures
  <1> DEFINE Follows == \A b \in DOMAIN buckets' :
                b \notin DOMAIN buckets \/ buckets'[b] # buckets[b] =>
                   LET rl == buckets'[b] IN
                   /\ rl.failures < RateMax => rl.lockedUntil = 0
                   /\ rl.failures >= RateMax =>
                         /\ clock <= rl.windowStart + RateWindow + MaxStall
                         /\ rl.lockedUntil <= clock + RateLock
                         /\ clock + RateLock <= rl.lockedUntil + MaxStall
                   /\ b \in DOMAIN buckets /\ buckets[b].windowStart = rl.windowStart =>
                         buckets[b].lockedUntil <= rl.lockedUntil + MaxStall
  <1>1. LockInv /\ [Next]_vars => [Follows]_vars
    <2>1. ASSUME LockInv, [Next]_vars PROVE Follows
      BY <2>1, LockStep DEF LockFrom
    <2> QED  BY <2>1
  <1> QED
    BY <1>1, LockInductive, PTL DEF Spec, LockFollowsFailures

----------------------------------------------------------------------------
(* last_seen_at. *)

\* last_seen_at never lies in the future.
SeenInPast == \A d \in DOMAIN devices : devices[d].seen <= clock

\* A step leaves last_seen_at of a device alone or writes a fresh clock value.
LEMMA SeenStep ==
    ASSUME TypeInv, InFlightFresh, [Next]_vars
    PROVE  \A d \in DOMAIN devices' :
              \/ d \in DOMAIN devices /\ devices'[d].seen = devices[d].seen
              \/ /\ devices'[d].seen \in Nat /\ clock' = clock
                 /\ devices'[d].seen <= clock /\ clock <= devices'[d].seen + MaxStall
  <1>0. IsMap(devices, DeviceIds, Device)  BY DEF TypeInv, TypeOK
  <1>1. CASE UNCHANGED registry
    BY <1>1 DEF registry
  <1>2. ASSUME NEW t \in Threads, Kickout(t), NEW d \in DOMAIN devices'
        PROVE  d \in DOMAIN devices /\ devices'[d].seen = devices[d].seen
    BY <1>0, <1>2 DEF Kickout, Retire, RetiredDevices, IsMap, Device
  <1>3. ASSUME NEW t \in Threads, Activate(t), NEW d \in DOMAIN devices'
        PROVE  \/ d \in DOMAIN devices /\ devices'[d].seen = devices[d].seen
               \/ /\ devices'[d].seen \in Nat /\ clock' = clock
                  /\ devices'[d].seen <= clock /\ clock <= devices'[d].seen + MaxStall
    <2>1. h[t].pc = "tx" /\ h[t].pc \in AnonStages  BY <1>3 DEF Activate, AnonStages
    <2>2. h[t].now \in Nat  BY <2>1, AnonHandler DEF Time
    <2>3. h[t].now <= clock /\ clock <= h[t].now + MaxStall  BY <2>1 DEF InFlightFresh
    <2>4. clock' = clock /\ \E e : devices' =
             Put(devices, e, [app |-> h[t].req.app,
                              code |-> CodeHash(h[t].req.app, h[t].req.plain),
                              registered |-> h[t].now, seen |-> h[t].now,
                              status |-> "active"])
      BY <1>3 DEF Activate
    <2>5. (d \in DOMAIN devices /\ devices'[d] = devices[d]) \/ devices'[d].seen = h[t].now
      BY <1>3, <2>4 DEF Put
    <2> QED  BY <2>2, <2>3, <2>4, <2>5
  <1>4. ASSUME NEW t \in Threads, BizRead(t) \/ BizRemove(t) \/ BizRefresh(t),
               NEW d \in DOMAIN devices'
        PROVE  \/ d \in DOMAIN devices /\ devices'[d].seen = devices[d].seen
               \/ /\ devices'[d].seen \in Nat /\ clock' = clock
                  /\ devices'[d].seen <= clock /\ clock <= devices'[d].seen + MaxStall
    <2> DEFINE r == h[t].req
               now == h[t].now
               ds == RetiredDevices(devices, r.target)
    <2>1. h[t].pc = "bizTx" /\ h[t].pc \in BizStages
      BY <1>4 DEF BizRead, BizRemove, BizRefresh, BizStages
    <2>2. now \in Nat  BY <2>1, BizHandler DEF Time
    <2>3. now <= clock /\ clock <= now + MaxStall  BY <2>1 DEF InFlightFresh
    <2>4. clock' = clock /\ r.dev \in DOMAIN devices
      BY <1>4 DEF BizRead, BizRemove, BizRefresh, BizTx, BizGranted
    <2>5. devices' = WriteBack(devices, r.dev, now) \/ devices' = WriteBack(ds, r.dev, now)
      BY <1>4 DEF BizRead, BizRemove, BizRefresh
    <2>6. /\ IsMap(ds, DeviceIds, Device) /\ DOMAIN ds = DOMAIN devices
          /\ \A e \in DOMAIN devices : ds[e].seen = devices[e].seen
      BY <1>0, RetireType DEF TypeInv, RetiredDevices, IsMap, Device
    <2>7. /\ DOMAIN devices' = DOMAIN devices
          /\ devices'[r.dev].seen = now
          /\ \A e \in DOMAIN devices \ {r.dev} : devices'[e].seen = devices[e].seen
      <3>1. CASE devices' = WriteBack(devices, r.dev, now)
        BY <1>0, <2>4, <3>1, WriteBackEffect
      <3>2. CASE devices' = WriteBack(ds, r.dev, now)
        <4>1. /\ DOMAIN devices' = DOMAIN devices
              /\ devices'[r.dev].seen = now
              /\ \A e \in DOMAIN devices \ {r.dev} : devices'[e] = ds[e]
          BY <2>4, <2>6, <3>2, WriteBackEffect
        <4> QED  BY <2>6, <4>1
      <3> QED  BY <2>5, <3>1, <3>2
    <2> QED  BY <1>4, <2>2, <2>3, <2>4, <2>7
  <1> QED
    BY <1>1, <1>2, <1>3, <1>4, RegistrySteps DEF RegistryStep

LEMMA SeenInductive == Spec => [](TypeInv /\ InFlightFresh /\ SeenInPast)
  <1>1. Init => SeenInPast
    BY DEF Init, SeenInPast
  <1>2. ASSUME TypeInv, InFlightFresh, SeenInPast, [Next]_vars PROVE SeenInPast'
    <2>1. clock \in Nat /\ clock' \in Nat /\ clock <= clock'
      BY <1>2, TypeNext, BucketSteps DEF TypeInv, TypeOK, Time
    <2>2. ASSUME NEW d \in DOMAIN devices' PROVE devices'[d].seen <= clock'
      <3>1. CASE d \in DOMAIN devices /\ devices'[d].seen = devices[d].seen
        <4>1. devices[d].seen \in Nat /\ devices[d].seen <= clock
          BY <1>2, <3>1 DEF TypeInv, TypeOK, IsMap, Device, SeenInPast
        <4> QED  BY <2>1, <3>1, <4>1
      <3>2. CASE clock' = clock /\ devices'[d].seen <= clock
        BY <3>2
      <3> QED  BY <1>2, <2>2, <3>1, <3>2, SeenStep
    <2> QED  BY <2>2 DEF SeenInPast
  <1> QED
    BY <1>1, <1>2, FreshInductive, PTL DEF Spec

\* Overlapping requests of a device set its last_seen_at back by no more than
\* the age of a captured clock value.
THEOREM SeenRegressionsBounded == Spec => SeenRegression
  <1> DEFINE Bounded == \A d \in DOMAIN devices :
                devices[d].seen <= devices'[d].seen + MaxStall
  <1>1. ASSUME TypeInv, InFlightFresh, SeenInPast, [Next]_vars PROVE [Bounded]_vars
    <2>1. ASSUME NEW d \in DOMAIN devices
          PROVE  devices[d].seen <= devices'[d].seen + MaxStall
      <3>1. d \in DOMAIN devices'
        BY <1>1, <2>1, RegistryEffect DEF Enrolled, Retired, SameDomains, registry
      <3>2. /\ devices[d].seen \in Nat /\ devices[d].seen <= clock
            /\ clock \in Nat /\ MaxStall \in Nat
        BY <1>1, <2>1, ServerAssumption DEF TypeInv, TypeOK, IsMap, Device, Time, SeenInPast
      <3> QED  BY <1>1, <3>1, <3>2, SeenStep
    <2> QED  BY <2>1
  <1> QED
    BY <1>1, SeenInductive, PTL DEF Spec, SeenRegression

----------------------------------------------------------------------------
(* How far the requests past the gate overshoot. *)

Items(s) == {s[i] : i \in 1..Len(s)}
Distinct(s) == \A i, j \in 1..Len(s) : i # j => s[i] # s[j]

\* The buckets that handler q may still charge: it has passed their gates.
Charges(q) ==
    CASE q.pc \in {"validate", "gateCode"} -> {IpBucket(q.req), AppBucket(q.req)}
      [] q.pc = "tx" -> {IpBucket(q.req), AppBucket(q.req), CodeBucket(q.req)}
      [] q.pc = "record" -> Items(q.todo)
      [] OTHER -> {}

\* The handlers past the gate of bucket b.
Past(b) == {t \in Threads : b \in Charges(h[t])}

\* No handler charges a bucket twice.
ChargesOnce == \A t \in Threads : h[t].pc = "record" => Distinct(h[t].todo)

LEMMA ChargesByStage ==
    ASSUME NEW q
    PROVE  /\ q.pc \in {"validate", "gateCode"}
                 => Charges(q) = {IpBucket(q.req), AppBucket(q.req)}
           /\ q.pc = "tx" => Charges(q) = {IpBucket(q.req), AppBucket(q.req), CodeBucket(q.req)}
           /\ q.pc = "record" => Charges(q) = Items(q.todo)
           /\ q.pc \in {"idle", "clearIp", "clearCode", "decrypt", "bizTx"} => Charges(q) = {}
  BY DEF Charges

LEMMA BucketLists ==
    ASSUME NEW r
    PROVE  /\ Items(<<IpBucket(r), AppBucket(r)>>) = {IpBucket(r), AppBucket(r)}
           /\ Items(<<IpBucket(r), AppBucket(r), CodeBucket(r)>>)
                 = {IpBucket(r), AppBucket(r), CodeBucket(r)}
           /\ Distinct(<<IpBucket(r), AppBucket(r)>>)
           /\ Distinct(<<IpBucket(r), AppBucket(r), CodeBucket(r)>>)
  <1>1. IpBucket(r) # AppBucket(r) /\ IpBucket(r) # CodeBucket(r) /\ AppBucket(r) # CodeBucket(r)
    BY DEF IpBucket, AppBucket, CodeBucket
  <1>2. ASSUME NEW a, NEW b, a # b
        PROVE  Items(<<a, b>>) = {a, b} /\ Distinct(<<a, b>>)
    BY <1>2 DEF Items, Distinct
  <1>3. ASSUME NEW a, NEW b, NEW c, a # b, a # c, b # c
        PROVE  Items(<<a, b, c>>) = {a, b, c} /\ Distinct(<<a, b, c>>)
    BY <1>3 DEF Items, Distinct
  <1> QED
    BY <1>1, <1>2, <1>3

LEMMA TailCharges ==
    ASSUME NEW s \in Seq(Buckets), s # <<>>, Distinct(s)
    PROVE  /\ Tail(s) \in Seq(Buckets) /\ Distinct(Tail(s))
           /\ Items(Tail(s)) \subseteq Items(s) \ {Head(s)}
           /\ Head(s) \in Items(s)
  <1>1. Len(s) \in Nat \ {0} /\ Head(s) = s[1]
    OBVIOUS
  <1>2. /\ Tail(s) \in Seq(Buckets) /\ Len(Tail(s)) = Len(s) - 1
        /\ \A i \in 1..(Len(s) - 1) : Tail(s)[i] = s[i + 1]
    OBVIOUS
  <1>3. Head(s) \in Items(s)
    BY <1>1 DEF Items
  <1>4. Distinct(Tail(s))
    BY <1>1, <1>2 DEF Distinct
  <1>5. ASSUME NEW i \in 1..(Len(s) - 1)
        PROVE  s[i + 1] \in Items(s) /\ s[i + 1] # Head(s)
    <2>1. i + 1 \in 1..Len(s) /\ 1 \in 1..Len(s) /\ i + 1 # 1
      BY <1>1
    <2> QED
      BY <1>1, <2>1 DEF Items, Distinct
  <1> QED
    BY <1>2, <1>3, <1>4, <1>5 DEF Items

\* A step of handler t only gives up charges, or passes the gate of those it
\* takes on.
Gated(t) ==
    /\ \A u \in Threads \ {t} : h'[u] = h[u]
    /\ h'[t].pc = "record" => Distinct(h'[t].todo)
    /\ \/ Charges(h'[t]) \subseteq Charges(h[t])
       \/ /\ UNCHANGED buckets
          /\ \E now \in Recent : ~ IsLocked(Charges(h'[t]) \ Charges(h[t]), now)

\* A handler that has nothing more to charge.
LEMMA SilentMove ==
    ASSUME NEW t \in Threads, \A u \in Threads \ {t} : h'[u] = h[u],
           h'[t].pc \in {"idle", "clearIp", "clearCode", "decrypt", "bizTx"}
    PROVE  Gated(t)
  BY ChargesByStage DEF Gated

LEMMA GateMoves ==
    ASSUME TypeInv, NEW t \in Threads, NEW r \in Requests, Gate(t, r)
    PROVE  Gated(t)
  <1>1. h \in [Threads -> {Idle} \cup Handler]  BY DEF TypeInv, TypeOK
  <1>2. /\ \A u \in Threads \ {t} : h'[u] = h[u]
        /\ h'[t].pc = "validate" /\ h'[t].req = r
    BY <1>1 DEF Gate, Enter
  <1>3. Charges(h'[t]) = {IpBucket(r), AppBucket(r)}  BY <1>2, ChargesByStage
  <1>4. PICK now \in Recent : ~ IsLocked({IpBucket(r), AppBucket(r)}, now)
    BY DEF Gate
  <1>5. ~ IsLocked(Charges(h'[t]) \ Charges(h[t]), now)
    BY <1>3, <1>4 DEF IsLocked
  <1> QED
    BY <1>2, <1>5 DEF Gated, Gate

LEMMA ValidateMoves ==
    ASSUME TypeInv, NEW t \in Threads, Validate(t)
    PROVE  Gated(t)
  <1> DEFINE r == h[t].req
  <1>1. h[t].pc = "validate" /\ h[t].pc \in AnonStages  BY DEF Validate, AnonStages
  <1>2. h[t].pc \in Stages /\ r \in Requests /\ r.kind \in AnonKinds  BY <1>1, AnonHandler
  <1>3. Charges(h[t]) = {IpBucket(r), AppBucket(r)}  BY <1>1, ChargesByStage
  <1>4. CASE Charge(t, <<IpBucket(r), AppBucket(r)>>)
    <2>1. /\ \A u \in Threads \ {t} : h'[u] = h[u]
          /\ h'[t].pc = "record" /\ h'[t].todo = <<IpBucket(r), AppBucket(r)>>
      BY <1>2, <1>4, BucketSeqs, ChargeMove DEF TypeInv
    <2>2. Charges(h'[t]) = Items(h'[t].todo)  BY <2>1, ChargesByStage
    <2>3. Charges(h'[t]) = Charges(h[t])  BY <1>3, <2>1, <2>2, BucketLists
    <2>4. Distinct(h'[t].todo)  BY <2>1, BucketLists
    <2> QED  BY <2>1, <2>3, <2>4 DEF Gated
  <1>5. CASE h' = [h EXCEPT ![t].pc = "gateCode", ![t].now = clock]
    <2>1. clock \in Time /\ "gateCode" \in Stages  BY DEF TypeInv, TypeOK, Stages
    <2>2. /\ \A u \in Threads \ {t} : h'[u] = h[u]
          /\ h'[t].pc = "gateCode" /\ h'[t].req = r
      BY <1>2, <1>5, <2>1, ZeroTime, GotoMove DEF TypeInv
    <2> QED  BY <1>3, <2>2, ChargesByStage DEF Gated
  <1> QED  BY <1>4, <1>5 DEF Validate

LEMMA GateCodeMoves ==
    ASSUME TypeInv, NEW t \in Threads, GateCode(t)
    PROVE  Gated(t)
  <1> DEFINE r == h[t].req
  <1>1. h[t].pc = "gateCode" /\ h[t].pc \in AnonStages  BY DEF GateCode, AnonStages
  <1>2. h[t].pc \in Stages  BY <1>1, AnonHandler
  <1>3. Charges(h[t]) = {IpBucket(r), AppBucket(r)}  BY <1>1, ChargesByStage
  <1>4. CASE Finish(t)
    BY <1>4, FinishMove, SilentMove DEF TypeInv
  <1>5. ASSUME NEW now \in Recent, ~ IsLocked({CodeBucket(r)}, now), Goto(t, "tx")
        PROVE  Gated(t)
    <2>1. "tx" \in Stages  BY DEF Stages
    <2>2. /\ \A u \in Threads \ {t} : h'[u] = h[u]
          /\ h'[t].pc = "tx" /\ h'[t].req = r
      BY <1>2, <1>5, <2>1, ZeroTime, GotoMove DEF TypeInv, Goto
    <2>3. Charges(h'[t]) = {IpBucket(r), AppBucket(r), CodeBucket(r)}
      BY <2>2, ChargesByStage
    <2>4. ~ IsLocked(Charges(h'[t]) \ Charges(h[t]), now)
      BY <1>3, <1>5, <2>3 DEF IsLocked
    <2> QED  BY <2>2, <2>4 DEF Gated, GateCode
  <1> QED  BY <1>4, <1>5 DEF GateCode

LEMMA RefuseMoves ==
    ASSUME TypeInv, NEW t \in Threads, RefuseTx(t)
    PROVE  Gated(t)
  <1> DEFINE r == h[t].req
             bs == <<IpBucket(r), AppBucket(r), CodeBucket(r)>>
  <1>1. h[t].pc = "tx" /\ h[t].pc \in AnonStages  BY DEF RefuseTx, AnonStages
  <1>2. h[t].pc \in Stages /\ r \in Requests /\ r.kind \in AnonKinds  BY <1>1, AnonHandler
  <1>3. Charges(h[t]) = Items(bs) /\ Distinct(bs)
    BY <1>1, ChargesByStage, BucketLists
  <1>4. bs \in Seq(Buckets) /\ Charge(t, bs)  BY <1>2, BucketSeqs DEF RefuseTx
  <1> HIDE DEF bs
  <1>5. /\ \A u \in Threads \ {t} : h'[u] = h[u]
        /\ h'[t].pc = "record" /\ h'[t].todo = bs
    BY <1>2, <1>4, ChargeMove DEF TypeInv
  <1>6. Charges(h'[t]) = Items(bs)
    BY <1>5, ChargesByStage
  <1> QED
    BY <1>3, <1>5, <1>6 DEF Gated

\* Going on to the next bucket, or ending after the last.
LEMMA ChargedMove ==
    ASSUME TypeInv, ChargesOnce, NEW t \in Threads, h[t].pc = "record",
           IF Tail(h[t].todo) = <<>> THEN Finish(t) ELSE Charge(t, Tail(h[t].todo))
    PROVE  /\ Gated(t)
           /\ Charges(h'[t]) \subseteq Charges(h[t]) \ {Head(h[t].todo)}
           /\ Head(h[t].todo) \in Charges(h[t])
  <1> DEFINE todo == h[t].todo
             rest == Tail(h[t].todo)
  <1>1. /\ h[t].pc \in Stages /\ todo \in Seq(Buckets) /\ todo # <<>>
        /\ Distinct(todo) /\ Charges(h[t]) = Items(todo)
    BY AnonHandler, ChargesByStage DEF AnonStages, TypeInv, HandlerOK, ChargesOnce
  <1>2. /\ rest \in Seq(Buckets) /\ Distinct(rest)
        /\ Items(rest) \subseteq Items(todo) \ {Head(todo)} /\ Head(todo) \in Items(todo)
    BY <1>1, TailCharges
  <1>3. CASE Finish(t)
    <2>1. h'[t].pc = "idle" /\ \A u \in Threads \ {t} : h'[u] = h[u]
      BY <1>3, FinishMove DEF TypeInv
    <2>2. Charges(h'[t]) = {}  BY <2>1, ChargesByStage
    <2> QED  BY <1>1, <1>2, <2>1, <2>2, SilentMove
  <1>4. CASE Charge(t, rest)
    <2>1. /\ \A u \in Threads \ {t} : h'[u] = h[u]
          /\ h'[t].pc = "record" /\ h'[t].todo = rest
      BY <1>1, <1>2, <1>4, ChargeMove DEF TypeInv
    <2>2. Charges(h'[t]) = Items(rest)  BY <2>1, ChargesByStage
    <2> QED  BY <1>1, <1>2, <2>1, <2>2 DEF Gated
  <1> QED  BY <1>3, <1>4

LEMMA FailMoves ==
    ASSUME TypeInv, ChargesOnce, NEW t \in Threads, StoreFails(t)
    PROVE  Gated(t)
  <1>1. CASE Finish(t)
    BY <1>1, FinishMove, SilentMove DEF TypeInv
  <1>2. CASE h[t].pc = "clearIp" /\ Goto(t, "clearCode")
    <2>1. h[t].pc \in Stages /\ "clearCode" \in Stages  BY <1>2 DEF Stages
    <2>2. h'[t].pc = "clearCode" /\ \A u \in Threads \ {t} : h'[u] = h[u]
      BY <1>2, <2>1, ZeroTime, GotoMove DEF Goto, TypeInv
    <2> QED  BY <2>2, SilentMove
  <1>3. CASE /\ h[t].pc = "record"
             /\ IF Tail(h[t].todo) = <<>> THEN Finish(t) ELSE Charge(t, Tail(h[t].todo))
    BY <1>3, ChargedMove
  <1> QED
    BY <1>1, <1>2, <1>3 DEF StoreFails

LEMMA HandlersAreGated ==
    ASSUME TypeInv, ChargesOnce, NEW t \in Threads, Handle(t)
    PROVE  Gated(t)
  <1>1. ASSUME NEW r \in Requests, Gate(t, r) PROVE Gated(t)
    BY <1>1, GateMoves
  <1>2. ASSUME NEW r \in Requests, LoadKey(t, r) PROVE Gated(t)
    <2>1. h \in [Threads -> {Idle} \cup Handler]  BY DEF TypeInv, TypeOK
    <2>2. h'[t].pc = "decrypt" /\ \A u \in Threads \ {t} : h'[u] = h[u]
      BY <1>2, <2>1 DEF LoadKey, Enter
    <2> QED  BY <2>2, SilentMove
  <1>3. CASE Activate(t) \/ Kickout(t)
    <2>1. h[t].pc = "tx" /\ AfterCommit(t)  BY <1>3 DEF Activate, Kickout
    <2> QED  BY <2>1, AfterCommitMove, SilentMove
  <1>4. CASE Unserved(t) \/ ClearCode(t) \/ BizReplay(t) \/ BizRefuse(t)
             \/ BizRead(t) \/ BizRemove(t) \/ BizRefresh(t)
    <2>1. Finish(t)
      BY <1>4 DEF Unserved, ClearCode, BizReplay, BizRefuse, BizRead, BizRemove, BizRefresh, BizTx
    <2> QED  BY <2>1, FinishMove, SilentMove DEF TypeInv
  <1>5. CASE ClearIp(t)
    <2>1. h[t].pc \in Stages /\ "clearCode" \in Stages  BY <1>5 DEF ClearIp, Stages
    <2>2. h'[t].pc = "clearCode" /\ \A u \in Threads \ {t} : h'[u] = h[u]
      BY <1>5, <2>1, ZeroTime, GotoMove DEF ClearIp, Goto, TypeInv
    <2> QED  BY <2>2, SilentMove
  <1>6. CASE Decrypt(t)
    <2>1. h[t].pc \in Stages /\ "bizTx" \in Stages /\ clock \in Time
      BY <1>6 DEF Decrypt, Stages, TypeInv, TypeOK
    <2>2. h'[t].pc = "bizTx" /\ \A u \in Threads \ {t} : h'[u] = h[u]
      BY <1>6, <2>1, ZeroTime, GotoMove DEF Decrypt, TypeInv
    <2> QED  BY <2>2, SilentMove
  <1>7. CASE RecordFailure(t)
    BY <1>7, ChargedMove DEF RecordFailure
  <1> QED
    BY <1>1, <1>2, <1>3, <1>4, <1>5, <1>6, <1>7, ValidateMoves, GateCodeMoves, RefuseMoves,
       FailMoves DEF Handle

LEMMA ChargesOnceStep ==
    ASSUME TypeInv, ChargesOnce, [Next]_vars
    PROVE  ChargesOnce'
  <1>1. CASE UNCHANGED h
    BY <1>1 DEF ChargesOnce
  <1>2. CASE Crash
    BY <1>2 DEF Crash, ChargesOnce, Idle
  <1>3. ASSUME NEW t \in Threads, Handle(t) PROVE ChargesOnce'
    <2>1. Gated(t)  BY <1>3, HandlersAreGated
    <2> QED  BY <2>1 DEF Gated, ChargesOnce
  <1> QED
    BY <1>1, <1>2, <1>3 DEF Next, vars, Tick, Prune, CreateApp, IssueCode

\* Where a step of handler t leaves the number of those past the gate of b.
LEMMA PastMove ==
    ASSUME NEW t \in Threads, \A u \in Threads \ {t} : h'[u] = h[u], NEW b \in Buckets
    PROVE  /\ (b \in Charges(h'[t]) => b \in Charges(h[t])) => Past(b)' \subseteq Past(b)
           /\ b \notin Charges(h'[t]) => Past(b)' \subseteq Past(b) \ {t}
  BY DEF Past

\* What a step means to bucket b: nothing more to be charged, a request that
\* passes its gate, or a failure of one that has passed it.
LEMMA ChargeSteps ==
    ASSUME TypeInv, ChargesOnce, [Next]_vars, NEW b \in Buckets
    PROVE  \/ /\ Past(b)' \subseteq Past(b) /\ clock' \in Nat /\ clock <= clock'
              /\ b \in DOMAIN buckets' => b \in DOMAIN buckets /\ buckets'[b] = buckets[b]
           \/ /\ UNCHANGED <<clock, buckets>>
              /\ \E now \in Recent : ~ IsLocked({b}, now)
           \/ /\ UNCHANGED clock
              /\ \E t \in Past(b), now \in Recent :
                    /\ Past(b)' \subseteq Past(b) \ {t}
                    /\ buckets' = Put(buckets, b, NextFailure(b, now))
  <1>0. clock \in Nat /\ clock <= clock  BY DEF TypeInv, TypeOK, Time
  <1>1. CASE UNCHANGED <<h, buckets>> /\ clock' \in Nat /\ clock <= clock'
    BY <1>1 DEF Past
  <1>2. CASE Crash
    <2>1. Past(b)' = {}
      BY <1>2, ChargesByStage DEF Past, Crash, Idle
    <2> QED  BY <1>0, <1>2, <2>1 DEF Crash
  <1>3. ASSUME NEW t \in Threads, Handle(t), ~ RecordFailure(t)
        PROVE  \/ /\ Past(b)' \subseteq Past(b) /\ UNCHANGED clock
                  /\ b \in DOMAIN buckets' => b \in DOMAIN buckets /\ buckets'[b] = buckets[b]
               \/ /\ UNCHANGED <<clock, buckets>>
                  /\ \E now \in Recent : ~ IsLocked({b}, now)
    <2>1. Gated(t)  BY <1>3, HandlersAreGated
    <2>2. UNCHANGED clock /\ (UNCHANGED buckets \/ \E K : buckets' = Delete(buckets, K))
      BY <1>3, BucketFrame
    <2>3. b \in DOMAIN buckets' => b \in DOMAIN buckets /\ buckets'[b] = buckets[b]
      BY <2>2 DEF Delete
    <2>4. CASE b \in Charges(h'[t]) => b \in Charges(h[t])
      <3>1. Past(b)' \subseteq Past(b)  BY <2>1, <2>4, PastMove DEF Gated
      <3> QED  BY <2>2, <2>3, <3>1
    <2>5. CASE b \in Charges(h'[t]) \ Charges(h[t])
      <3>1. PICK now \in Recent : ~ IsLocked(Charges(h'[t]) \ Charges(h[t]), now)
        BY <2>1, <2>5 DEF Gated
      <3>2. ~ IsLocked({b}, now)  BY <2>5, <3>1 DEF IsLocked
      <3> QED  BY <2>1, <2>2, <2>5, <3>2 DEF Gated
    <2> QED  BY <2>4, <2>5
  <1>4. ASSUME NEW t \in Threads, RecordFailure(t)
        PROVE  \/ /\ Past(b)' \subseteq Past(b) /\ UNCHANGED clock
                  /\ b \in DOMAIN buckets' => b \in DOMAIN buckets /\ buckets'[b] = buckets[b]
               \/ /\ UNCHANGED clock
                  /\ \E u \in Past(b), now \in Recent :
                        /\ Past(b)' \subseteq Past(b) \ {u}
                        /\ buckets' = Put(buckets, b, NextFailure(b, now))
    <2> DEFINE k == Head(h[t].todo)
    <2>1. /\ h[t].pc = "record" /\ UNCHANGED clock
          /\ IF Tail(h[t].todo) = <<>> THEN Finish(t) ELSE Charge(t, Tail(h[t].todo))
      BY <1>4 DEF RecordFailure
    <2>2. PICK now \in Recent : buckets' = Put(buckets, k, NextFailure(k, now))
      BY <1>4 DEF RecordFailure
    <2>3. /\ \A u \in Threads \ {t} : h'[u] = h[u]
          /\ Charges(h'[t]) \subseteq Charges(h[t]) \ {k} /\ k \in Charges(h[t])
      BY <2>1, ChargedMove DEF Gated
    <2> HIDE DEF k
    <2>4. CASE b = k
      <3>1. t \in Past(b) /\ Past(b)' \subseteq Past(b) \ {t}
        BY <2>3, <2>4, PastMove DEF Past
      <3> QED  BY <2>1, <2>2, <2>4, <3>1
    <2>5. CASE b # k
      <3>1. Past(b)' \subseteq Past(b)  BY <2>3, PastMove
      <3>2. b \in DOMAIN buckets' => b \in DOMAIN buckets /\ buckets'[b] = buckets[b]
        BY <2>2, <2>5 DEF Put
      <3> QED  BY <2>1, <3>1, <3>2
    <2> QED  BY <2>4, <2>5
  <1>5. UNCHANGED vars \/ Tick \/ Prune \/ (\E a \in Apps : CreateApp(a) \/ IssueCode(a))
           => UNCHANGED <<h, buckets>> /\ clock' \in Nat /\ clock <= clock'
    BY <1>0 DEF vars, Tick, Prune, CreateApp, IssueCode
  <1> QED
    BY <1>0, <1>1, <1>2, <1>3, <1>4, <1>5 DEF Next

Handlers == Cardinality(Threads)

\* What is known at time c of a record rl whose bucket p handlers may still
\* charge.  Until RateLock from the start of its window, nobody has passed the
\* gate since the lock was set.  Later, and while failures still count in the
\* window, either nothing has been counted since, or a second lock holds until
\* after the window.
Within(rl, p, c) ==
    /\ rl.failures <= RateMax - 1 + 2 * Handlers
    /\ c + MaxStall < rl.windowStart + RateLock => rl.failures + p <= RateMax - 1 + Handlers
    /\ c <= rl.windowStart + RateWindow + MaxStall =>
          /\ rl.failures + p <= RateMax - 1 + 2 * Handlers
          /\ \/ rl.failures <= RateMax - 1 + Handlers
             \/ rl.windowStart + 2 * RateLock <= rl.lockedUntil + 2 * MaxStall

CountsWithin == \A b \in DOMAIN buckets : Within(buckets[b], Cardinality(Past(b)), clock)

LEMMA RateConstants ==
    /\ RateWindow \in Nat /\ RateLock \in Nat /\ MaxStall \in Nat
    /\ RateMax \in Nat /\ RateMax >= 1
  BY ServerAssumption

LEMMA WithinLater ==
    ASSUME NEW rl \in RateLimit, NEW p \in Nat, NEW q \in Nat, q <= p,
           NEW c \in Nat, NEW d \in Nat, c <= d, Handlers \in Nat, Within(rl, p, c)
    PROVE  Within(rl, q, d)
  BY RateConstants DEF Within, RateLimit

LEMMA WithinGate ==
    ASSUME NEW rl \in RateLimit, NEW p \in Nat, NEW q \in Nat, q <= Handlers,
           NEW c \in Nat, NEW now \in Nat, now <= c, rl.lockedUntil <= now, Handlers \in Nat,
           RateWindow + 3 * MaxStall < 2 * RateLock,
           rl.failures >= RateMax => rl.windowStart + RateLock <= rl.lockedUntil + MaxStall,
           Within(rl, p, c)
    PROVE  Within(rl, q, c)
  BY RateConstants DEF Within, RateLimit

LEMMA WithinFailure ==
    ASSUME NEW rl \in RateLimit, NEW new \in RateLimit,
           NEW p \in Nat, NEW q \in Nat, q + 1 <= p, p <= Handlers,
           NEW c \in Nat, NEW now \in Nat, now <= c, c <= now + MaxStall, Handlers \in Nat,
           now - rl.windowStart <= RateWindow, Within(rl, p, c),
           new.failures = rl.failures + 1, new.windowStart = rl.windowStart,
           new.failures >= RateMax => new.lockedUntil = now + RateLock
    PROVE  Within(new, q, c)
  BY RateConstants DEF Within, RateLimit

LEMMA WithinFirst ==
    ASSUME NEW new \in RateLimit, NEW q \in Nat, NEW c \in Nat,
           Handlers \in Nat, q + 1 <= Handlers, new.failures = 1
    PROVE  Within(new, q, c)
  BY RateConstants DEF Within, RateLimit

LEMMA PastCounts ==
    ASSUME IsFiniteSet(Threads), NEW S \in SUBSET Threads, NEW T \in SUBSET S
    PROVE  /\ Handlers \in Nat /\ Cardinality(S) \in Nat /\ Cardinality(T) \in Nat
           /\ Cardinality(T) <= Cardinality(S) /\ Cardinality(S) <= Handlers
           /\ \A t \in S : t \notin T => Cardinality(T) + 1 <= Cardinality(S)
  <1>1. IsFiniteSet(S) /\ Cardinality(S) <= Handlers  BY FS_Subset DEF Handlers
  <1>2. IsFiniteSet(T) /\ Cardinality(T) <= Cardinality(S)  BY <1>1, FS_Subset
  <1>3. Handlers \in Nat /\ Cardinality(S) \in Nat /\ Cardinality(T) \in Nat
    BY <1>1, <1>2, FS_CardinalityType DEF Handlers
  <1>4. ASSUME NEW t \in S, t \notin T PROVE Cardinality(T) + 1 <= Cardinality(S)
    <2>1. Cardinality(T \cup {t}) = Cardinality(T) + 1  BY <1>2, <1>4, FS_AddElement
    <2>2. Cardinality(T \cup {t}) <= Cardinality(S)  BY <1>1, <1>4, FS_Subset
    <2> QED  BY <2>1, <2>2
  <1> QED
    BY <1>1, <1>2, <1>3, <1>4

LEMMA CountsStep ==
    ASSUME IsFiniteSet(Threads), RateWindow + 3 * MaxStall < 2 * RateLock,
           LockInv, ChargesOnce, CountsWithin, [Next]_vars
    PROVE  CountsWithin'
  <1> SUFFICES ASSUME NEW b \in DOMAIN buckets'
               PROVE  Within(buckets'[b], Cardinality(Past(b))', clock')
    BY DEF CountsWithin
  <1> DEFINE p == Cardinality(Past(b))
             q == Cardinality(Past(b)')
  <1>1. /\ TypeInv /\ clock \in Nat /\ IsMap(buckets, Buckets, RateLimit)
        /\ TypeInv' /\ IsMap(buckets', Buckets, RateLimit)
        /\ b \in Buckets /\ buckets'[b] \in RateLimit
    BY TypeNext DEF LockInv, TypeInv, TypeOK, IsMap, Time
  <1>2. /\ Past(b) \subseteq Threads /\ Past(b)' \subseteq Threads
        /\ Handlers \in Nat /\ p \in Nat /\ q \in Nat /\ p <= Handlers /\ q <= Handlers
    BY PastCounts DEF Past
  <1>3. ASSUME b \in DOMAIN buckets
        PROVE  /\ buckets[b] \in RateLimit /\ Within(buckets[b], p, clock)
               /\ buckets[b].failures >= RateMax =>
                     buckets[b].windowStart + RateLock <= buckets[b].lockedUntil + MaxStall
    BY <1>1, <1>3 DEF IsMap, CountsWithin, LockInv, LockedByFailures
  <1>4. CASE /\ Past(b)' \subseteq Past(b) /\ clock' \in Nat /\ clock <= clock'
             /\ b \in DOMAIN buckets /\ buckets'[b] = buckets[b]
    <2>1. q <= p  BY <1>2, <1>4, PastCounts
    <2> QED  BY <1>1, <1>2, <1>3, <1>4, <2>1, WithinLater
  <1>5. ASSUME UNCHANGED <<clock, buckets>>, NEW now \in Recent, ~ IsLocked({b}, now)
        PROVE  Within(buckets'[b], q, clock')
    <2>1. now \in Nat /\ now <= clock  BY DEF Recent, Time
    <2>2. buckets[b].lockedUntil <= now
      <3>1. ~ (buckets[b].lockedUntil > now)  BY <1>5 DEF IsLocked
      <3>2. buckets[b].lockedUntil \in Nat  BY <1>3, <1>5 DEF RateLimit
      <3> QED  BY <2>1, <3>1, <3>2
    <2> QED  BY <1>1, <1>2, <1>3, <1>5, <2>1, <2>2, WithinGate
  <1>6. ASSUME UNCHANGED clock, NEW t \in Past(b), NEW now \in Recent,
               Past(b)' \subseteq Past(b) \ {t},
               buckets' = Put(buckets, b, NextFailure(b, now))
        PROVE  Within(buckets'[b], q, clock')
    <2> DEFINE old == OpenWindow(b, now)
               new == NextFailure(b, now)
    <2>1. now \in Nat /\ now <= clock /\ clock <= now + MaxStall  BY DEF Recent, Time
    <2>2. q + 1 <= p
      <3>1. Past(b)' \in SUBSET Past(b) /\ t \notin Past(b)'  BY <1>6
      <3> QED  BY <1>2, <3>1, PastCounts
    <2>3. buckets'[b] = new /\ new \in RateLimit  BY <1>1, <1>6 DEF Put
    <2>4. old \in RateLimit
      BY <1>1, <2>1 DEF OpenWindow, IsMap, RateLimit
    <2>5. /\ new.failures = old.failures + 1 /\ new.windowStart = old.windowStart
          /\ new.failures >= RateMax => new.lockedUntil = now + RateLock
      BY <2>4 DEF NextFailure, RateLimit, Locks
    <2>6. CASE b \in DOMAIN buckets /\ now - buckets[b].windowStart <= RateWindow
      <3>1. old = buckets[b]  BY <2>6 DEF OpenWindow
      <3> HIDE DEF old, new
      <3> QED
        BY <1>1, <1>2, <1>3, <1>6, <2>1, <2>2, <2>3, <2>4, <2>5, <2>6, <3>1, WithinFailure
    <2>7. CASE ~ (b \in DOMAIN buckets /\ now - buckets[b].windowStart <= RateWindow)
      <3>1. old.failures = 0  BY <2>7 DEF OpenWindow
      <3>2. new.failures = 1  BY <2>5, <3>1
      <3>3. q + 1 <= Handlers  BY <1>2, <2>2
      <3> HIDE DEF old, new
      <3> QED  BY <1>1, <1>2, <1>6, <2>3, <3>2, <3>3, WithinFirst
    <2> QED  BY <2>6, <2>7
  <1> QED
    BY <1>1, <1>4, <1>5, <1>6, ChargeSteps

\* However many handlers have passed the gate of a bucket, its count overshoots
\* the limit by no more than two per handler: RateLock is 3600 s as RateWindow
\* is, so that the condition holds while no clock value is older than 1199 s.
THEOREM FailuresAreBounded ==
    ASSUME IsFiniteSet(Threads), RateWindow + 3 * MaxStall < 2 * RateLock
    PROVE  Spec => []FailuresBounded
  <1> DEFINE CountInv == LockInv /\ ChargesOnce /\ CountsWithin
  <1>1. Init => CountInv
    BY TypeInit DEF Init, LockInv, WindowsOpened, LockedByFailures, ChargesOnce,
                    CountsWithin, Idle
  <1>2. CountInv /\ [Next]_vars => CountInv'
    BY TypeNext, LockStep, ChargesOnceStep, CountsStep DEF LockInv
  <1>3. CountInv => FailuresBounded
    BY DEF CountsWithin, Within, FailuresBounded, Handlers
  <1> QED
    BY <1>1, <1>2, <1>3, PTL DEF Spec

============================================================================
