------------------------------- MODULE Server ------------------------------
(***************************************************************************)
(* The licence server, internal/server, on top of the repository of module *)
(* Store: HTTP handlers that run concurrently, each of them a sequence of  *)
(* separate store transactions with the wall clock read in between, the    *)
(* administrator's operations, the nonce pruner and the crash of the       *)
(* process.  A store transaction (Repo.Update, Repo.View) is one step: the *)
(* key-value engine serialises writers.  A crash inside a commit, which    *)
(* may leave a prefix of the transaction, is in modules TxMap and KV.      *)
(*                                                                         *)
(* What makes it hard is what happens between two steps of one handler: a  *)
(* bucket passes the gate and is locked afterwards, a key is loaded and    *)
(* then destroyed, a clock value is read and used later, a success clears  *)
(* failures that others are recording.                                     *)
(***************************************************************************)
EXTENDS Store, Sequences

CONSTANTS
    Threads,     \* handler goroutines
    Requests,    \* the requests that may arrive, each any number of times
    AppMaxes,    \* max_devices arguments of CreateApp
    AppTtls,     \* ttl_seconds arguments of CreateApp
    DefaultTtl,  \* the ttl CreateApp substitutes for an argument <= 0
    CodeMaxes,   \* max_devices arguments of IssueCode
    CodeTtls,    \* code_ttl_seconds arguments of IssueCode
    TSWindow,    \* Server.TSWindow, 300 s
    NonceTTL,    \* Server.NonceTTL, 600 s
    RateMax,     \* rateMaxFailures, 10
    RateWindow,  \* rateWindow, 3600 s
    RateLock,    \* rateLock, 3600 s
    MaxStall,    \* bound on the age of a clock value when it is used
    MaxTime      \* bound on the clock

\* wellFormed stands for everything the handler checks of the payload alone.
ActivateRequest == [kind : {"activate"}, app : Apps, plain : Plains, ip : Ips,
                    nonce : Nonces, ts : Nat, wellFormed : BOOLEAN]
KickoutRequest  == [kind : {"kickout"}, app : Apps, plain : Plains, ip : Ips,
                    nonce : Nonces, ts : Nat, wellFormed : BOOLEAN]
\* lic names a licence by the device it was issued to.  A "fetch_data"
\* request stands for list_devices, fetch_data and unknown actions alike.
BizRequest == [kind : {"fetch_data", "remove_device", "refresh"}, app : Apps,
               dev : DeviceIds, lic : DeviceIds, target : DeviceIds,
               nonce : Nonces, ts : Nat]

ASSUME ServerAssumption ==
    /\ Requests \subseteq ActivateRequest \cup KickoutRequest \cup BizRequest
    /\ AppMaxes \subseteq Int /\ AppTtls \subseteq Int
    /\ CodeMaxes \subseteq Int /\ CodeTtls \subseteq Int
    /\ DefaultTtl \in Nat \ {0}
    /\ {TSWindow, NonceTTL, RateWindow, RateLock, MaxStall, MaxTime} \subseteq Nat
    /\ RateMax \in Nat \ {0}

VARIABLES
    clock,       \* wall clock, seconds
    apps,        \* app:   -> Application
    codes,       \* code:  -> ActivationCode
    devices,     \* dev:   -> Device
    licenses,    \* lic:   -> License, by device
    keys,        \* key:   -> KeyStatus, by device
    nonces,      \* nonce: -> second of lapse
    buckets,     \* rl:    -> RateLimit
    h,           \* each thread's handler
    ran          \* history: the clock values with which each request ran

registry == <<devices, licenses, keys>>
vars == <<clock, apps, codes, devices, licenses, keys, nonces, buckets, h, ran>>

Time == 0..MaxTime
Idle == [pc |-> "idle"]
Stages == {"validate", "gateCode", "tx", "clearIp", "clearCode", "record",
           "decrypt", "bizTx"}
\* now: the handler's captured clock; ttl: that of the application record
\* which LoadKey read; todo: buckets still to be charged.
Handler == [pc : Stages, req : Requests, now : Time, ttl : Nat, todo : Seq(Buckets)]
Enter(stage, r, ttl) == [pc |-> stage, req |-> r, now |-> 0, ttl |-> ttl, todo |-> <<>>]

IpBucket(r) == <<"ip", r.ip>>
AppBucket(r) == <<"app", r.app>>
CodeBucket(r) == <<"code", CodeHash(r.app, r.plain)>>
NonceKey(r) == <<r.app, r.nonce>>

\* The values a clock read just before a transaction may have when the
\* transaction runs: Repo.Update waits for the writer lock.
Recent == {n \in Time : n <= clock /\ clock <= n + MaxStall}

Goto(t, stage) == h' = [h EXCEPT ![t].pc = stage]
Finish(t) == h' = [h EXCEPT ![t] = Idle]
\* s.fail with a counted error: the buckets are charged one by one.
Charge(t, bs) == h' = [h EXCEPT ![t].pc = "record", ![t].now = 0, ![t].todo = bs]

----------------------------------------------------------------------------
(* Rate limiting. *)

IsLocked(bs, now) == \E b \in bs \cap DOMAIN buckets : buckets[b].lockedUntil > now

\* The first half of recordFailure: the record of a bucket in a window that
\* is still open at now.
OpenWindow(b, now) ==
    IF b \in DOMAIN buckets /\ now - buckets[b].windowStart <= RateWindow
    THEN buckets[b]
    ELSE [failures |-> 0, windowStart |-> now, lockedUntil |-> 0]

\* Mutant: only the RateMax-th failure locks, not those after it.
Locks_Once(failures) == failures = RateMax

Locks(failures) == failures >= RateMax

\* Mutant: the lock is counted from the start of the window.
NextFailure_FromStart(b, now) ==
    LET rl == OpenWindow(b, now)
        n == rl.failures + 1
    IN  [rl EXCEPT !.failures = n,
                   !.lockedUntil = IF Locks(n) THEN rl.windowStart + RateLock ELSE @]

\* The second half: count, and lock.
NextFailure(b, now) ==
    LET rl == OpenWindow(b, now)
        n == rl.failures + 1
    IN  [rl EXCEPT !.failures = n,
                   !.lockedUntil = IF Locks(n) THEN now + RateLock ELSE @]

\* Mutant: a request is never too old.
InWindow_NeverStale(ts, now) == ts - now <= TSWindow

InWindow(ts, now) == ts - now <= TSWindow /\ now - ts <= TSWindow

----------------------------------------------------------------------------
(* Anonymous requests: activate and emergency kickout. *)

\* The request arrives and passes, or is refused at, the gate on its address
\* and application.  A refused request leaves no trace.
Gate(t, r) ==
    /\ h[t] = Idle
    /\ r.kind \in {"activate", "kickout"}
    /\ \E now \in Recent : ~ IsLocked({IpBucket(r), AppBucket(r)}, now)
    /\ h' = [h EXCEPT ![t] = Enter("validate", r, 0)]
    /\ UNCHANGED <<clock, apps, codes, registry, nonces, buckets, ran>>

\* Payload and timestamp checks; a failure charges address and application.
Validate(t) ==
    /\ h[t].pc = "validate"
    /\ LET r == h[t].req IN
       IF r.wellFormed /\ InWindow(r.ts, clock)
       THEN h' = [h EXCEPT ![t].pc = "gateCode", ![t].now = clock]
       ELSE Charge(t, <<IpBucket(r), AppBucket(r)>>)
    /\ UNCHANGED <<clock, apps, codes, registry, nonces, buckets, ran>>

GateCode(t) ==
    /\ h[t].pc = "gateCode"
    /\ \E now \in Recent : IF IsLocked({CodeBucket(h[t].req)}, now)
                           THEN Finish(t) ELSE Goto(t, "tx")
    /\ UNCHANGED <<clock, apps, codes, registry, nonces, buckets, ran>>

\* Mutant: the expiry of the code is not checked.
CodeUsable_Expired(c, now) == c \in DOMAIN codes

CodeUsable(c, now) ==
    c \in DOMAIN codes /\ (codes[c].expires > 0 => now <= codes[c].expires)

\* What the transactions of both handlers ask before they act.
Admissible(r, now) ==
    /\ r.app \in DOMAIN apps
    /\ CodeUsable(CodeHash(r.app, r.plain), now)
    /\ Claimable(nonces, NonceKey(r), now)

\* Unknown application, bad code or replayed nonce: the transaction rolls
\* back and all three buckets are charged.
RefuseTx(t) ==
    /\ h[t].pc = "tx"
    /\ LET r == h[t].req IN
       /\ ~ Admissible(r, h[t].now)
       /\ Charge(t, <<IpBucket(r), AppBucket(r), CodeBucket(r)>>)
    /\ UNCHANGED <<clock, apps, codes, registry, nonces, buckets, ran>>

\* Mutant: off by one.
HasRoom_OneMore(r) ==
    LET c == CodeHash(r.app, r.plain) IN
    CountActiveDevices(devices, c) <= MaxDevicesOf(codes[c], apps[r.app])

HasRoom(r) ==
    LET c == CodeHash(r.app, r.plain) IN
    CountActiveDevices(devices, c) < MaxDevicesOf(codes[c], apps[r.app])

\* 2003, 2007 and 2009 roll back, the nonce included, and charge nothing.
Unserved(t) ==
    /\ h[t].pc = "tx"
    /\ LET r == h[t].req IN
       /\ Admissible(r, h[t].now)
       /\ \/ r.kind = "activate" /\ ~ HasRoom(r)
          \/ r.kind = "kickout" /\ ActiveDevicesOfCode(devices, CodeHash(r.app, r.plain)) = {}
    /\ Finish(t)
    /\ UNCHANGED <<clock, apps, codes, registry, nonces, buckets, ran>>

\* After the commit the handler goes on to clear its buckets, unless Update
\* reports the failed compaction that followed the commit: then it answers
\* 5000 and ends.
AfterCommit(t) ==
    \/ h' = [h EXCEPT ![t].pc = "clearIp", ![t].now = 0]
    \/ Finish(t)

Activate(t) ==
    /\ h[t].pc = "tx"
    /\ LET r == h[t].req
           now == h[t].now
           c == CodeHash(r.app, r.plain)
       IN /\ r.kind = "activate" /\ Admissible(r, now) /\ HasRoom(r)
          /\ \E d \in DeviceIds \ DOMAIN devices :
                /\ devices' = Put(devices, d, [app |-> r.app, code |-> c,
                                    registered |-> now, seen |-> now, status |-> "active"])
                /\ licenses' = Put(licenses, d, [expires |-> now + apps[r.app].ttl,
                                                 status |-> "active"])
                /\ keys' = Put(keys, d, "active")
          /\ nonces' = ClaimNonce(nonces, NonceKey(r), now, NonceTTL)
          /\ ran' = [ran EXCEPT ![r] = Append(@, now)]
    /\ AfterCommit(t)
    /\ UNCHANGED <<clock, apps, codes, buckets>>

Retire(d) ==
    /\ devices' = RetiredDevices(devices, d)
    /\ licenses' = RetiredLicenses(licenses, d)
    /\ keys' = DestroyedKeys(keys, d)

Kickout(t) ==
    /\ h[t].pc = "tx"
    /\ LET r == h[t].req
           now == h[t].now
           c == CodeHash(r.app, r.plain)
       IN /\ r.kind = "kickout" /\ Admissible(r, now)
          /\ ActiveDevicesOfCode(devices, c) # {}
          /\ Retire(EarliestActiveDevice(devices, c))
          /\ nonces' = ClaimNonce(nonces, NonceKey(r), now, NonceTTL)
          /\ ran' = [ran EXCEPT ![r] = Append(@, now)]
    /\ AfterCommit(t)
    /\ UNCHANGED <<clock, apps, codes, buckets>>

\* One call of recordFailure: a transaction of its own for each bucket.
RecordFailure(t) ==
    /\ h[t].pc = "record"
    /\ LET b == Head(h[t].todo)
           rest == Tail(h[t].todo)
       IN /\ \E now \in Recent : buckets' = Put(buckets, b, NextFailure(b, now))
          /\ IF rest = <<>> THEN Finish(t) ELSE Charge(t, rest)
    /\ UNCHANGED <<clock, apps, codes, registry, nonces, ran>>

ClearIp(t) ==
    /\ h[t].pc = "clearIp"
    /\ buckets' = Delete(buckets, {IpBucket(h[t].req), AppBucket(h[t].req)})
    /\ Goto(t, "clearCode")
    /\ UNCHANGED <<clock, apps, codes, registry, nonces, ran>>

ClearCode(t) ==
    /\ h[t].pc = "clearCode"
    /\ buckets' = Delete(buckets, {CodeBucket(h[t].req)})
    /\ Finish(t)
    /\ UNCHANGED <<clock, apps, codes, registry, nonces, ran>>

----------------------------------------------------------------------------
(* Business requests. *)

\* The first transaction of handleBiz: the application, kept for the second
\* one, and the device's key.
\* A request whose key is missing or destroyed leaves no trace.
LoadKey(t, r) ==
    /\ h[t] = Idle
    /\ r.kind \in {"fetch_data", "remove_device", "refresh"}
    /\ r.app \in DOMAIN apps
    /\ r.dev \in DOMAIN keys
    /\ devices[r.dev].app = r.app /\ keys[r.dev] = "active"
    /\ h' = [h EXCEPT ![t] = Enter("decrypt", r, apps[r.app].ttl)]
    /\ UNCHANGED <<clock, apps, codes, registry, nonces, buckets, ran>>

\* Mutant: the clock was read when the request arrived, any time earlier.
Decrypt_EarlyClock(t) ==
    /\ h[t].pc = "decrypt"
    /\ \E n \in 0..clock : h' = [h EXCEPT ![t].pc = "bizTx", ![t].now = n]
    /\ UNCHANGED <<clock, apps, codes, registry, nonces, buckets, ran>>

\* Decryption with the loaded key, then the clock is captured.
Decrypt(t) ==
    /\ h[t].pc = "decrypt"
    /\ h' = [h EXCEPT ![t].pc = "bizTx", ![t].now = clock]
    /\ UNCHANGED <<clock, apps, codes, registry, nonces, buckets, ran>>

BizReplay(t) ==
    /\ h[t].pc = "bizTx"
    /\ ~ Claimable(nonces, NonceKey(h[t].req), h[t].now)
    /\ Finish(t)
    /\ UNCHANGED <<clock, apps, codes, registry, nonces, buckets, ran>>

\* Mutant: the revocation of the licence is not checked.
LicenseStands_Revoked(r, now) == r.kind # "refresh" => now <= licenses[r.lic].expires

\* Mutant: its expiry is not checked.
LicenseStands_Expired(r, now) == licenses[r.lic].status # "revoked"

\* Only a refresh is let through after the expiry, and nothing after a
\* revocation.  (expires is never 0 here: a licence always has a ttl.)
LicenseStands(r, now) ==
    /\ licenses[r.lic].status # "revoked"
    /\ r.kind # "refresh" => now <= licenses[r.lic].expires

\* The checks between the claim of the nonce and dispatchBiz.
BizGranted(r, now) ==
    /\ InWindow(r.ts, now)
    /\ r.dev \in DOMAIN devices /\ devices[r.dev].status = "active"
    /\ r.lic \in DOMAIN licenses
    /\ r.lic = r.dev /\ devices[r.lic].app = r.app
    /\ LicenseStands(r, now)

\* A check fails: the transaction still commits, so the nonce is spent.
BizRefuse(t) ==
    /\ h[t].pc = "bizTx"
    /\ LET r == h[t].req IN
       /\ Claimable(nonces, NonceKey(r), h[t].now)
       /\ ~ BizGranted(r, h[t].now)
       /\ nonces' = ClaimNonce(nonces, NonceKey(r), h[t].now, NonceTTL)
    /\ Finish(t)
    /\ UNCHANGED <<clock, apps, codes, registry, buckets, ran>>

\* The part common to every granted request r of thread t.
BizTx(t, r, now) ==
    /\ Claimable(nonces, NonceKey(r), now)
    /\ BizGranted(r, now)
    /\ nonces' = ClaimNonce(nonces, NonceKey(r), now, NonceTTL)
    /\ ran' = [ran EXCEPT ![r] = Append(@, now)]
    /\ Finish(t)
    /\ UNCHANGED <<clock, apps, codes, buckets>>

\* The end of every granted transaction: the device record read at its
\* start is written back whole, with a new last_seen_at.
WriteBack(ds, d, now) == Put(ds, d, [devices[d] EXCEPT !.seen = now])

\* remove_device takes effect on a device of the same code that is active.
Removable(r) ==
    /\ r.kind = "remove_device"
    /\ r.target \in DOMAIN devices
    /\ devices[r.target].code = devices[r.dev].code
    /\ devices[r.target].status = "active"

\* Actions that change nothing but last_seen_at: reads, unknown actions,
\* and the removal of a foreign or an already removed device.
BizRead(t) ==
    /\ h[t].pc = "bizTx"
    /\ LET r == h[t].req
           now == h[t].now
       IN /\ BizTx(t, r, now)
          /\ r.kind # "refresh" /\ ~ Removable(r)
          /\ devices' = WriteBack(devices, r.dev, now)
    /\ UNCHANGED <<licenses, keys>>

BizRemove(t) ==
    /\ h[t].pc = "bizTx"
    /\ LET r == h[t].req
           now == h[t].now
       IN /\ BizTx(t, r, now)
          /\ Removable(r)
          /\ devices' = WriteBack(RetiredDevices(devices, r.target), r.dev, now)
          /\ licenses' = RetiredLicenses(licenses, r.target)
          /\ keys' = DestroyedKeys(keys, r.target)

BizRefresh(t) ==
    /\ h[t].pc = "bizTx"
    /\ LET r == h[t].req
           now == h[t].now
       IN /\ BizTx(t, r, now)
          /\ r.kind = "refresh"
          /\ licenses' = Put(licenses, r.lic, [expires |-> now + h[t].ttl,
                                               status |-> "active"])
          /\ devices' = WriteBack(devices, r.dev, now)
    /\ UNCHANGED keys

----------------------------------------------------------------------------
(* Administration, maintenance and the environment. *)

\* Mutant: the arguments are taken as they come.
CreateApp_NoDefaults(a) ==
    /\ \E m \in AppMaxes, ttl \in AppTtls :
          apps' = Put(apps, a, [max |-> m, ttl |-> ttl])
    /\ UNCHANGED <<clock, codes, registry, nonces, buckets, h, ran>>

\* CreateApp also updates an application in place, its limit included.
CreateApp(a) ==
    /\ \E m \in AppMaxes, ttl \in AppTtls :
          apps' = Put(apps, a, [max |-> IF m <= 0 THEN 1 ELSE m,
                                ttl |-> IF ttl <= 0 THEN DefaultTtl ELSE ttl])
    /\ UNCHANGED <<clock, codes, registry, nonces, buckets, h, ran>>

\* A code is drawn at random: it was never issued before.
IssueCode(a) ==
    /\ a \in DOMAIN apps
    /\ \E p \in Plains, m \in CodeMaxes, ttl \in CodeTtls, now \in Recent :
          /\ CodeHash(a, p) \notin DOMAIN codes
          /\ codes' = Put(codes, CodeHash(a, p),
                          [max |-> m, expires |-> IF ttl > 0 THEN now + ttl ELSE 0])
    /\ UNCHANGED <<clock, apps, registry, nonces, buckets, h, ran>>

Prune ==
    /\ \E now \in Recent : nonces' = PruneNonces(nonces, now)
    /\ UNCHANGED <<clock, apps, codes, registry, buckets, h, ran>>

\* An Update fails and rolls back: the transaction of a request ends the
\* request (5000, not counted); the error of recordFailure and of
\* clearFailures is ignored.
StoreFails(t) ==
    /\ \/ h[t].pc \in {"tx", "bizTx"} /\ Finish(t)
       \/ h[t].pc = "clearIp" /\ Goto(t, "clearCode")
       \/ h[t].pc = "clearCode" /\ Finish(t)
       \/ h[t].pc = "record" /\ IF Tail(h[t].todo) = <<>> THEN Finish(t)
                                ELSE Charge(t, Tail(h[t].todo))
    /\ UNCHANGED <<clock, apps, codes, registry, nonces, buckets, ran>>

\* The process dies and restarts: committed data survives, handlers do not.
Crash ==
    /\ h' = [t \in Threads |-> Idle]
    /\ UNCHANGED <<clock, apps, codes, registry, nonces, buckets, ran>>

\* Time passes, but not while a captured clock value would outlive MaxStall.
Tick ==
    /\ clock < MaxTime
    /\ \A t \in Threads : h[t].pc \in {"gateCode", "tx", "bizTx"}
                             => clock + 1 <= h[t].now + MaxStall
    /\ clock' = clock + 1
    /\ UNCHANGED <<apps, codes, registry, nonces, buckets, h, ran>>

----------------------------------------------------------------------------

Init ==
    /\ clock = 0
    /\ apps = <<>> /\ codes = <<>>
    /\ devices = <<>> /\ licenses = <<>> /\ keys = <<>>
    /\ nonces = <<>> /\ buckets = <<>>
    /\ h = [t \in Threads |-> Idle]
    /\ ran = [r \in Requests |-> <<>>]

Handle(t) ==
    \/ \E r \in Requests : Gate(t, r) \/ LoadKey(t, r)
    \/ Validate(t) \/ GateCode(t) \/ RefuseTx(t) \/ Unserved(t)
    \/ Activate(t) \/ Kickout(t)
    \/ RecordFailure(t) \/ ClearIp(t) \/ ClearCode(t)
    \/ Decrypt(t) \/ BizReplay(t) \/ BizRefuse(t)
    \/ BizRead(t) \/ BizRemove(t) \/ BizRefresh(t)
    \/ StoreFails(t)

Next ==
    \/ Tick \/ Prune \/ Crash
    \/ \E a \in Apps : CreateApp(a) \/ IssueCode(a)
    \/ \E t \in Threads : Handle(t)

Spec == Init /\ [][Next]_vars

----------------------------------------------------------------------------
(* Correctness. *)

TypeOK ==
    /\ clock \in Time
    /\ IsMap(apps, Apps, Application)
    /\ IsMap(codes, CodeHashes, ActivationCode)
    /\ IsMap(devices, DeviceIds, Device)
    /\ IsMap(licenses, DeviceIds, License)
    /\ IsMap(keys, DeviceIds, KeyStatus)
    /\ IsMap(nonces, Apps \X Nonces, Nat)
    /\ IsMap(buckets, Buckets, RateLimit)
    /\ h \in [Threads -> {Idle} \cup Handler]
    /\ ran \in [Requests -> Seq(Time)]

\* A device, its licence and its key are created together, and a key is
\* usable exactly while the licence stands: neither kickout nor remove_device,
\* interleaved with refreshes and write-backs, leaves a revoked device with a
\* working key or a licensed one without.  A removed device is revoked.
KeyFollowsLicense ==
    /\ DOMAIN licenses = DOMAIN devices /\ DOMAIN keys = DOMAIN devices
    /\ \A d \in DOMAIN devices :
          /\ keys[d] = "active" <=> licenses[d].status = "active"
          /\ devices[d].status = "removed" => licenses[d].status = "revoked"

\* No step revives what was retired: a refresh in flight while its device is
\* kicked out (biz.go writes status active into the licence) must not undo
\* the revocation, nor a write-back of last_seen_at the removal.
RevocationIsFinal ==
    [][\A d \in DOMAIN devices :
          /\ licenses[d].status = "revoked" => licenses'[d].status = "revoked"
          /\ keys[d] = "destroyed" => keys'[d] = "destroyed"
          /\ devices[d].status = "removed" => devices'[d].status = "removed"]_vars

\* Concurrent activations never take a code beyond the limit in force; only
\* lowering the limit (CreateApp) can leave a code above it.
QuotaRespected ==
    [][\A c \in DOMAIN codes :
          CountActiveDevices(devices', c) > CountActiveDevices(devices, c)
             => CountActiveDevices(devices', c) <= MaxDevicesOf(codes[c], apps[c[1]])]_vars

\* Every step of every handler is one of the moves that Registry allows, or
\* none: the oldest device goes first, a removal is asked for by a working
\* device of the same code, an activation finds room, and device, licence and
\* key change in that one step, however requests, the administrator, failures
\* and crashes interleave.
Abstract == INSTANCE Registry WITH
    Ids <- DeviceIds, Codes <- CodeHashes, Times <- Time,
    issued <- [d \in DOMAIN devices |-> [code |-> devices[d].code,
                                         since |-> devices[d].registered]],
    slots <- {d \in DOMAIN devices : devices[d].status = "active"},
    usable <- {d \in DOMAIN keys : keys[d] = "active"},
    limit <- [c \in DOMAIN codes |-> MaxDevicesOf(codes[c], apps[c[1]])],
    evictions <- [r \in {q \in Requests : q.kind = "kickout"} |-> ran[r]]
ImplementsRegistry == Abstract!Spec

\* A business request is carried out only for a device whose licence and key
\* stand at that moment, although the key was read in an earlier transaction;
\* and, a refresh apart, only until the licence expires, give or take the age
\* of the clock value that the handler captured.
ServedWhileLive ==
    [][\A r \in Requests \cap BizRequest :
          ran'[r] # ran[r] =>
             /\ licenses[r.dev].status = "active" /\ keys[r.dev] = "active"
             /\ r.kind # "refresh" => clock <= licenses[r.dev].expires + MaxStall]_vars

\* An activation or a kickout is carried out only with an activation code that
\* exists and is in force, although the clock that the expiry is compared with
\* was read before the gate on the code and the wait for the writer lock.
CodeInForce ==
    [][\A r \in Requests \ BizRequest :
          ran'[r] # ran[r] =>
             LET c == CodeHash(r.app, r.plain) IN
             /\ c \in DOMAIN codes
             /\ codes[c].expires > 0 => clock <= codes[c].expires + MaxStall]_vars

\* last_seen_at may step back when two requests of a device overlap, because
\* each writes the clock value it captured; never by more than MaxStall.
SeenRegression ==
    [][\A d \in DOMAIN devices : devices[d].seen <= devices'[d].seen + MaxStall]_vars

\* Whatever the two durations are, repeated executions of one request lie at
\* least NonceTTL - MaxStall apart, the pruner notwithstanding.
ReplayGap ==
    \A r \in Requests : \A i, j \in 1..Len(ran[r]) :
        i < j => ran[r][i] + NonceTTL <= ran[r][j] + MaxStall

\* So the check of the timestamp and the nonces limit together how often one
\* request is carried out: at most twice with NonceTTL = 2 * TSWindow = 600 and
\* any MaxStall below 300.
RepeatsLimited ==
    \A r \in Requests : ran[r] # <<>> =>
        (Len(ran[r]) - 1) * (NonceTTL - MaxStall) <= 2 * TSWindow

\* What is carried out again was stamped ahead of the clock when it was carried
\* out before: by all of TSWindow with NonceTTL = 2 * TSWindow and no stall, and
\* never by less than NonceTTL - TSWindow - MaxStall.  The check of the
\* timestamp, the nonce's lapse and the pruner together let nothing else repeat.
RepeatedIsAhead ==
    \A r \in Requests : \A i, j \in 1..Len(ran[r]) :
        i < j => ran[r][i] + NonceTTL <= r.ts + TSWindow + MaxStall

\* A bucket is locked by the RateMax-th failure of its window, and by those
\* after it, and by nothing else: from the failure that a step records the lock
\* lasts RateLock seconds, give or take the age of the clock value read before
\* the transaction, and a failure recorded late, behind a younger one, shortens
\* the lock of its window by no more than that.
LockFollowsFailures ==
    [][\A b \in DOMAIN buckets' :
          b \notin DOMAIN buckets \/ buckets'[b] # buckets[b] =>
             LET rl == buckets'[b] IN
             /\ rl.failures < RateMax => rl.lockedUntil = 0
             /\ rl.failures >= RateMax =>
                   /\ clock <= rl.windowStart + RateWindow + MaxStall
                   /\ rl.lockedUntil <= clock + RateLock
                   /\ clock + RateLock <= rl.lockedUntil + MaxStall
             /\ b \in DOMAIN buckets /\ buckets[b].windowStart = rl.windowStart =>
                   buckets[b].lockedUntil <= rl.lockedUntil + MaxStall]_vars

\* The gate and the count are separate transactions, so requests already past
\* the gate overshoot the limit: by one per thread when the bucket is first
\* locked, and by one per thread again when the lock lapses in the very second
\* in which the window is not yet over.
FailuresBounded ==
    \A b \in DOMAIN buckets :
        buckets[b].failures <= RateMax - 1 + 2 * Cardinality(Threads)

----------------------------------------------------------------------------
(* What the documents say and the code does not do. *)

\* SPEC section 4.2, remove_device: the device is marked removed together
\* with the revocation of its licence.
RevokedIsRemoved ==
    \A d \in DOMAIN devices :
        licenses[d].status = "revoked" => devices[d].status = "removed"

\* SPEC section 11: a request whose nonce was seen before is answered 1004, so
\* that the same request is never carried out twice.
NoReplay == \A r \in Requests : Len(ran[r]) <= 1

\* SPEC section 9.4: ten failures lock the bucket for one hour.  Recording a
\* further failure must not end a lock that is in force.
LockSurvivesFailure ==
    [][\A t \in Threads : RecordFailure(t) =>
          \A b \in DOMAIN buckets : buckets[b].lockedUntil > clock
             => buckets'[b].lockedUntil > clock]_vars

============================================================================
