# gsignver in TLA+

Models of the gsignver licence server, the runs that check them with TLC, and
theorems about them that TLAPS checks. Paths are relative to the repository
(`internal/...`, `cmd/...`); SPEC.md is its protocol document.

## The system

| part | state it keeps | operations |
|---|---|---|
| HTTP handlers (`internal/server`) | only what a goroutine holds between two steps: request, captured clock, application read, buckets to charge | `activate`, `emergency/kickout`, `biz` (list_devices, remove_device, refresh, fetch_data), admin endpoints |
| rate limiter (`server.go`) | buckets `ip:`, `app:`, `code:` in the store: failures, window start, locked until | gate, recordFailure, clearFailures |
| repository (`internal/store`) | records: applications, codes, devices, licences, shared keys, nonces, buckets, and two indices | one method per record; RetireDevice, ClaimNonce, PruneNonces |
| key-value engine (`internal/kv`) | a map in memory, an append-only log, a snapshot, a file lock | Open, View, Update, compaction, Close |
| key management (`internal/kms`) | master key and pepper, in two files | Open, Seal, CodeHash |
| administration (`internal/admin`) | none | CreateApp, IssueCode, from the command line or over HTTP |
| server process (`cmd/gsignver`) | none | start, nonce pruner every 10 minutes, graceful stop |
| client (`internal/client`) | device id, key, licence, device key pair | Activate, Biz, Kickout |
| `wire`, `cryptox`, `ulid` | none | encodings, primitives, random ids |

Handlers run concurrently, one goroutine for each request, and share nothing
but the store. `Repo.Update` and `Repo.View` hold one mutex, so a single
transaction is atomic; but a handler makes several. An activation reads the
buckets of its address and application, reads the clock, reads the bucket of
its code, runs the transaction, and clears the buckets in two more; a refused
one charges up to three buckets in three transactions. A business request
loads its key and its application in one transaction and acts in another. Every
clock value is read outside the transaction that uses it, which may wait for
the writer lock. The pruner, the administrator and a crash come in between.

What makes each part correct:

* registry: a code never grows beyond its limit; device, licence and key of
  one identity agree; what is retired stays retired; nothing is served on a
  key that was read before its device was retired;
* nonces: no request is carried out twice, or only one stamped ahead of the clock;
* rate limiter: a lock comes from `rateMaxFailures` failures of one window and
  lasts; the requests already past the gate overshoot by a bounded number;
* key-value engine: what a transaction committed survives a crash, and of one that
  is interrupted the recovery sees all or nothing, or at least a prefix;
* start-up: one process owns the data directory and its keys;
* client: it ends up with an identity that the server knows, whatever messages
  are lost, and gets in after 2003 by kicking a device out.

## Modules

### Store.tla: the repository

Pure operators on the maps of a transaction. A bucket of the key space is a
partial function (`Put` and `Delete` are those of `kv.Tx`). The indices are not
separate: `idx:code2dev:` is written once, with its device, and each device gets
exactly one licence and one key, in the transaction that creates it, so
licences and keys are indexed by device. Fields that no operation reads
(names, editions, descriptions) and `ActivationCode.Status`, which nothing
changes, are left out. `CodeHash` is the pair of application and plain code: a
keyed digest without collisions. `Precedes` is the order of
`ActiveDevicesOfCode`, by registration and then by id.

### Server.tla: the handlers

| code | actions |
|---|---|
| `gate` on address and application | `Gate` (a refused request leaves no trace) |
| payload and timestamp checks | `Validate` |
| `gate` on the code | `GateCode` |
| the transaction of `handleActivate`, `handleKickout` | `Activate`, `Kickout`; `RefuseTx` for errors that are counted, `Unserved` for 2003, 2007 and 2009 |
| `s.fail`, one `recordFailure` for each bucket | `RecordFailure` |
| the two calls of `clearFailures` | `ClearIp`, `ClearCode` |
| `handleBiz`: `View`, decryption and clock | `LoadKey`, `Decrypt` |
| `handleBiz`: `Update` | `BizReplay`, `BizRefuse` (commits: the nonce is spent), `BizRead`, `BizRemove`, `BizRefresh` |
| `admin.CreateApp`, `admin.IssueCode` | `CreateApp`, `IssueCode` |
| the pruner's ticker | `Prune`, at any time |
| an `Update` that fails | `StoreFails`; `AfterCommit` has the case of a failed compaction after the commit |
| death and restart of the process | `Crash` |

`h[t]` is the handler that goroutine `t` runs: the stage it waits at, its
request, the clock value it captured, the ttl of the application record
`LoadKey` read, and the buckets it still has to charge. Requests come from the
constant `Requests`, each at any time and any number of times, so repeated and
reordered delivery is included. `ran` is history: the captured clock values
with which each request was carried out.

A clock value that is read right before the transaction that uses it is
`\E now \in Recent`; one that a handler holds over several steps is a field of
`h`, and `Tick` waits while a captured value would grow older than `MaxStall`.
`MaxStall` bounds waiting for the lock; it is a constant, and the properties
that depend on it say how.

Assumed: transactions are durable and atomic (`TxMap`, but without the crash in the
middle of a commit, which may leave a prefix of it: see the run `torn`),
the wall clock does not go back, device ids, codes and licence ids are fresh
(random in the code), and a ciphertext opens under the device's key only.

### Registry.tla: what the server promises of devices

The abstract specification that both `Server` and `Client` implement: devices
that were issued, the `slots` they take, the keys that are `usable`, the `limit`
of each code, and the evictions served, changed by four kinds of step. `Enrol` needs a free
slot, `Evict` takes the device in place for the longest time, `Remove` needs a
working device of the same code, `SetLimits` is the administrator's. There are
no handlers, clocks, messages or nonces in it. `Remove(i, i)` keeps the slot: what
`biz.go:125` makes of a device that removes itself is part of what the server
does, and the run `self_removal` says that it should not be.

Mapping of `Server`: a slot is a device of status active, a usable key one that
is active, the limit of a code `MaxDevicesOf` it, and the record of the evictions
the executions of kickout requests, so that an eviction and its history come in
one step. Mapping of `Client`: the same, with `Limit` and the effects in `done`.

### KVLog.tla, TxMap.tla, KV.tla: the key-value engine

`KVLog` says what the files mean: a log is a sequence of records, `Replay` of a
log onto a map gives each key the value of its last record before the first
torn one. Records are kept whole; a piece of one, or a hole of zeros, is
`Torn`.

`TxMap` is the promise: a map that transactions change one at a time, wholly or
not at all, and that a crash leaves with the transaction under way applied up to
one of its records, since that is what the code does. The set `doubt` makes an exception for keys of transactions that were
not reported as committed although they are in the log.

`KV` is the code, one action for each system call and one for its failure:

| code | actions |
|---|---|
| `Open` | `LoadSnapshot`, `ReplayLog`, `Cut` (the truncation of the tail), `Lock`; `OpenFails` |
| `Update` | `Update` (the callback has returned), `Write`, `Sync` (the commit); `WriteFails`, `SyncFails` |
| `compactLocked` | `Rename`, `Truncate`, `SyncDir`; `CompactFails`, `SeekFails` (the log is empty, the size kept in memory stale) |
| `Close` | `Close`, then the compaction, `Return` drops the lock |
| environment | `Kill` of one process, `PowerFails` |

`db[p]` is the `DB` of process `p`, or the call of `Open` it is in. `disk` holds
the states of the two files since the last sync, any of which a power failure
may leave: this takes the file system to order metadata, as journaling ones do.
Without it the truncation of the log, which comes before the sync of the
directory, may reach the disk before the renaming of the snapshot, and the engine
loses what it had. A write may be left in part: after `n` whole records
and possibly a piece of the next, for any `n`. The temporary file
of the snapshot is no state: only its renaming shows. Where the lock is a
no-operation (`lock_other.go`), nothing that depends on it holds.

The refinement mapping takes the map of the process that holds the lock, and
when there is none the map that a restart would rebuild. `doubt` is a history
variable: the keys of transactions that failed at the sync, or whose process was
killed before it. It is emptied by a compaction that syncs the directory. `Server`
takes the same interface to be atomic and durable; its `StoreFails` and the
second case of its `AfterCommit` are the refused and the committed transaction for
which `Update` reports an error.

### Client.tla: the reference client, the network and the server

| code | actions |
|---|---|
| `Activate`, `Kickout`, `Biz` up to the request on its way | `Call` (any caller), `Rescue` (the caller of the self-rescue path), both by `Send` |
| `post`, `verify`: an envelope that verifies, or does not | `Accept`, `Reject` |
| a bare error; the timeout of 10 s or a broken connection | `Refused`; `GiveUp` |
| network | a request stays in `inbox` until it is carried out, or `Lose` drops it; an answer stays in `answers` and may be delivered to any call |
| `handleActivate`, `handleKickout`, `handleBiz` | `ServeActivate`, `ServeKickout`, `ServeRemove`, `ServeRead`; `Fail` for a rolled-back transaction |

A call ends in one of three ways: `ok`, `refused` (a bare error sent before any
effect), or `unsure`, where the request may have been carried out or may be
still, while the client has gone on: a timeout, an envelope that answers
another call, or a 5000, which the server also sends when the compaction after
its commit fails. `faults` counts the calls that end unsure, `done` and
`ended` are history: the effects, and what the calls reported.

Here a handler is one step, its committing transaction; `Server` has the steps
around it, and the properties it proves are what makes this abstraction sound:
a licence stands exactly while its key does (`KeyFollowsLicense`), so that
`Client` keeps the key only. Time, expiry and the rate limiter are left out: no
call of this module is a failure that the limiter counts. `Code` has a limit of
its own, `Limit`.

The two are joined by `Registry`, which both implement: as far as
devices, slots and keys go, the handlers in steps and the server of one step have the
same promise.

`Plan` and `Rescue` are a caller, which is not in the repository: refused with 2003,
it kicks out and activates again, as SPEC section 6.2 has it and
`TestEmergencyKickoutFreesSlot` does once. That it also activates again after an
unsure call, or when its identity does not open any more, and goes on until it is
in, is an assumption about callers, and `RetriesBounded` and `Rescued` hold for
callers of this kind. A `Rescuer` is a client that has one.

### Keys.tla: how a process comes by its keys

Every command of `gsignver` opens the key store first and the database, with
its lock, after it. `kms.Open` reads the two key files or makes them: `Read`,
`Create` (truncates the temporary file), `Write`, `Rename`; then `Load` and
`Lock` of the database, `Commit` and `Compact`. Any call may fail and any
process may be killed between two (`Stop`); the files are never synced, so that
`PowerFails` may leave a file empty or take it away unless it has been written
back (`Writeback`). All processes use the same name for the temporary file:
`fd` says where the file that a process holds open has got to, since another
may have renamed or truncated it. `used` is what the database holds: for the master
key the keys of its records (a compaction rewrites them all under one), for the
pepper those of the digests of activation codes.

`clash` is history: the files that two processes were making at once; `lost`:
a power failure has taken one.

### MC modules and the runs

`MCServer` names the request sets and two initial states other than the empty
store: `Ready`, an application with one code, and `Enrolled`, the same with one
device. Both are states that CreateApp, IssueCode and Activate reach. Handlers
are interchangeable, so their symmetry is used.

| run | question | bounds |
|---|---|---|
| `registry` | devices of a code under two handlers, the limit changing between 1 and 2 | 2 handlers, 2 device ids, 6 requests, the clock stands |
| `device` | a device around its licence's expiry, and the spacing of executions with NonceTTL = 2 * TSWindow | 2 handlers, 3 requests, clock to 3, licence ttl 1, stall 1 |
| `rate` | failures and successes on shared buckets, past the expiry of the code | 2 handlers, 2 requests, clock to 2, RateMax 2, window and lock 1, code ttl 1, no stall |
| `engine` | crashes, power failures and failing calls of one process | 2 keys, transactions of 1 and 2 records, log of 3 records, compaction above 2, at most 6 states of the files since the last sync |
| `client` | one client on the self-rescue path, one that calls as it likes | limit 1, 13 calls of the first, 2 of the second, 2 faults |
| `keys` | two processes on an empty directory | 2 processes, 4 keys drawn |
| `torn`, `short_write`, `second_opener` | the same promises with torn transactions, short writes, a second process | as small as the case allows |
| `self_removal`, `replay_at_lapse`, `unlock` | documented promises that the code breaks, see below | as small as the case allows |

Two handlers are enough for each of these races: every hazard is about one
transaction of one handler between two steps of another. Two device ids let a
code be full and let one device act on another; the clock range covers a window,
a lapse and the second after it; `RateMax` 2 distinguishes the first failure,
the one that locks, and those beyond. The durations are shrunk in proportion:
`RateWindow = RateLock` and `NonceTTL = 2 * TSWindow` as in the code. In `device` a
nonce claimed at second 0 lapses at second 2, when a request stamped 1 is still
accepted and one stamped 0 is not, so that repeated executions do happen. In `rate`
the code expires at second 1 and the clock goes on to 2, and the failures are of all
kinds that are counted: a spent nonce, an expired code, a stale timestamp.

In `client`, a limit of 1 makes every device that nobody knows of block the next
activation. The other client's two calls and the two faults are the
interference, each of which can cost the rescuer a few calls: `RetriesBounded`
says how many, `1 + 4 * 2 + 2 * 2 = 13`, and the rescuer gets there. The
bound on its calls is therefore no restriction, and with 16 TLC finds the same
248135 states. In `keys`, two processes are what a race takes, and each makes
at most two files; four keys let both go through the whole start, or one of them
start twice.

In `engine`, a deletion follows a write of the same key, in a transaction that
also writes the other key, so that order, deletion and a tear between the two
records all show; three records let a compaction fail and be retried. A write tears
after any number of records. The bounds `MaxLog` and `MaxDisk` only keep steps
from happening.

### Properties

`TypeOK` is the type invariant. `KeyFollowsLicense` relates the three records of
a device; `RevocationIsFinal` says that no step revives any of them;
`QuotaRespected` that a code grows only up to the limit in force;
`ServedWhileLive` that a business request is carried out only while licence and
key stand, although the key was read earlier; `SeenRegression` bounds how far
`last_seen_at` may step back; `CodeInForce` that an expired activation code admits
nothing, although the clock is read before the gate on the code.

`NoReplay`, the promise that no request is carried out twice, fails (run
`replay_at_lapse`). What is left of it are three bounds for any durations, checked with
the ratio of the code. `ReplayGap`: executions of one request lie `NonceTTL - MaxStall`
apart, whatever the pruner does. `RepeatsLimited`: there are no more than
`1 + 2 * TSWindow / (NonceTTL - MaxStall)`, twice with 600 and 300; the run has a stall
of one second against a `NonceTTL` of two and gets to the three executions that the
formula allows. `RepeatedIsAhead`: a request that is carried out again was stamped
ahead of the clock the time before, by 300 s less the stall with the durations of the
code, so that a client whose clock is right is safe; the run gets to this bound too.

`LockFollowsFailures` judges each step that changes a bucket by the clock of that
step: a lock is there exactly from the `RateMax`-th failure on, that failure lies within the
window, the lock lasts `RateLock` seconds from it, give or take the age of a clock
value, and a failure recorded late does not cut it short in its window. (The failure that
opens a new window does: run `unlock`.) `FailuresBounded` is about the requests past
the gate.
`ImplementsRegistry` is the refinement of `Registry`: it adds to the properties above
that an eviction takes the oldest device, that a removal is asked for by a device
of the same code that works at that moment, and that nothing happens to a device
otherwise.

The bound of `FailuresBounded` is one per handler beyond the limit when the
bucket is first locked, and one per handler again: the window ends with `>` and
the lock with `<=`, so in the last second of the window the lock has lapsed and
the old count still stands.

`AnswersTrue` says that a success names an effect of that very call and that a
refusal has had none and will have none, although requests are carried out late
and answers misdirected. `SlotsAccounted` says that a device with a usable key
is held by the client it was issued to, or awaited, or was given up by an
`unsure` activation, or superseded: every slot that is lost has such a cause.

`RetriesBounded` counts the calls on the self-rescue path: one, four for each call
that the network or the store fails, and two for each effect of another client. A
rescuer that none of these disturbs is in after three calls, which the two for the
effect that filled its slot pay for; no refusal, late request of its own or misdirected
answer makes it go round again.

`Rescued` is the liveness property: a client whose caller follows the
self-rescue path ends up with a working identity and keeps it. Its hazards are
the late ones: a kickout that was given up and repeated retires the device just
obtained, a late activation takes the slot just freed. It holds under
`FairSpec`: the caller of a rescuer goes on with its path, a request that is
waited for is carried out (net/http runs the handler's goroutine, and no
transaction of the server waits for a client), and a call returns (the HTTP
client has a timeout of 10 s). Nothing is assumed of the other callers, nor of the network
except that it fails `MaxFaults` times: with faults or rivals without end no
retry could succeed. Weak fairness suffices, since each of the three stays
enabled until it happens.

`KeyOnDisk` says that the keys the database is in use with are the keys in the
files, `Startable` that no kill leaves a key file that every later start
refuses. Both exempt two causes by name: two processes that were making the same
file at once (one of them goes on with a key that is not on disk although the
lock then admits one only; dropping `clash` from the property gives that
behaviour), and a power failure before the file was written back. These two are in
the model and not held against it: the documents allow one process on a data
directory (SPEC section 5) and say nothing of key files after a power failure.

Of the engine, `TypeOK` includes that the lock is held exactly by a process that
runs. `Durable` compares memory with every state of the files that a crash now
could leave; `CrashLeavesPrefix` looks at the crash itself: what is recovered is the
map with the transaction under way applied up to one of its records; `ImplementsTxMap`
is the refinement. None of them speaks of the keys in `doubt`, those of transactions
that were refused at the sync or killed before it and come back with a restart: that
this happens is in the model, and no property would call it wrong.

## Where code and documents disagree

* `self_removal`: a device that removes itself stays active.
  `dispatchBiz` retires a second copy of the record, `handleBiz` writes its own
  copy back (biz.go:125). Licence and key are gone, the slot is not free, and
  activating again (SPEC section 6.3) answers 2003 when the code is full.
  `KeyFollowsLicense` is therefore stated in one direction only: a removed
  device is revoked, a revoked one need not be removed.
* `replay_at_lapse`: nonces live for 600 s and lapse in the second they name,
  timestamps are accepted 300 s either side. A request stamped 300 s ahead is
  carried out twice, 600 s apart.
* `unlock`: a lock runs from the tenth failure, the window from the first. A
  request that passed the gate earlier and fails after the window's end resets
  both and ends the lock early.
* `torn`: the records of a transaction are separate entries of the log, and
  nothing marks its end. A process killed in the write leaves a part of it, which
  the recovery applies: a device without its licence, a removed device with its
  key. `CrashAtomic`, what SPEC section 5.9 says, fails; `CrashLeavesPrefix` is what
  remains. `Server` assumes more than that: its crashes leave transactions whole.
* `short_write`: a write that fails half-way, on a full disk say, leaves a piece
  of a record. Later commits go behind it and the recovery discards them all. A
  compaction in between repairs it.
* `second_opener`: `Open` repairs the log before it asks for the lock. A process
  started beside a running server (the administrative commands of `gsignver` open
  the directory) may read a record half-written and cut it off after
  the server has committed it. The model also lets it load a map, get the lock
  after the owner has committed more and closed, and go on with the old map.

## Proofs

`StoreProofs.tla` has `EarliestDevice`: a code with a device in force has
exactly one that `EarliestActiveDevice` chooses, although devices may be registered in
the same second. Both refinements rest on it.

`ServerProofs.tla` proves, for all values of the constants that satisfy
`ServerAssumption` and `MaxDevicesAssumption` (types of the constants, nothing
about their sizes):

* `TypeCorrect`: `TypeOK`, strengthened by `HandlerOK`: the stage of a handler
  tells the kind of its request, and a handler that is charging has a bucket
  left to charge. One lemma for each action, on top of lemmas about `Put`,
  `Delete` and the moves of a handler.
* `KeysFollowLicenses` and `RevocationsAreFinal`, by `RegistryEffect`: every
  step leaves the registry alone, enrols one new device, or retires the devices
  of a set and changes no other status. Once each action is shown to be one of
  the three, both properties follow from the cases.
* `ReplaysAreSpaced`: `ReplayGap` is not inductive. The invariant adds
  `InFlightFresh` (captured clocks are in the past and at most `MaxStall` old)
  and `Remembered` (each execution has either been followed by `NonceTTL`
  seconds or left a nonce that lasts that long). `NonceSteps` reduces every
  step to a claim, a pruning or neither.
* `RepeatsAreAhead`: adds `Timely`, executions lie within the window of their
  timestamp. The later of two is at most `TSWindow` past the timestamp, and by
  `ReplayGap` the earlier one lies `NonceTTL - MaxStall` before that.
* `RepeatsAreLimited`, for all durations: adds `Spread`, the i-th execution is
  `(i - 1) * (NonceTTL - MaxStall)` past the first one, which each new execution
  carries on by one gap; `Timely` then caps the distance at `2 * TSWindow`.
* `QuotasAreRespected`: `CountStep` shows that an activation makes a code grow by
  one device and that no other step makes it grow; finiteness of the id range
  makes the counts meaningful.
* `ServedWhileLicensed`: `BizRuns` names the only three steps that carry out a
  business request, and the checks of their transaction; the key stands because
  it follows the licence, the clock because of `InFlightFresh`.
* `CodesInForce`: `AnonRuns` names the two steps that carry out other requests, and
  `InFlightFresh` bounds the age of the clock they compare with the expiry.
* `LocksFollowFailures`: adds `WindowsOpened`, no window starts in the future and no
  lock ends later than `RateLock` from now, and `LockedByFailures`, what a lock and
  its window have to do with each other. `BucketSteps` reduces every step to one
  recorded failure, a clearing or neither.
* `SeenRegressionsBounded`: adds `SeenInPast`, no `last_seen_at` is in the
  future.
* `FailuresAreBounded`, for finitely many handlers and `RateWindow + 3 * MaxStall
  < 2 * RateLock` (the code: 3600 s each, so for clock values less than 1200 s old).
  The invariant has to count: `Past(b)` are the handlers that may still charge
  bucket `b`, and each of their steps either gives up charges or passes the gate
  of those it takes on (`Gated`). `Within` bounds failures and `Past` together, in
  two phases: until `RateLock` from the start of the window nobody passes the
  gate of a bucket that was locked; after it, each handler may pass once more before a second
  lock outlasts the window. `ChargeSteps` reduces every step to one that adds
  nothing, one that passes the gate, or one failure of a handler past it.

`ServerRefinement.tla` proves `ImplementsRegistry` for all values of the constants.
Every action is shown to be one step of `Registry` or a stutter, under the invariant
`RefineInv`: types, `KeyFollowsLicense`, and that every code has its application
(`CodesHaveApps`), without which the limit of a code would mean nothing. The
quota comes from `HasRoom`, the place of an eviction from `EarliestDevice`, and the
right of a remover from `BizGranted`; that its key works at that moment, and not only
when the handler loaded it, is `KeyFollowsLicense` again.

`KVProofs.tla` proves `TypeOK` of the engine for any number of processes and,
for one process (`OneProcess`) and no short writes, `Durable`, `CrashLeavesPrefix` and
that `KV` implements `TxMap`, with write sets of any length torn after any record.
Both hypotheses are needed: `second_opener` and `short_write` show what happens
without them.

* About logs: `LastWrite` describes `Replay` key by key; `ReplayConcat` (replaying a
  whole log and then another is replaying the two joined) `CutLog` (cutting off
  the torn tail changes no replay) and `ReplayTorn` (a torn write replays as a prefix) are the facts the engine rests on.
* The invariant `KVInv(p)` is `StageOK`, what the stage of the process says of its
  map, its write set and its position in the log, and `FilesOK`, what the states
  of the files that a crash may leave say of the map: each of them replays to
  the map up to the keys in doubt, or to that of a prefix of the transaction under way
  (`May`).
  It is needed because `Durable` alone says nothing of the stages in which the files
  are ahead of memory, a compaction half done for one.
* The step of the refinement follows from the move of each action
  and from `CrashMay`, which says what the map of the next start can be; `DeathMay`
  has the case of a death in the write, for `CrashesLeavePrefixes`.

`ClientProofs.tla` proves `TypeOK`, `AnswersTrue` and `SlotsAccounted` for any
clients, limits, calls and faults. `AnswersTrue` is not inductive: the proof adds
that a request bears a number its client has reached (`Known`), so that a new call
is confused with no old one, that a request in the inbox has had no effect and is
awaited or was given up (`InboxOK`), that every answer tells the truth about the call it
names (`AnswersOK`), and that effects are those of requests sent (`DoneOK`).
`SlotsAccounted` takes these as they are and follows each device through the steps
(`Accounted`).

`ClientRefinement.tla` proves that the clients, the network and the one-step server
implement `Registry` as well.

`ClientRetries.tla` proves `RetriesBounded`, by an amortised argument. `Toward` and
`Ahead` are the calls a rescuer still has to make if nothing sets it back; the
invariant `Budget` says that the calls made, two for each late request that may yet
have an effect, and those ahead stay within the allowance, for each answer that may
still come. No step of the rescuer's own adds to this sum. A fault raises it by four
at most, two of which are for the request it leaves behind; an effect of another
client raises it by two. `OwnersOK` and `CallsOK` say that nobody else uses a
rescuer's identity and that it removes nothing. The bound is met, so none of the
three numbers can be smaller.

The proof showed a defect of the model: `Plan` was a `CASE` whose arms overlapped, which
TLA+ leaves undetermined although TLC takes the first. It is a chain of conditions now.

`KeysProofs.tla` proves `TypeOK`, `KeyOnDisk` and `Startable` for any number of
processes. The invariant `Sound(f)` of a file that was neither clashed over nor
lost: nobody makes it once it is there and one process at most before, whose
temporary file is its own; every process that is past it, and the database, have
the key that is in place.

Only model-checked: `Rescued`, since liveness under fairness is beyond the
provers (`RetriesBounded` is the part of it that is a safety property: a rescuer that
never got in would have to stop calling, or be disturbed for ever), and the
documented promises that do not hold. Facts that need induction
over data stay with TLC too; the modules declare no recursive operator.

## Plan

What is left: `now + ttl` in 64 bits and what a negative expiry means; a `Server` whose
crash cuts a transaction short as `TxMap`'s does, and what the start would have to
repair then; and `Client` composed with the handlers of `Server` step by step, for
which the common refinement of `Registry` stands at present. The composition
multiplies the state spaces of the two and needs smaller instances of both.

## Not modelled

* Encodings, sizes, error texts and HTTP status codes; signatures, encryption and
  key derivation, which keep no state (`cryptox`, most of `wire`); ULID generation.
* The signing key of an application, which is made once and never changed; business data,
  which no server operation writes; listings; the bearer token of the admin
  interface and its HTTP client (`internal/admin/api.go`); the test tool `gsigtest`.
* Integer width: the models' integers are unbounded. With a ttl near 2^63
  `now + ttl` overflows, and a negative `expires_at` never expires; only the
  administrator's argument can bring it about.
* Keys injected from the environment, which touch no file.
* The response's timestamp: SPEC section 8 asks the client to check it,
  `internal/client` does not, and no property of `Client` depends on it, because an answer
  bears the nonce of its call. The licence that a refresh returns: `Biz` does not
  store it.
* Signals, flags and the graceful stop, which ends handlers as `Crash` does or lets them
  finish.
