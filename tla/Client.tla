------------------------------- MODULE Client -------------------------------
(***************************************************************************)
(* The reference client, internal/client, and its callers, before the      *)
(* server across a network that delays, loses and misdirects messages.     *)
(*                                                                         *)
(* A call ends in one of three ways.  It reports success, it is refused by *)
(* an error the server sends before any effect, or it ends without an      *)
(* answer to rely on: a timeout, a lost connection, an answer to another   *)
(* call, or a 5000, which the server also sends when the compaction after  *)
(* its commit fails.  In the last case the request may have been carried   *)
(* out, or may be still, after the client has gone on to its next call.    *)
(*                                                                         *)
(* Here a handler of the server is one step, its committing transaction;   *)
(* module Server has the steps before and after it.  A licence is left     *)
(* out, since it stands exactly while its key does (KeyFollowsLicense),    *)
(* and so are time and the rate limiter: no call of this module is a       *)
(* failure that the limiter counts.                                        *)
(***************************************************************************)
EXTENDS Store

CONSTANTS
    Clients,    \* installations of one application, all with one code
    Rescuers,   \* the clients whose caller follows the self-rescue path
    Nobody,     \* the DeviceID of a client that is not activated
    Code,       \* the activation code
    Limit,      \* its max_devices
    MaxCalls,   \* bound: calls of each client
    MaxFaults   \* bound: calls that end without an answer to rely on

ASSUME ClientAssumption ==
    /\ Rescuers \subseteq Clients
    /\ Nobody \notin DeviceIds
    /\ Code \in CodeHashes
    /\ Limit \in Nat \ {0}
    /\ MaxCalls \in [Clients -> Nat]
    /\ MaxFaults \in Nat

Anonymous == {"activate", "kickout"}
\* "fetch_data" stands for every action that changes nothing here, the
\* refresh included.
Kinds == Anonymous \cup {"fetch_data", "remove_device"}

\* A call, its request and its nonce are one: n makes the nonce fresh, and
\* the key pair of an activation is fresh with it.  dev is the device_id of
\* the envelope, and names the key K that seals the request.
Request ==
    [client : Clients, n : Nat, kind : Anonymous, dev : {Nobody}, target : {Nobody}]
    \cup [client : Clients, n : Nat, kind : {"fetch_data"}, dev : DeviceIds,
          target : {Nobody}]
    \cup [client : Clients, n : Nat, kind : {"remove_device"}, dev : DeviceIds,
          target : DeviceIds]

Refusals == {"limit", "noDevice", "crypto"}   \* 2003, 2009, 1010
Codes == {"ok", "internal"} \cup Refusals
\* to: the request answered; dev: the device issued, kicked out or removed,
\* or the one that asked.
Answer == [to : Request, code : Codes, dev : DeviceIds \cup {Nobody}]

VARIABLES
    devices,    \* the server's devices of the code
    keys,       \* and their shared keys
    inbox,      \* requests sent and not yet carried out, refused or lost
    answers,    \* answers sent; the network may deliver one more than once
    clients,    \* each client: its identity, its call in progress, its plan
    faults,     \* calls that ended unsure
    done,       \* history: <<request, device>> of every effect
    ended       \* history: the call, outcome and device of every call ended

server == <<devices, keys, done>>
vars == <<devices, keys, inbox, answers, clients, faults, done, ended>>

\* A client: DeviceID (with its K and License, which are stored together), the
\* calls made, the call in progress or the last one, and the caller's plan.
State == [dev : DeviceIds \cup {Nobody}, calls : Nat, waiting : BOOLEAN,
          call : Request \cup {Nobody}, plan : Kinds]
Fresh == [dev |-> Nobody, calls |-> 0, waiting |-> FALSE, call |-> Nobody,
          plan |-> "activate"]

Pending(r) == clients[r.client].waiting /\ clients[r.client].call = r
Active(d) == d \in DOMAIN keys /\ keys[d] = "active"

----------------------------------------------------------------------------
(* The client. *)

\* Mutant: Biz is called without an identity.
Callable_Always(me, kind) == TRUE
Callable(me, kind) == kind \notin Anonymous => me.dev # Nobody

\* Activate, Kickout and Biz up to the request on its way: a fresh nonce, and
\* for Biz an identity, without which it fails before it sends anything.
Send(c, kind, target) ==
    LET me == clients[c]
        r == [client |-> c, n |-> me.calls + 1, kind |-> kind, target |-> target,
              dev |-> IF kind \in Anonymous THEN Nobody ELSE me.dev]
    IN  /\ ~ me.waiting /\ me.calls < MaxCalls[c]
        /\ Callable(me, kind)
        /\ inbox' = inbox \cup {r}
        /\ clients' = [clients EXCEPT ![c].waiting = TRUE, ![c].call = r,
                                      ![c].calls = @ + 1]
        /\ UNCHANGED <<server, answers, faults, ended>>

\* What the caller of a rescuer does next: an assumption about code outside the
\* repository.  SPEC section 6.2 describes the path, a 2003 followed by a kickout
\* and another activation, and TestEmergencyKickoutFreesSlot walks it once; that
\* a caller activates again after an unsure call or a 1010 is assumed.
Plan(r, code) ==
    IF code = "limit" THEN "kickout"
    ELSE IF \/ r.kind = "activate" /\ code = "ok"
            \/ r.kind \notin Anonymous /\ code # "crypto"
         THEN "fetch_data"
         ELSE "activate"

\* Any caller but a rescuer's makes any call at any time.
Call(c) ==
    /\ c \notin Rescuers
    /\ \/ \E kind \in Kinds \ {"remove_device"} : Send(c, kind, Nobody)
       \/ \E d \in DOMAIN devices : Send(c, "remove_device", d)

\* Such a caller goes on until it is in, and then uses its identity; a read that
\* succeeds changes nothing, so only those that will be refused are steps.
Rescue(c) ==
    /\ c \in Rescuers
    /\ clients[c].plan = "fetch_data" => ~ Active(clients[c].dev)
    /\ Send(c, clients[c].plan, Nobody)

\* Mutant: the nonce of an answer is not compared.
Verified_AnyNonce(r, a) == a.to.kind = r.kind

\* The signature holds for every answer of the application, so that what
\* ties an answer to a call is the nonce in it (and, for an activation and
\* for Biz, the key that opens it).
Verified(r, a) == a.to = r

\* Mutant: an activation clears the identity first, and fails.
Identity_Cleared(r, outcome, old, d) == IF r.kind = "activate" THEN d ELSE old

\* The identity after call r has returned: only a success replaces it.
Identity(r, outcome, old, d) ==
    IF r.kind = "activate" /\ outcome = "ok" THEN d ELSE old

\* The call of c returns to its caller.
Return(c, outcome, code, d) ==
    /\ ended' = ended \cup {[call |-> clients[c].call, outcome |-> outcome, dev |-> d]}
    /\ clients' = [clients EXCEPT
           ![c].waiting = FALSE,
           ![c].plan = Plan(clients[c].call, code),
           ![c].dev = Identity(clients[c].call, outcome, @, d)]

Fault == faults < MaxFaults /\ faults' = faults + 1

\* An envelope that verifies.
Accept(c) ==
    /\ clients[c].waiting
    /\ \E a \in answers : /\ a.code = "ok" /\ Verified(clients[c].call, a)
                          /\ Return(c, "ok", "ok", a.dev)
    /\ UNCHANGED <<server, inbox, answers, faults>>

\* An envelope that does not: it answers some other call.
Reject(c) ==
    /\ clients[c].waiting
    /\ \E a \in answers : a.code = "ok" /\ ~ Verified(clients[c].call, a)
    /\ Return(c, "unsure", "none", Nobody)
    /\ Fault
    /\ UNCHANGED <<server, inbox, answers>>

\* A 5000 says nothing about what was done.
Outcome(code) == IF code = "internal" THEN "unsure" ELSE "refused"

\* A bare error carries neither nonce nor signature: it is taken as it comes
\* on the connection of the call.
Refused(c) ==
    /\ clients[c].waiting
    /\ \E a \in answers : /\ a.code # "ok" /\ a.to = clients[c].call
                          /\ Return(c, Outcome(a.code), a.code, Nobody)
    /\ UNCHANGED <<server, inbox, answers, faults>>

\* The timeout of the HTTP client, or a broken connection: the request, if it
\* was not lost, may still be carried out.
GiveUp(c) ==
    /\ clients[c].waiting
    /\ Return(c, "unsure", "none", Nobody)
    /\ Fault
    /\ UNCHANGED <<server, inbox, answers>>

----------------------------------------------------------------------------
(* The network and the server. *)

Lose(r) ==
    /\ r \in inbox /\ ~ Pending(r)
    /\ inbox' = inbox \ {r}
    /\ UNCHANGED <<server, answers, clients, faults, ended>>

Reply(r, code, d) ==
    /\ inbox' = inbox \ {r}
    /\ answers' = answers \cup {[to |-> r, code |-> code, dev |-> d]}

\* Effect d of request r, answered with it, or with a 5000: the compaction or
\* the signing that follows the commit has failed.
Commit(r, d) ==
    /\ done' = done \cup {<<r, d>>}
    /\ \/ Reply(r, "ok", d) /\ UNCHANGED faults
       \/ Reply(r, "internal", Nobody) /\ Fault
    /\ UNCHANGED <<clients, ended>>

Refuse(r, code) ==
    /\ Reply(r, code, Nobody)
    /\ UNCHANGED <<server, clients, faults, ended>>

\* Mutant: off by one, the other way.
HasRoom_OneMore == CountActiveDevices(devices, Code) <= Limit
\* Mutant: off by one.
HasRoom_OneLess == CountActiveDevices(devices, Code) + 1 < Limit
HasRoom == CountActiveDevices(devices, Code) < Limit

\* Ids are ULIDs: they, and the times of registration, grow.
ServeActivate(r) ==
    /\ r \in inbox /\ r.kind = "activate"
    /\ IF HasRoom
       THEN \E d \in DeviceIds :
                /\ d = Cardinality(DOMAIN devices) + 1
                /\ devices' = Put(devices, d, [app |-> Code[1], code |-> Code,
                                  registered |-> d, seen |-> d, status |-> "active"])
                /\ keys' = Put(keys, d, "active")
                /\ Commit(r, d)
       ELSE Refuse(r, "limit")

ServeKickout(r) ==
    /\ r \in inbox /\ r.kind = "kickout"
    /\ IF ActiveDevicesOfCode(devices, Code) # {}
       THEN LET d == EarliestActiveDevice(devices, Code) IN
            /\ devices' = RetiredDevices(devices, d)
            /\ keys' = DestroyedKeys(keys, d)
            /\ Commit(r, d)
       ELSE Refuse(r, "noDevice")

\* Whether the removal changes anything: the target may be gone already.
Removes(r) == r.kind = "remove_device" /\ devices[r.target].status = "active"

\* The device that asked is written back as it was read, active.
ServeRemove(r) ==
    /\ r \in inbox /\ Active(r.dev) /\ Removes(r)
    /\ devices' = [RetiredDevices(devices, r.target) EXCEPT ![r.dev] = devices[r.dev]]
    /\ keys' = DestroyedKeys(keys, r.target)
    /\ Commit(r, r.target)

\* A request of a device without a key cannot be opened; any other one that
\* removes nothing is answered.
ServeRead(r) ==
    /\ r \in inbox /\ r.kind \notin Anonymous
    /\ IF Active(r.dev)
       THEN /\ ~ Removes(r)
            /\ Reply(r, "ok", IF r.kind = "remove_device" THEN r.target ELSE r.dev)
            /\ UNCHANGED <<server, clients, faults, ended>>
       ELSE Refuse(r, "crypto")

\* The store fails: the transaction rolls back.
Fail(r) ==
    /\ r \in inbox
    /\ Reply(r, "internal", Nobody)
    /\ Fault
    /\ UNCHANGED <<server, clients, ended>>

Serve(r) ==
    ServeActivate(r) \/ ServeKickout(r) \/ ServeRemove(r) \/ ServeRead(r) \/ Fail(r)

----------------------------------------------------------------------------

Init ==
    /\ devices = <<>> /\ keys = <<>>
    /\ inbox = {} /\ answers = {}
    /\ clients = [c \in Clients |-> Fresh]
    /\ faults = 0
    /\ done = {} /\ ended = {}

Returns(c) == Accept(c) \/ Reject(c) \/ Refused(c) \/ GiveUp(c)

Next ==
    \/ \E c \in Clients : Call(c) \/ Rescue(c) \/ Returns(c)
    \/ \E r \in inbox : Serve(r) \/ Lose(r)

Spec == Init /\ [][Next]_vars

\* A rescuer's caller goes on, the server's goroutines run, and a client's
\* HTTP call returns.  Nothing is assumed of the other callers or of the
\* network, except that it fails MaxFaults times.
Fairness ==
    \A c \in Rescuers :
        /\ WF_vars(Rescue(c))
        /\ WF_vars(\E r \in inbox : Pending(r) /\ r.client = c /\ Serve(r))
        /\ WF_vars(Returns(c))

FairSpec == Spec /\ Fairness

----------------------------------------------------------------------------
(* Correctness. *)

TypeOK ==
    /\ IsMap(devices, DeviceIds, Device)
    /\ DOMAIN keys = DOMAIN devices /\ IsMap(keys, DeviceIds, KeyStatus)
    /\ inbox \subseteq Request
    /\ answers \subseteq Answer
    /\ clients \in [Clients -> State]
    /\ faults \in 0..MaxFaults
    /\ done \subseteq Request \X DeviceIds
    /\ ended \subseteq [call : Request, outcome : {"ok", "refused", "unsure"},
                        dev : DeviceIds \cup {Nobody}]

\* What a call reports is what became of that very call, however late or
\* misdirected the answers: a success of activate or kickout names the device
\* that this call created or retired, a removal reported is in force, and a
\* refused call has had no effect and will have none.  Only a call that ended
\* unsure may have taken effect, or may do so later.
AnswersTrue ==
    \A e \in ended :
        /\ e.outcome = "ok" /\ e.call.kind \in Anonymous => <<e.call, e.dev>> \in done
        /\ e.outcome = "ok" /\ e.call.kind = "remove_device" => ~ Active(e.call.target)
        /\ e.outcome = "refused" =>
              e.call \notin inbox /\ \A d \in DeviceIds : <<e.call, d>> \notin done

\* Devices are not lost without a cause: the client that a device with a
\* usable key was issued to holds it, or is still waiting for it, or ended
\* that activation unsure, or has activated again since.
SlotsAccounted ==
    \A d \in DOMAIN keys : Active(d) =>
        \E x \in done : LET r == x[1] IN
            /\ r.kind = "activate" /\ x[2] = d
            /\ \/ clients[r.client].dev = d
               \/ Pending(r)
               \/ \E e \in ended : e.call = r /\ e.outcome = "unsure"
               \/ \E e \in ended : /\ e.call.client = r.client /\ e.call.n > r.n
                                   /\ e.call.kind = "activate" /\ e.outcome = "ok"

\* The self-rescue path is bounded: the rescue of a client takes one call, the
\* first activation, and at most four more for every call, of anyone, that the
\* network or the store fails, and two for every effect of another client's
\* call.  Nothing else ever sets it back: no refusal sends it round in a
\* circle, and neither do its own requests that are carried out late.
RetriesBounded ==
    \A c \in Rescuers :
        clients[c].calls <= 1 + 4 * faults
                              + 2 * Cardinality({x \in done : x[1].client # c})

\* The server of this module, one step for each request, is the registry that
\* the handlers of Server implement step by step.
Abstract == INSTANCE Registry WITH
    Ids <- DeviceIds, Codes <- CodeHashes, Times <- DeviceIds,
    issued <- [d \in DOMAIN devices |-> [code |-> devices[d].code,
                                         since |-> devices[d].registered]],
    slots <- {d \in DOMAIN devices : devices[d].status = "active"},
    usable <- {d \in DOMAIN keys : Active(d)},
    limit <- [c \in {Code} |-> Limit],
    evictions <- {x \in done : x[1].kind = "kickout"}
ImplementsRegistry == Abstract!Spec

\* The self-rescue path leads in: a client whose caller follows it ends up
\* with a working identity and keeps it, whatever slots were lost to answers
\* that never came, to late kickouts of its own, and to the other callers,
\* as long as these and the network stop interfering some time.
Rescued == \A c \in Rescuers : <>[] Active(clients[c].dev)
============================================================================
