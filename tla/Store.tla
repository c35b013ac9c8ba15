------------------------------- MODULE Store -------------------------------
(***************************************************************************)
(* The repository layer, internal/store: the records it keeps, and what    *)
(* each of its transaction operations makes of them.  Everything here is a *)
(* pure operator on the maps of one transaction; module Server owns the    *)
(* variables and composes these operators into atomic Update transactions. *)
(*                                                                         *)
(* A bucket of the key space ("dev:", "lic:", "nonce:" ...) is a partial   *)
(* function.  Secondary indices are not separate state: "idx:code2dev:" is *)
(* written once, with its device, and "idx:dev2lic:" is the identity here, *)
(* because a device is given exactly one licence and one shared key, in    *)
(* the transaction that creates it.  Licences and keys are therefore       *)
(* indexed by the device they were issued to.                              *)
(***************************************************************************)
EXTENDS Integers, FiniteSets

CONSTANTS
    Apps,        \* application ids
    Plains,      \* plaintext activation codes
    Ips,         \* client addresses
    Nonces,      \* request nonces
    MaxDevices   \* bound: device ids the model can allocate

ASSUME MaxDevicesAssumption == MaxDevices \in Nat

\* Device ids are compared (EarliestActiveDevice breaks ties by id), so they
\* are numbers.  An activation takes any unused one.
DeviceIds == 1..MaxDevices

\* kms.CodeHash keys the digest with the application id: a code is known to
\* the store by the pair, and its AppID always agrees with the lookup key.
CodeHash(app, plain) == <<app, plain>>
CodeHashes == Apps \X Plains

Application == [max : Nat \ {0}, ttl : Nat \ {0}]
\* max <= 0: use the application's limit.  expires = 0: never.  No operation
\* writes a status other than "active", so the field is left out.
ActivationCode == [max : Int, expires : Nat]
Device == [app : Apps, code : CodeHashes, registered : Nat, seen : Nat,
           status : {"active", "removed"}]
License == [expires : Nat, status : {"active", "revoked"}]
KeyStatus == {"active", "destroyed"}
RateLimit == [failures : Nat, windowStart : Nat, lockedUntil : Nat]
Buckets == ({"ip"} \X Ips) \cup ({"app"} \X Apps) \cup ({"code"} \X CodeHashes)

\* m is a map from some of S to T.
IsMap(m, S, T) == DOMAIN m \subseteq S /\ m \in [DOMAIN m -> T]

----------------------------------------------------------------------------
(* Key-value primitives. *)

Put(m, k, v) == [x \in DOMAIN m \cup {k} |-> IF x = k THEN v ELSE m[x]]
Delete(m, ks) == [x \in DOMAIN m \ ks |-> m[x]]

----------------------------------------------------------------------------
(* Devices, licences and shared keys. *)

ActiveDevicesOfCode(devices, c) ==
    {d \in DOMAIN devices : devices[d].code = c /\ devices[d].status = "active"}

CountActiveDevices(devices, c) == Cardinality(ActiveDevicesOfCode(devices, c))

\* Mutant: the newest device comes first.
Precedes_Newest(devices, d, e) ==
    \/ devices[d].registered > devices[e].registered
    \/ devices[d].registered = devices[e].registered /\ d >= e

\* d comes before e in the order of ActiveDevicesOfCode.
Precedes(devices, d, e) ==
    \/ devices[d].registered < devices[e].registered
    \/ devices[d].registered = devices[e].registered /\ d <= e

EarliestActiveDevice(devices, c) ==
    CHOOSE d \in ActiveDevicesOfCode(devices, c) :
        \A e \in ActiveDevicesOfCode(devices, c) : Precedes(devices, d, e)

\* RetireDevice touches three records of the one device d.
RetiredDevices(devices, d) == [devices EXCEPT ![d].status = "removed"]
RetiredLicenses(licenses, d) == [licenses EXCEPT ![d].status = "revoked"]
\* Mutant: the key of a retired device stays usable.
DestroyedKeys_Kept(keys, d) == keys
DestroyedKeys(keys, d) == [keys EXCEPT ![d] = "destroyed"]

\* The limit that applies to a code: its own, or else its application's.
MaxDevicesOf(code, app) == IF code.max > 0 THEN code.max ELSE app.max

----------------------------------------------------------------------------
(* Nonces: each record holds the second at which it lapses. *)

Claimable(nonces, k, now) == ~ (k \in DOMAIN nonces /\ nonces[k] > now)
\* Mutant: the nonce is kept for half its time.
ClaimNonce_Half(nonces, k, now, ttl) == Put(nonces, k, now + ttl \div 2)
ClaimNonce(nonces, k, now, ttl) == Put(nonces, k, now + ttl)
\* Mutant: a nonce is pruned one second before it lapses.
PruneNonces_Early(nonces, now) ==
    Delete(nonces, {k \in DOMAIN nonces : nonces[k] <= now + 1})
PruneNonces(nonces, now) == Delete(nonces, {k \in DOMAIN nonces : nonces[k] <= now})

============================================================================
