------------------------------ MODULE Registry ------------------------------
(***************************************************************************)
(* What the licence server promises of the devices of its activation       *)
(* codes, whatever the clients send, in any order and any number of times: *)
(* a device gets a slot of its code only below the limit in force, loses   *)
(* it only to an eviction, the device in place for the longest time first, *)
(* or to a removal that a working device of the same code asked for, and   *)
(* with it loses its key for good.                                         *)
(*                                                                         *)
(* Server implements this with handlers that interleave step by step,      *)
(* Client with a server of one step for each request: both are the same    *)
(* registry.                                                               *)
(***************************************************************************)
EXTENDS Integers, FiniteSets

CONSTANTS
    Ids,      \* device ids, ordered
    Codes,    \* activation codes
    Times     \* times of registration

VARIABLES
    issued,   \* device -> its code and the time of its registration
    slots,    \* the devices that count against the limit of their code
    usable,   \* the devices whose key opens requests
    limit,    \* code -> the devices it may have
    evictions \* a record of the evictions served, whatever its form

vars == <<issued, slots, usable, limit, evictions>>

SlotsOf(c) == {i \in slots : issued[i].code = c}

\* i was registered before j, or is j; ids break ties.
NotAfter(i, j) ==
    \/ issued[i].since < issued[j].since
    \/ issued[i].since = issued[j].since /\ i <= j

Positive(m) == m \in [DOMAIN m -> Nat \ {0}]

Init == DOMAIN issued = {} /\ slots = {} /\ usable = {} /\ Positive(limit)

\* The administrator issues codes and changes limits, also below what a code
\* has in use.
SetLimits ==
    /\ DOMAIN limit \subseteq DOMAIN limit' /\ Positive(limit')
    /\ UNCHANGED <<issued, slots, usable, evictions>>

Enrol(i, c, t) ==
    /\ i \notin DOMAIN issued
    /\ c \in DOMAIN limit /\ Cardinality(SlotsOf(c)) < limit[c]
    /\ issued' = [j \in DOMAIN issued \cup {i} |->
                     IF j = i THEN [code |-> c, since |-> t] ELSE issued[j]]
    /\ slots' = slots \cup {i} /\ usable' = usable \cup {i}
    /\ UNCHANGED <<limit, evictions>>

Evict(i) ==
    /\ i \in slots /\ \A j \in SlotsOf(issued[i].code) : NotAfter(i, j)
    /\ slots' = slots \ {i} /\ usable' = usable \ {i}
    /\ evictions' # evictions
    /\ UNCHANGED <<issued, limit>>

\* A device that removes itself loses its key but keeps its slot.
Remove(i, j) ==
    /\ i \in usable /\ j \in slots /\ issued[j].code = issued[i].code
    /\ slots' = IF i = j THEN slots ELSE slots \ {j}
    /\ usable' = usable \ {j}
    /\ UNCHANGED <<issued, limit, evictions>>

Next ==
    \/ SetLimits
    \/ \E i \in Ids, c \in Codes, t \in Times : Enrol(i, c, t)
    \/ \E i \in Ids : Evict(i)
    \/ \E i \in Ids, j \in Ids : Remove(i, j)

Spec == Init /\ [][Next]_vars
============================================================================
