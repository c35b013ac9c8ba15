---------------------------- MODULE StoreProofs ----------------------------
(***************************************************************************)
(* Facts about the operators of Store, for every value of their arguments. *)
(***************************************************************************)
EXTENDS Store, FiniteSetTheorems, WellFoundedInduction, TLAPS

LEMMA LeastNatural ==
    ASSUME NEW T \in SUBSET Nat, T # {}
    PROVE  \E x \in T : \A y \in T : x <= y
  <1> DEFINE R == OpToRel(<, Nat)
  <1>1. IsWellFoundedOn(R, Nat)
    BY NatLessThanWellFounded
  <1>2. \A x \in Nat, y \in Nat : y < x => <<y, x>> \in R
    BY DEF OpToRel
  <1> HIDE DEF R
  <1>3. PICK x \in T : \A y \in T : ~ (<<y, x>> \in R)
    BY <1>1, WFMin
  <1> SUFFICES ASSUME NEW y \in T PROVE x <= y
    OBVIOUS
  <1>4. x \in Nat /\ y \in Nat /\ ~ (y < x)
    BY <1>2, <1>3
  <1> QED
    BY <1>4

\* A code with a device in force has exactly one that is the earliest: by the second of its
\* registration, and by its id among those of one second
\* (Tx.EarliestActiveDevice, which emergency kickout relies on).
THEOREM EarliestDevice ==
    ASSUME NEW ds, IsMap(ds, DeviceIds, Device), NEW c, ActiveDevicesOfCode(ds, c) # {}
    PROVE  /\ EarliestActiveDevice(ds, c) \in ActiveDevicesOfCode(ds, c)
           /\ \A e \in ActiveDevicesOfCode(ds, c) :
                 Precedes(ds, EarliestActiveDevice(ds, c), e)
           /\ \A d \in ActiveDevicesOfCode(ds, c) :
                 (\A e \in ActiveDevicesOfCode(ds, c) : Precedes(ds, d, e))
                    => d = EarliestActiveDevice(ds, c)
  <1> DEFINE A == ActiveDevicesOfCode(ds, c)
             S == {ds[d].registered : d \in A}
  <1>1. \A d \in A : d \in Nat /\ ds[d].registered \in Nat
    BY DEF ActiveDevicesOfCode, IsMap, DeviceIds, Device
  <1>2. PICK s \in S : \A y \in S : s <= y
    <2>1. S \in SUBSET Nat /\ S # {}
      BY <1>1
    <2> QED
      BY <2>1, LeastNatural
  <1> DEFINE T == {d \in A : ds[d].registered = s}
  <1>3. PICK x \in T : \A y \in T : x <= y
    <2>1. T \in SUBSET Nat /\ T # {}
      BY <1>1, <1>2
    <2> QED
      BY <2>1, LeastNatural
  <1>4. ASSUME NEW e \in A PROVE Precedes(ds, x, e)
    <2>1. /\ s \in Nat /\ ds[x].registered = s /\ x \in Nat
          /\ e \in Nat /\ ds[e].registered \in Nat
      BY <1>1, <1>2, <1>3
    <2>2. s <= ds[e].registered
      BY <1>2
    <2>3. ds[e].registered = s => x <= e
      BY <1>3
    <2> HIDE DEF A, S, T
    <2> QED
      BY <2>1, <2>2, <2>3 DEF Precedes
  <1>5. \E d \in A : \A e \in A : Precedes(ds, d, e)
    BY <1>3, <1>4
  <1>6. ASSUME NEW d \in A, NEW e \in A, Precedes(ds, d, e), Precedes(ds, e, d) PROVE d = e
    <2>1. /\ d \in Nat /\ ds[d].registered \in Nat
          /\ e \in Nat /\ ds[e].registered \in Nat
      BY <1>1
    <2> HIDE DEF A
    <2> QED
      BY <1>6, <2>1 DEF Precedes
  <1> HIDE DEF S, T
  <1>7. EarliestActiveDevice(ds, c) \in A
        /\ \A e \in A : Precedes(ds, EarliestActiveDevice(ds, c), e)
    BY <1>5 DEF EarliestActiveDevice
  <1> QED
    BY <1>6, <1>7
============================================================================
