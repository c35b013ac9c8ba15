---------------------------- MODULE ClientRetries ----------------------------
(***************************************************************************)
(* The self-rescue path of Client takes a bounded number of calls, for any *)
(* number of clients, devices and faults.                                  *)
(*                                                                         *)
(* The argument is an amortised one.  Toward and Ahead are the calls that  *)
(* a rescuer still has to make if nothing sets it back any more.  No step  *)
(* of its own adds to the calls made and those ahead, a fault adds four at *)
(* most, counting two for the effect that a request given up may have yet, *)
(* and an effect of another client's request adds two.                     *)
(***************************************************************************)
EXTENDS ClientProofs

Activation == IF HasRoom THEN 1 ELSE 3

\* The calls ahead of a rescuer that is about to follow plan with identity d.
Toward(plan, d) ==
    CASE plan = "activate" -> Activation
      [] plan = "kickout"  -> 2
      [] OTHER             -> IF Active(d) THEN 0 ELSE 1 + Activation

\* The calls ahead of a rescuer that waits for a request still to be served.
Ahead(kind) ==
    CASE kind = "activate" -> Activation - 1
      [] kind = "kickout"  -> 1
      [] OTHER             -> Activation

\* The requests of b that it does not wait for any more.
Late(b) == {r \in inbox : r.client = b /\ ~ Pending(r)}
OthersEffects(b) == {x \in done : x[1].client # b}

Spent(b) == clients[b].calls + 2 * Cardinality(Late(b))
Allowed(b) == 1 + 4 * faults + 2 * Cardinality(OthersEffects(b))
Affords(b, k) == Spent(b) + k <= Allowed(b)

\* The identity and the calls ahead of b once it has taken answer a.
IdentityAfter(b, a) ==
    Identity(clients[b].call, IF a.code = "ok" THEN "ok" ELSE Outcome(a.code),
             clients[b].dev, a.dev)
After(b, a) == Toward(Plan(clients[b].call, a.code), IdentityAfter(b, a))

Budget(b) ==
    LET me == clients[b] IN
    /\ ~ me.waiting => Affords(b, Toward(me.plan, me.dev))
    /\ me.waiting /\ me.call \in inbox => Affords(b, Ahead(me.call.kind))
    /\ me.waiting => \A a \in answers : a.to = me.call => Affords(b, After(b, a))

----------------------------------------------------------------------------
(* What else the argument needs. *)

FiniteRecords == IsFiniteSet(inbox) /\ IsFiniteSet(done)

\* Device d was issued to client b.
Owned(d, b) == \E x \in done : Issued(x, d) /\ x[1].client = b

\* A device is issued once, and its identity is used by no other client.
OwnersOK ==
    /\ \A x \in done : x[2] \in DOMAIN devices
    /\ \A x \in done, y \in done :
          x[1].kind = "activate" /\ Issued(y, x[2]) => x[1].client = y[1].client
    /\ \A b \in Clients : clients[b].dev # Nobody => Owned(clients[b].dev, b)
    /\ \A r \in inbox : r.kind \notin Anonymous => Owned(r.dev, r.client)

\* A call in progress is still to be served or has been answered, a Biz call
\* is made with the identity of its client, and a rescuer removes nothing.
CallsOK ==
    /\ \A b \in Clients : clients[b].waiting =>
          /\ clients[b].call \in inbox \/ \E a \in answers : a.to = clients[b].call
          /\ clients[b].call.kind \notin Anonymous => clients[b].call.dev = clients[b].dev
    /\ \A r \in inbox : r.client \in Rescuers => r.kind # "remove_device"

RetryInv == FiniteRecords /\ OwnersOK /\ CallsOK /\ \A b \in Rescuers : Budget(b)

----------------------------------------------------------------------------
(* Sizes. *)

SizesOK ==
    \A b \in Clients :
        /\ IsFiniteSet(Late(b)) /\ Cardinality(Late(b)) \in Nat
        /\ IsFiniteSet(OthersEffects(b)) /\ Cardinality(OthersEffects(b)) \in Nat
        /\ faults \in Nat /\ clients[b].calls \in Nat
        /\ Spent(b) \in Nat /\ Allowed(b) \in Nat

LEMMA Sizes == TypeInv /\ FiniteRecords => SizesOK
  <1> SUFFICES ASSUME TypeInv, FiniteRecords, NEW b \in Clients
               PROVE  /\ IsFiniteSet(Late(b)) /\ Cardinality(Late(b)) \in Nat
                      /\ IsFiniteSet(OthersEffects(b))
                      /\ Cardinality(OthersEffects(b)) \in Nat
                      /\ faults \in Nat /\ clients[b].calls \in Nat
                      /\ Spent(b) \in Nat /\ Allowed(b) \in Nat
    BY DEF SizesOK
  <1>1. Late(b) \subseteq inbox /\ OthersEffects(b) \subseteq done
    BY DEF Late, OthersEffects
  <1>2. /\ IsFiniteSet(Late(b)) /\ Cardinality(Late(b)) \in Nat
        /\ IsFiniteSet(OthersEffects(b)) /\ Cardinality(OthersEffects(b)) \in Nat
    BY <1>1, FS_Subset, FS_CardinalityType DEF FiniteRecords
  <1>3. faults \in Nat /\ clients[b].calls \in Nat
    BY ClientAssumption DEF TypeInv, TypeOK, State
  <1> QED
    BY <1>2, <1>3 DEF Spent, Allowed

TollsOK ==
    /\ Activation \in {1, 3}
    /\ HasRoom => Activation = 1
    /\ \A plan, d : Toward(plan, d) \in 0..4
    /\ \A d : Toward("activate", d) = Activation
    /\ \A d : Toward("kickout", d) = 2
    /\ \A d : Toward("fetch_data", d) = IF Active(d) THEN 0 ELSE 1 + Activation
    /\ Ahead("activate") = Activation - 1 /\ Ahead("kickout") = 1
    /\ \A kind : kind \notin Anonymous => Ahead(kind) = Activation
    /\ \A kind : Ahead(kind) \in 0..3

LEMMA Tolls == TollsOK
  <1>1. Activation \in {1, 3} /\ (HasRoom => Activation = 1)
    BY DEF Activation
  <1>2. ASSUME NEW plan, NEW d PROVE Toward(plan, d) \in 0..4
    <2>1. CASE plan = "activate"
      BY <1>1, <2>1 DEF Toward
    <2>2. CASE plan = "kickout"
      BY <2>2 DEF Toward
    <2>3. CASE plan \notin {"activate", "kickout"}
      BY <1>1, <2>3 DEF Toward
    <2> QED
      BY <2>1, <2>2, <2>3
  <1>3. ASSUME NEW kind PROVE /\ Ahead(kind) \in 0..3
                             /\ kind \notin Anonymous => Ahead(kind) = Activation
    <2>1. CASE kind = "activate"
      BY <1>1, <2>1 DEF Ahead, Anonymous
    <2>2. CASE kind = "kickout"
      BY <2>2 DEF Ahead, Anonymous
    <2>3. CASE kind \notin {"activate", "kickout"}
      BY <1>1, <2>3 DEF Ahead, Anonymous
    <2> QED
      BY <2>1, <2>2, <2>3
  <1> QED
    BY <1>1, <1>2, <1>3 DEF TollsOK, Toward, Ahead

\* What b may end up with: its identity, or one that an answer brings.
Held(b) ==
    {clients[b].dev} \cup
    {a.dev : a \in {x \in answers : /\ x.to = clients[b].call /\ x.code = "ok"
                                    /\ clients[b].waiting /\ x.to.kind = "activate"}}

LEMMA HeldAfter ==
    ASSUME NEW b, NEW a \in answers, clients[b].waiting, a.to = clients[b].call
    PROVE  IdentityAfter(b, a) \in Held(b)
  BY DEF IdentityAfter, Identity, Held, Outcome

LEMMA HeldOwned ==
    ASSUME TypeInv, ClientInv, OwnersOK, NEW b \in Clients, NEW d \in Held(b), d # Nobody
    PROVE  Owned(d, b)
  <1>1. CASE d = clients[b].dev
    BY <1>1 DEF OwnersOK
  <1>2. ASSUME NEW a \in answers, a.to = clients[b].call, a.code = "ok",
               clients[b].waiting, a.to.kind = "activate", d = a.dev
        PROVE  Owned(d, b)
    <2>1. <<a.to, d>> \in done /\ a.to.client = b
      BY <1>2 DEF ClientInv, AnswersOK, Anonymous, TypeInv, CallOK
    <2> QED
      BY <1>2, <2>1 DEF Owned, Issued
  <1> QED
    BY <1>1, <1>2 DEF Held

----------------------------------------------------------------------------
(* What a step of someone else does to the budget of b. *)

\* It adds k to the calls ahead and at least as much to what b may spend.
LEMMA Shifts ==
    ASSUME TypeInv, TypeInv', FiniteRecords, FiniteRecords', NEW b \in Clients, Budget(b),
           NEW k \in Nat,
           clients'[b] = clients[b],
           Spent(b)' + Allowed(b) + k <= Spent(b) + Allowed(b)',
           clients[b].waiting /\ clients[b].call \in inbox' => clients[b].call \in inbox,
           \A a \in answers' : clients[b].waiting /\ a.to = clients[b].call => a \in answers,
           Activation' <= Activation + k,
           \A plan : \A d \in Held(b) : Toward(plan, d)' <= Toward(plan, d) + k
    PROVE  Budget(b)'
  <1>1. /\ Spent(b) \in Nat /\ Allowed(b) \in Nat /\ Spent(b)' \in Nat /\ Allowed(b)' \in Nat
    <2>1. SizesOK /\ SizesOK'
      BY Sizes, PTL
    <2> QED
      BY <2>1 DEF SizesOK
  <1>2. ASSUME NEW m \in Nat, NEW n \in Nat, n <= m + k, Affords(b, m) PROVE Affords(b, n)'
    BY <1>1, <1>2 DEF Affords
  <1>3. /\ Activation \in {1, 3} /\ Activation' \in {1, 3}
        /\ \A plan, d : Toward(plan, d) \in Nat /\ Toward(plan, d)' \in Nat
    <2>1. TollsOK /\ TollsOK'
      BY Tolls, PTL
    <2> QED
      BY <2>1 DEF TollsOK
  <1>4. ASSUME NEW kind PROVE /\ Ahead(kind) \in Nat /\ Ahead(kind)' \in Nat
                             /\ Ahead(kind)' <= Ahead(kind) + k
    BY <1>3 DEF Ahead
  <1>5. ~ clients[b].waiting
            => Affords(b, Toward(clients[b].plan, clients[b].dev))'
    <2>1. clients[b].dev \in Held(b)
      BY DEF Held
    <2> QED
      BY <1>2, <1>3, <2>1 DEF Budget
  <1>6. clients[b].waiting /\ clients[b].call \in inbox'
            => Affords(b, Ahead(clients[b].call.kind))'
    BY <1>2, <1>4 DEF Budget
  <1>7. ASSUME NEW a \in answers', clients[b].waiting, a.to = clients[b].call
        PROVE  Affords(b, After(b, a))'
    <2>1. a \in answers
      BY <1>7
    <2>2. IdentityAfter(b, a) \in Held(b) /\ IdentityAfter(b, a)' = IdentityAfter(b, a)
      BY <1>7, <2>1, HeldAfter DEF IdentityAfter
    <2>3. After(b, a)' <= After(b, a) + k /\ After(b, a) \in Nat /\ After(b, a)' \in Nat
      BY <1>3, <2>2 DEF After
    <2>4. Affords(b, After(b, a))
      BY <1>7, <2>1 DEF Budget
    <2> QED
      BY <1>2, <2>3, <2>4
  <1> QED
    BY <1>5, <1>6, <1>7 DEF Budget

----------------------------------------------------------------------------
(* Initially. *)

LEMMA InitRetry == Init => RetryInv
  <1> SUFFICES ASSUME Init PROVE RetryInv
    OBVIOUS
  <1>1. FiniteRecords
    BY FS_EmptySet DEF Init, FiniteRecords
  <1>2. OwnersOK
    BY DEF Init, OwnersOK, Fresh
  <1>3. CallsOK
    BY DEF Init, CallsOK, Fresh
  <1>4. ASSUME NEW b \in Rescuers PROVE Budget(b)
    <2>1. clients[b] = Fresh
      BY <1>4, ClientAssumption DEF Init
    <2>2. /\ ~ clients[b].waiting /\ clients[b].plan = "activate" /\ clients[b].calls = 0
      BY <2>1 DEF Fresh
    <2>3. HasRoom
      <3>1. ActiveDevicesOfCode(devices, Code) = {}
        BY DEF Init, ActiveDevicesOfCode
      <3> QED
        BY <3>1, FS_EmptySet, ClientAssumption DEF HasRoom, CountActiveDevices
    <2>4. Cardinality(Late(b)) = 0 /\ Cardinality(OthersEffects(b)) = 0 /\ faults = 0
      <3>1. Late(b) = {} /\ OthersEffects(b) = {}
        BY DEF Init, Late, OthersEffects
      <3> QED
        BY <3>1, FS_EmptySet DEF Init
    <2>5. Toward(clients[b].plan, clients[b].dev) = 1
      BY <2>2, <2>3 DEF Toward, Activation
    <2> QED
      BY <2>2, <2>4, <2>5 DEF Budget, Affords, Spent, Allowed
  <1> QED
    BY <1>1, <1>2, <1>3, <1>4 DEF RetryInv

----------------------------------------------------------------------------
(* A call begins. *)

LEMMA BegunClient ==
    ASSUME TypeInv, NEW c \in Clients, NEW r, Begun(c, r)
    PROVE  /\ clients'[c].waiting /\ clients'[c].call = r
           /\ clients'[c].calls = clients[c].calls + 1
           /\ clients'[c].dev = clients[c].dev /\ clients'[c].plan = clients[c].plan
           /\ \A b \in Clients : b # c => clients'[b] = clients[b]
  <1> DEFINE s == [clients[c] EXCEPT !.waiting = TRUE, !.call = r, !.calls = @ + 1]
  <1>1. clients' = [clients EXCEPT ![c] = s]
    BY DEF Begun
  <1>2. clients[c] \in State /\ clients \in [Clients -> State]
    BY DEF TypeInv, TypeOK
  <1>3. /\ s.waiting /\ s.call = r /\ s.calls = clients[c].calls + 1
        /\ s.dev = clients[c].dev /\ s.plan = clients[c].plan
    BY <1>2 DEF State
  <1> HIDE DEF s
  <1> QED
    BY <1>1, <1>2, <1>3

LEMMA BeginOwners ==
    ASSUME TypeInv, ClientInv, FiniteRecords, OwnersOK, CallsOK,
           NEW c \in Clients, NEW r, Begun(c, r)
    PROVE  FiniteRecords' /\ OwnersOK' /\ CallsOK'
  <1>1. /\ inbox' = inbox \cup {r} /\ UNCHANGED <<devices, keys, done, answers>>
        /\ r \in Request /\ r.client = c
        /\ r.kind \notin Anonymous => r.dev = clients[c].dev /\ r.dev \in DeviceIds
    BY DEF Begun, server
  <1>2. FiniteRecords'
    BY <1>1, FS_AddElement DEF FiniteRecords
  <1>3. r.kind \notin Anonymous => Owned(r.dev, c)
    BY <1>1, ClientAssumption DEF OwnersOK
  <1>4. OwnersOK'
    BY <1>1, <1>3, BegunClient DEF OwnersOK, Owned, Issued
  <1>5. c \in Rescuers => r.kind # "remove_device"
    BY DEF Begun, TypeInv, CallOK
  <1>6. CallsOK'
    BY <1>1, <1>5, BegunClient DEF CallsOK
  <1> QED
    BY <1>2, <1>4, <1>6

\* Nothing that b has given up is taken up again.
LEMMA BeginLate ==
    ASSUME TypeInv, ClientInv, NEW c \in Clients, NEW r, Begun(c, r), NEW b \in Clients
    PROVE  Late(b)' = Late(b)
  <1>1. inbox' = inbox \cup {r} /\ r.client = c /\ ~ clients[c].waiting
    BY DEF Begun
  <1>2. r \notin inbox /\ Pending(r)'
    BY FreshCall DEF ClientInv, InboxOK
  <1>3. ASSUME NEW q \in inbox PROVE Pending(q)' = Pending(q)
    <2>1. q.client \in Clients /\ q # r
      BY <1>2, RecordedRequests
    <2> QED
      BY <1>1, <2>1, BegunClient DEF Pending
  <1> QED
    BY <1>1, <1>2, <1>3 DEF Late

LEMMA BeginBudget ==
    ASSUME TypeInv, TypeInv', ClientInv, RetryInv, FiniteRecords',
           NEW c \in Clients, NEW r, Begun(c, r), NEW b \in Rescuers
    PROVE  Budget(b)'
  <1>1. /\ b \in Clients /\ Late(b)' = Late(b) /\ OthersEffects(b)' = OthersEffects(b)
        /\ Allowed(b)' = Allowed(b)
    BY BeginLate, ClientAssumption DEF Begun, server, OthersEffects, Allowed
  <1>2. /\ inbox' = inbox \cup {r} /\ r.client = c /\ UNCHANGED <<devices, keys, answers>>
        /\ ~ clients[c].waiting
    BY DEF Begun, server
  <1>3. /\ Activation' = Activation
        /\ \A plan, d : Toward(plan, d)' = Toward(plan, d)
        /\ \A kind : Ahead(kind)' = Ahead(kind)
    BY <1>2 DEF Activation, HasRoom, Toward, Ahead, Active
  <1>4. Spent(b) \in Nat /\ Allowed(b) \in Nat /\ clients[b].calls \in Nat
                         /\ Cardinality(Late(b)) \in Nat
    BY <1>1, Sizes DEF SizesOK, RetryInv
  <1>5. TollsOK
    BY Tolls
  <1>6. CASE b # c
    <2>1. clients'[b] = clients[b]
      BY <1>1, <1>6, BegunClient
    <2>2. Spent(b)' = Spent(b)
      BY <1>1, <2>1 DEF Spent
    <2>3. clients[b].waiting => clients[b].call # r
      BY <1>1, <1>2, <1>6 DEF TypeInv, CallOK
    <2>4. Spent(b)' + Allowed(b) + 0 <= Spent(b) + Allowed(b)'
      BY <1>1, <1>4, <2>2
    <2>5. Activation' <= Activation + 0
      BY <1>3, <1>5 DEF TollsOK
    <2>6. \A plan : \A d \in Held(b) : Toward(plan, d)' <= Toward(plan, d) + 0
      <3>1. \A plan, d : Toward(plan, d) \in Nat
        BY <1>5 DEF TollsOK
      <3> QED
        BY <1>3, <3>1
    <2> QED
      BY <1>1, <1>2, <2>1, <2>3, <2>4, <2>5, <2>6, Shifts DEF RetryInv
  <1>7. CASE b = c
    <2>1. /\ r.kind = clients[b].plan /\ r.kind \in Kinds \ {"remove_device"}
          /\ r.kind = "fetch_data" => ~ Active(clients[b].dev)
      BY <1>7, RequestType DEF Begun, TypeInv, CallOK
    <2>2. Toward(r.kind, clients[b].dev) = 1 + Ahead(r.kind)
      <3>1. CASE r.kind = "activate"
        BY <1>5, <3>1 DEF TollsOK
      <3>2. CASE r.kind = "kickout"
        BY <1>5, <3>2 DEF TollsOK
      <3>3. CASE r.kind = "fetch_data"
        BY <1>5, <2>1, <3>3 DEF TollsOK, Anonymous
      <3> QED
        BY <2>1, <3>1, <3>2, <3>3 DEF Kinds, Anonymous
    <2>3. Affords(b, Toward(r.kind, clients[b].dev))
      BY <1>2, <1>7, <2>1 DEF RetryInv, Budget
    <2>4. Spent(b)' = Spent(b) + 1
      BY <1>1, <1>4, <1>7, BegunClient DEF Spent
    <2>5. Ahead(r.kind) \in Nat
      BY <1>5 DEF TollsOK
    <2>6. Affords(b, Ahead(r.kind))'
      BY <1>1, <1>3, <1>4, <2>2, <2>3, <2>4, <2>5 DEF Affords
    <2>7. clients'[b].waiting /\ clients'[b].call = r
      BY <1>7, BegunClient
    <2>8. \A a \in answers' : a.to # r
      BY <1>2, FreshCall DEF ClientInv, AnswersOK
    <2> QED
      BY <2>6, <2>7, <2>8 DEF Budget
  <1> QED
    BY <1>6, <1>7

----------------------------------------------------------------------------
(* A call returns. *)

LEMMA EndOwners ==
    ASSUME TypeInv, ClientInv, FiniteRecords, OwnersOK, CallsOK, NEW c \in Clients,
           NEW outcome \in {"ok", "refused", "unsure"}, NEW d, Ended(c, outcome, d)
    PROVE  FiniteRecords' /\ OwnersOK' /\ CallsOK'
  <1>1. UNCHANGED <<devices, keys, done, inbox, answers>> /\ clients[c].waiting
    BY DEF Ended, server
  <1>2. FiniteRecords'
    BY <1>1 DEF FiniteRecords
  <1>3. CASE clients'[c].dev = clients[c].dev
    <2>1. OwnersOK'
      BY <1>1, <1>3, EndedClient DEF OwnersOK, Owned, Issued
    <2> QED
      BY <1>1, <1>2, <2>1, EndedClient DEF CallsOK
  <1>4. CASE clients'[c].dev # clients[c].dev
    <2>1. outcome = "ok" /\ clients[c].call.kind = "activate" /\ clients'[c].dev = d
      BY <1>4, EndedClient DEF Identity
    <2>2. <<clients[c].call, d>> \in done /\ clients[c].call.client = c
      BY <1>1, <2>1 DEF Ended, ClientInv, AnswersOK, Anonymous, TypeInv, CallOK
    <2>3. Owned(clients'[c].dev, c)
      BY <2>1, <2>2 DEF Owned, Issued
    <2>4. OwnersOK'
      BY <1>1, <2>3, EndedClient DEF OwnersOK, Owned, Issued
    <2> QED
      BY <1>1, <1>2, <2>4, EndedClient DEF CallsOK
  <1> QED
    BY <1>3, <1>4

\* The record of a client whose call has returned.
LEMMA ReturnedClient ==
    ASSUME TypeInv, NEW c \in Clients, NEW outcome, NEW code, NEW d,
           Return(c, outcome, code, d)
    PROVE  /\ ~ clients'[c].waiting /\ clients'[c].call = clients[c].call
           /\ clients'[c].calls = clients[c].calls
           /\ clients'[c].plan = Plan(clients[c].call, code)
           /\ clients'[c].dev = Identity(clients[c].call, outcome, clients[c].dev, d)
           /\ \A b \in Clients : b # c => clients'[b] = clients[b]
  <1> DEFINE p == Plan(clients[c].call, code)
             i == Identity(clients[c].call, outcome, clients[c].dev, d)
             s == [clients[c] EXCEPT !.waiting = FALSE, !.plan = p, !.dev = i]
  <1>1. clients[c] \in State /\ clients \in [Clients -> State]
    BY DEF TypeInv, TypeOK
  <1>2. clients' = [clients EXCEPT ![c] = s]
    BY DEF Return
  <1> HIDE DEF p, i
  <1>3. /\ ~ s.waiting /\ s.call = clients[c].call /\ s.calls = clients[c].calls
        /\ s.plan = p /\ s.dev = i
    BY <1>1 DEF State
  <1> HIDE DEF s
  <1> QED
    BY <1>1, <1>2, <1>3 DEF p, i

\* A call that was answered is none that is given up.
LEMMA ReturnLate ==
    ASSUME TypeInv, FiniteRecords, NEW c \in Clients, clients[c].waiting,
           NEW outcome, NEW code, NEW d, Return(c, outcome, code, d), inbox' = inbox,
           NEW b \in Clients
    PROVE  /\ clients[b].calls = clients'[b].calls
           /\ b # c \/ clients[c].call \notin inbox => Late(b)' = Late(b)
           /\ Cardinality(Late(b)') <= Cardinality(Late(b)) + 1
  <1>1. ASSUME NEW q \in inbox, q # clients[c].call PROVE Pending(q)' = Pending(q)
    <2>1. q.client \in Clients
      BY RecordedRequests
    <2> QED
      BY <1>1, <2>1, ReturnedClient DEF Pending
  <1>2. b # c \/ clients[c].call \notin inbox => Late(b)' = Late(b)
    <2>1. clients[c].call.client = c
      BY DEF TypeInv, CallOK
    <2> QED
      BY <1>1, <2>1 DEF Late
  <1>3. IsFiniteSet(Late(b)) /\ Cardinality(Late(b)) \in Nat
    BY Sizes DEF SizesOK
  <1>4. CASE Late(b)' = Late(b)
    BY <1>2, <1>3, <1>4, ReturnedClient
  <1>5. CASE Late(b)' # Late(b)
    <2>1. b = c /\ clients[c].call \in inbox
      BY <1>2, <1>5
    <2>2. PICK r : r = clients[c].call /\ r \in inbox /\ r.client = c
      BY <2>1 DEF TypeInv, CallOK
    <2>3. Pending(r) /\ ~ Pending(r)'
      BY <2>2, ReturnedClient DEF Pending
    <2>4. Late(b)' = Late(b) \cup {r}
      BY <1>1, <2>1, <2>2, <2>3 DEF Late
    <2>5. Cardinality(Late(b) \cup {r}) \in {Cardinality(Late(b)), Cardinality(Late(b)) + 1}
      BY <1>3, FS_AddElement
    <2> QED
      BY <1>2, <1>3, <2>1, <2>4, <2>5, ReturnedClient
  <1> QED
    BY <1>4, <1>5

\* The calls ahead after a call that nothing is known of.
LEMMA UnsureToll ==
    ASSUME NEW r, r.kind \in Kinds, NEW d
    PROVE  Toward(Plan(r, "none"), d) <= Ahead(r.kind) + 2
  <1>1. TollsOK
    BY Tolls
  <1>2. CASE r.kind \in Anonymous
    <2>1. Plan(r, "none") = "activate"
      BY <1>2 DEF Plan
    <2> QED
      BY <1>1, <1>2, <2>1 DEF TollsOK, Anonymous
  <1>3. CASE r.kind \notin Anonymous
    <2>1. Plan(r, "none") = "fetch_data"
      BY <1>3 DEF Plan, Anonymous
    <2> QED
      BY <1>1, <1>3, <2>1 DEF TollsOK
  <1> QED
    BY <1>2, <1>3

LEMMA ReturnBudget ==
    ASSUME TypeInv, TypeInv', ClientInv, RetryInv, FiniteRecords',
           NEW c \in Clients, Returns(c), NEW b \in Rescuers
    PROVE  Budget(b)'
  <1>1. b \in Clients
    BY ClientAssumption
  <1>2. /\ clients[c].waiting /\ UNCHANGED <<devices, keys, done, inbox, answers>>
        /\ \/ UNCHANGED faults /\ \E a \in answers :
                 /\ a.to = clients[c].call
                 /\ Return(c, IF a.code = "ok" THEN "ok" ELSE Outcome(a.code), a.code,
                           IF a.code = "ok" THEN a.dev ELSE Nobody)
           \/ faults' = faults + 1 /\ Return(c, "unsure", "none", Nobody)
    BY DEF Returns, Accept, Reject, Refused, GiveUp, Fault, Verified, server
  <1>3. PICK outcome, code, d : Return(c, outcome, code, d)
    BY <1>2
  <1>4. /\ OthersEffects(b)' = OthersEffects(b)
        /\ Activation' = Activation
        /\ \A plan, e : Toward(plan, e)' = Toward(plan, e)
    BY <1>2 DEF OthersEffects, Activation, HasRoom, Toward, Active
  <1>5. /\ Spent(b) \in Nat /\ Allowed(b) \in Nat /\ Spent(b)' \in Nat /\ Allowed(b)' \in Nat
        /\ clients[b].calls \in Nat /\ Cardinality(Late(b)) \in Nat
        /\ Cardinality(Late(b)') \in Nat /\ Cardinality(OthersEffects(b)) \in Nat
        /\ faults \in Nat /\ faults' \in Nat
    <2>1. SizesOK /\ SizesOK'
      BY Sizes, PTL DEF RetryInv
    <2> QED
      BY <1>1, <2>1 DEF SizesOK
  <1>6. Allowed(b)' = Allowed(b) + 4 * (faults' - faults) /\ faults' \in {faults, faults + 1}
    BY <1>2, <1>4, <1>5 DEF Allowed
  <1>7. TollsOK
    BY Tolls
  <1>8. CASE b # c
    <2>1. clients'[b] = clients[b]
      BY <1>1, <1>3, <1>8, ReturnedClient
    <2>2. Spent(b)' = Spent(b)
      BY <1>1, <1>2, <1>3, <1>8, <2>1, ReturnLate DEF Spent, RetryInv
    <2>3. Spent(b)' + Allowed(b) + 0 <= Spent(b) + Allowed(b)'
      BY <1>5, <1>6, <2>2
    <2>4. Activation' <= Activation + 0
      BY <1>4, <1>7 DEF TollsOK
    <2>5. \A plan : \A e \in Held(b) : Toward(plan, e)' <= Toward(plan, e) + 0
      <3>1. \A plan, e : Toward(plan, e) \in Nat
        BY <1>7 DEF TollsOK
      <3> QED
        BY <1>4, <3>1
    <2> QED
      BY <1>1, <1>2, <2>1, <2>3, <2>4, <2>5, Shifts DEF RetryInv
  <1>9. CASE b = c
    <2> DEFINE r == clients[b].call
    <2>1. r \in Request /\ r.kind \in Kinds /\ clients[b].waiting
      BY <1>1, <1>2, <1>9, RequestType DEF TypeInv, CallOK
    <2>2. ASSUME NEW a \in answers, a.to = r, UNCHANGED faults,
                 Return(b, IF a.code = "ok" THEN "ok" ELSE Outcome(a.code), a.code,
                        IF a.code = "ok" THEN a.dev ELSE Nobody)
          PROVE  Budget(b)'
      <3>1. /\ ~ clients'[b].waiting /\ clients'[b].plan = Plan(r, a.code)
            /\ clients'[b].dev = IdentityAfter(b, a)
        BY <1>1, <2>2, ReturnedClient DEF IdentityAfter, Identity, Outcome
      <3>2. Toward(clients[b].plan, clients[b].dev)' = After(b, a)
        BY <1>4, <3>1 DEF After
      <3>3. r \notin inbox
        BY <2>2 DEF ClientInv, AnswersOK
      <3>4. Spent(b)' = Spent(b)
        BY <1>1, <1>2, <1>9, <2>1, <2>2, <3>3, ReturnLate DEF Spent, RetryInv
      <3>5. Affords(b, After(b, a))
        BY <2>1, <2>2 DEF RetryInv, Budget
      <3>6. Affords(b, Toward(clients[b].plan, clients[b].dev))'
        BY <1>6, <2>2, <3>2, <3>4, <3>5, <1>5 DEF Affords
      <3> QED
        BY <3>1, <3>6 DEF Budget
    <2>3. ASSUME faults' = faults + 1, Return(b, "unsure", "none", Nobody)
          PROVE  Budget(b)'
      <3>1. /\ ~ clients'[b].waiting /\ clients'[b].plan = Plan(r, "none")
            /\ clients'[b].dev = clients[b].dev
        BY <1>1, <2>3, ReturnedClient DEF Identity
      <3> DEFINE k == Toward(Plan(r, "none"), clients[b].dev)
      <3>2. Toward(clients[b].plan, clients[b].dev)' = k /\ k \in 0..4
        BY <1>4, <1>7, <3>1 DEF TollsOK
      <3>3. CASE r \in inbox
        <4>1. Spent(b)' <= Spent(b) + 2
          BY <1>1, <1>2, <1>5, <1>9, <2>1, <2>3, ReturnLate DEF Spent, RetryInv
        <4>2. Affords(b, Ahead(r.kind))
          BY <2>1, <3>3 DEF RetryInv, Budget
        <4>3. k <= Ahead(r.kind) + 2 /\ Ahead(r.kind) \in 0..3
          BY <1>7, <2>1, UnsureToll DEF TollsOK
        <4> HIDE DEF k
        <4>4. Spent(b)' + k <= Allowed(b)'
          BY <1>5, <1>6, <2>3, <3>2, <4>1, <4>2, <4>3 DEF Affords
        <4> QED
          BY <3>1, <3>2, <4>4 DEF Budget, Affords
      <3>4. CASE r \notin inbox
        <4>1. PICK a \in answers : a.to = r
          BY <1>1, <2>1, <3>4 DEF RetryInv, CallsOK
        <4>2. Affords(b, After(b, a)) /\ After(b, a) \in 0..4
          BY <1>7, <2>1, <4>1 DEF RetryInv, Budget, After, TollsOK
        <4>3. Spent(b)' = Spent(b)
          BY <1>1, <1>2, <1>9, <2>1, <2>3, <3>4, ReturnLate DEF Spent, RetryInv
        <4> HIDE DEF k
        <4>4. Spent(b)' + k <= Allowed(b)'
          BY <1>5, <1>6, <2>3, <3>2, <4>2, <4>3 DEF Affords
        <4> QED
          BY <3>1, <3>2, <4>4 DEF Budget, Affords
      <3> QED
        BY <3>3, <3>4
    <2> QED
      BY <1>2, <1>9, <2>2, <2>3
  <1> QED
    BY <1>8, <1>9

----------------------------------------------------------------------------
(* A request is served, or lost. *)

LEMMA ServeOwners ==
    ASSUME TypeInv, FiniteRecords, OwnersOK, CallsOK, NEW r, NEW a, Served(r, a),
           NoChange(r, a) \/ \E d \in DeviceIds : Effect(r, d, a)
    PROVE  FiniteRecords' /\ OwnersOK' /\ CallsOK'
  <1>1. /\ inbox' = inbox \ {r} /\ answers' = answers \cup {a} /\ a.to = r
        /\ clients' = clients
    BY DEF Served
  <1>2. CallsOK'
    BY <1>1 DEF CallsOK
  <1>3. IsFiniteSet(inbox')
    BY <1>1, FS_RemoveElement DEF FiniteRecords
  <1>4. CASE NoChange(r, a)
    BY <1>1, <1>2, <1>3, <1>4 DEF NoChange, server, FiniteRecords, OwnersOK, Owned, Issued
  <1>5. ASSUME NEW d \in DeviceIds, Effect(r, d, a) PROVE IsFiniteSet(done') /\ OwnersOK'
    <2>1. done' = done \cup {<<r, d>>} /\ IsFiniteSet(done')
      BY <1>5, FS_AddElement DEF Effect, FiniteRecords
    <2>2. /\ DOMAIN devices \subseteq DOMAIN devices' /\ d \in DOMAIN devices'
          /\ r.kind = "activate" => d \notin DOMAIN devices
      BY <1>5 DEF Effect, Enrolled, Retired
    <2>3. \A x \in done' : x[2] \in DOMAIN devices'
      BY <2>1, <2>2 DEF OwnersOK
    <2>4. \A x \in done', y \in done' :
             x[1].kind = "activate" /\ Issued(y, x[2]) => x[1].client = y[1].client
      <3> SUFFICES ASSUME NEW x \in done', NEW y \in done', x[1].kind = "activate",
                          y[1].kind = "activate", y[2] = x[2]
                   PROVE  x[1].client = y[1].client
        BY DEF Issued
      <3>1. CASE x \in done /\ y \in done
        BY <3>1 DEF OwnersOK, Issued
      <3>2. CASE x \notin done /\ y \notin done
        BY <2>1, <3>2
      <3>3. CASE ~ (x \in done <=> y \in done)
        BY <2>1, <2>2, <3>3 DEF OwnersOK
      <3> QED
        BY <3>1, <3>2, <3>3
    <2>5. \A e, b : Owned(e, b) => Owned(e, b)'
      BY <2>1 DEF Owned, Issued
    <2>6. /\ \A b \in Clients : clients[b].dev # Nobody => Owned(clients[b].dev, b)'
          /\ \A q \in inbox' : q.kind \notin Anonymous => Owned(q.dev, q.client)'
      BY <1>1, <2>5 DEF OwnersOK
    <2> QED
      BY <1>1, <2>1, <2>3, <2>4, <2>6 DEF OwnersOK, Owned
  <1> QED
    BY <1>2, <1>3, <1>4, <1>5 DEF FiniteRecords

\* What an effect of a request can do to a client that neither asked for it
\* nor removed itself.
LEMMA EffectCosts ==
    ASSUME TypeInv, TypeInv', NEW r, NEW a, NEW d, Effect(r, d, a), NEW e,
           r.kind = "remove_device" /\ r.dev = r.target => r.dev # e
    PROVE  \A plan : Toward(plan, e)' <= Toward(plan, e) + 2
  <1>1. /\ Activation \in {1, 3} /\ Activation' \in {1, 3}
        /\ HasRoom' => Activation' = 1
    BY DEF Activation
  <1>2. CASE Active(e) /\ ~ Active(e)'
    <2>1. Enrolled(d) \/ Retired(d)
      BY DEF Effect
    <2>2. e \in DOMAIN devices /\ e \in DOMAIN devices'
      BY <1>2, <2>1 DEF Active, Enrolled, Retired, TypeInv, TypeOK
    <2>3. keys'[e] # keys[e]
      BY <1>2, <2>2 DEF Active, TypeInv, TypeOK
    <2>4. Retired(d) /\ e = d /\ ~ Enrolled(d)
      BY <2>1, <2>2, <2>3 DEF Enrolled, Retired
    <2>5. HasRoom'
      BY <2>4 DEF Effect, Freed
    <2> QED
      BY <1>1, <1>2, <2>5 DEF Toward
  <1>3. CASE ~ Active(e) \/ Active(e)'
    BY <1>1, <1>3 DEF Toward
  <1> QED
    BY <1>2, <1>3

\* An effect is new in the records.
LEMMA EffectCounts ==
    ASSUME TypeInv, FiniteRecords, NEW r, NEW d \in DeviceIds, NoEffect(r),
           done' = done \cup {<<r, d>>}, NEW b \in Clients
    PROVE  Cardinality(OthersEffects(b)')
              = IF r.client = b THEN Cardinality(OthersEffects(b))
                ELSE Cardinality(OthersEffects(b)) + 1
  <1>1. IsFiniteSet(OthersEffects(b))
    BY Sizes DEF SizesOK
  <1>2. <<r, d>> \notin OthersEffects(b)
    BY DEF NoEffect, OthersEffects
  <1>3. CASE r.client = b
    <2>1. OthersEffects(b)' = OthersEffects(b)
      BY <1>3 DEF OthersEffects
    <2> QED
      BY <1>3, <2>1
  <1>4. CASE r.client # b
    <2>1. OthersEffects(b)' = OthersEffects(b) \cup {<<r, d>>}
      BY <1>4 DEF OthersEffects
    <2> QED
      BY <1>1, <1>2, <1>4, <2>1, FS_AddElement
  <1> QED
    BY <1>3, <1>4

\* A request that b does not wait for is no more among those given up.
LEMMA LateServed ==
    ASSUME TypeInv, FiniteRecords, NEW r \in inbox, inbox' = inbox \ {r}, clients' = clients,
           NEW b \in Clients
    PROVE  /\ r.client # b \/ Pending(r) => Late(b)' = Late(b)
           /\ r.client = b /\ ~ Pending(r) =>
                 Cardinality(Late(b)') = Cardinality(Late(b)) - 1
  <1>1. Late(b)' = Late(b) \ {r}
    BY DEF Late, Pending
  <1>2. r \in Late(b) <=> r.client = b /\ ~ Pending(r)
    BY DEF Late
  <1>3. IsFiniteSet(Late(b))
    BY Sizes DEF SizesOK
  <1>4. CASE r \in Late(b)
    BY <1>1, <1>2, <1>3, <1>4, FS_RemoveElement
  <1>5. CASE r \notin Late(b)
    BY <1>1, <1>2, <1>5
  <1> QED
    BY <1>4, <1>5

\* What a served request leaves of its caller's way, as the answer tells.
LEMMA AnswerToll ==
    ASSUME TypeInv, TypeInv', NEW b \in Rescuers, NEW r, r.kind \in Kinds \ {"remove_device"},
           r = clients[b].call,
           r.kind \notin Anonymous => r.dev = clients[b].dev,
           NEW a, a.code \in Codes, a.code # "internal", clients' = clients,
           NoChange(r, a) \/ \E d \in DeviceIds : Effect(r, d, a)
    PROVE  After(b, a)' <= Ahead(r.kind)
  <1>1. TollsOK /\ TollsOK'
    BY Tolls, PTL
  <1>2. After(b, a)' = Toward(Plan(r, a.code), IdentityAfter(b, a))'
    BY DEF After
  <1>3. PICK p, i : p = Plan(r, a.code) /\ i = IdentityAfter(b, a) /\ After(b, a)' = Toward(p, i)'
    BY DEF After, IdentityAfter
  <1>4. CASE NoChange(r, a)
    <2>1. /\ HasRoom' = HasRoom /\ Activation' = Activation
          /\ \A e : Active(e)' = Active(e)
      BY <1>4 DEF NoChange, server, HasRoom, Activation, Active
    <2>2. CASE a.code = "ok"
      <3>1. r.kind = "fetch_data" /\ Active(r.dev)
        BY <1>4, <2>2 DEF NoChange, Kinds
      <3>2. p = "fetch_data" /\ i = r.dev
        BY <1>3, <2>2, <3>1 DEF Plan, IdentityAfter, Identity, Anonymous
      <3>3. Toward(p, i)' = 0
        BY <1>1, <2>1, <3>1, <3>2 DEF TollsOK
      <3> QED
        BY <1>1, <1>3, <3>3 DEF TollsOK
    <2>3. CASE a.code = "limit"
      <3>1. r.kind = "activate" /\ ~ HasRoom /\ p = "kickout"
        BY <1>3, <1>4, <2>3 DEF NoChange, Plan
      <3>2. Ahead(r.kind) = 2
        BY <1>1, <3>1 DEF TollsOK, Activation
      <3> QED
        BY <1>1, <1>3, <3>1, <3>2 DEF TollsOK
    <2>4. CASE a.code = "noDevice"
      <3>1. r.kind = "kickout" /\ HasRoom /\ p = "activate"
        BY <1>3, <1>4, <2>4 DEF NoChange, Plan, Anonymous
      <3> QED
        BY <1>1, <1>3, <2>1, <3>1 DEF TollsOK
    <2>5. CASE a.code = "crypto"
      <3>1. r.kind \notin Anonymous /\ p = "activate"
        BY <1>3, <1>4, <2>5 DEF NoChange, Plan, Anonymous
      <3> QED
        BY <1>1, <1>3, <2>1, <3>1 DEF TollsOK
    <2> QED
      BY <2>2, <2>3, <2>4, <2>5 DEF Codes, Refusals
  <1>5. ASSUME NEW d \in DeviceIds, Effect(r, d, a) PROVE After(b, a)' <= Ahead(r.kind)
    <2>1. a.code = "ok" /\ a.dev = d
      BY <1>5 DEF Effect
    <2>2. CASE r.kind = "activate"
      <3>1. p = "fetch_data" /\ i = d
        BY <1>3, <2>1, <2>2 DEF Plan, IdentityAfter, Identity
      <3>2. HasRoom /\ Active(d)'
        BY <1>5, <2>2 DEF Effect, Enrolled, Active, TypeInv, TypeOK
      <3>3. Toward(p, i)' = 0 /\ Ahead(r.kind) = 0
        BY <1>1, <2>2, <3>1, <3>2 DEF TollsOK
      <3> QED
        BY <1>3, <3>3
    <2>3. CASE r.kind = "kickout"
      <3>1. p = "activate"
        BY <1>3, <2>1, <2>3 DEF Plan, Anonymous
      <3>2. HasRoom'
        BY <1>5, <2>3 DEF Effect
      <3> QED
        BY <1>1, <1>3, <2>3, <3>1, <3>2 DEF TollsOK
    <2> QED
      BY <1>5, <2>2, <2>3 DEF Effect
  <1> QED
    BY <1>4, <1>5

LEMMA ServeBudget ==
    ASSUME TypeInv, TypeInv', ClientInv, RetryInv, FiniteRecords',
           NEW r \in inbox, NEW a, Served(r, a),
           NoChange(r, a) \/ \E d \in DeviceIds : Effect(r, d, a), NEW b \in Rescuers
    PROVE  Budget(b)'
  <1>1. /\ inbox' = inbox \ {r} /\ answers' = answers \cup {a} /\ a.to = r
        /\ clients' = clients /\ a.code \in Codes
        /\ faults' = IF a.code = "internal" THEN faults + 1 ELSE faults
    BY DEF Served, Answer
  <1>2. b \in Clients /\ r.kind \in Kinds /\ r.client \in Clients /\ NoEffect(r)
    BY ClientAssumption, RequestType DEF TypeInv, TypeOK, ClientInv, InboxOK
  <1>3. /\ Spent(b) \in Nat /\ Allowed(b) \in Nat /\ Spent(b)' \in Nat /\ Allowed(b)' \in Nat
        /\ clients[b].calls \in Nat /\ Cardinality(Late(b)) \in Nat
        /\ Cardinality(OthersEffects(b)) \in Nat /\ faults \in Nat
    <2>1. SizesOK /\ SizesOK'
      BY Sizes, PTL DEF RetryInv
    <2> QED
      BY <1>2, <2>1 DEF SizesOK
  <1>4. TollsOK /\ TollsOK'
    BY Tolls, PTL
  <1>5. PICK k \in {0, 2} :
           /\ k = 0 => NoChange(r, a)
           /\ k = 2 => \E d \in DeviceIds : Effect(r, d, a)
    OBVIOUS
  <1>6. Cardinality(OthersEffects(b)') =
            IF k = 2 /\ r.client # b THEN Cardinality(OthersEffects(b)) + 1
            ELSE Cardinality(OthersEffects(b))
    <2>1. CASE k = 0
      <3>1. OthersEffects(b)' = OthersEffects(b)
        BY <1>5, <2>1 DEF NoChange, server, OthersEffects
      <3> QED
        BY <2>1, <3>1
    <2>2. CASE k = 2
      <3>1. PICK d \in DeviceIds : Effect(r, d, a)
        BY <1>5, <2>2
      <3>2. done' = done \cup {<<r, d>>}
        BY <3>1 DEF Effect
      <3> QED
        BY <1>2, <2>2, <3>2, EffectCounts DEF RetryInv
    <2> QED
      BY <2>1, <2>2
  <1>7. Allowed(b)' = Allowed(b) + (IF a.code = "internal" THEN 4 ELSE 0)
                          + (IF k = 2 /\ r.client # b THEN 2 ELSE 0)
    BY <1>1, <1>3, <1>6 DEF Allowed
  <1>8. CASE r.client # b \/ ~ Pending(r)
    <2>1. Spent(b)' = Spent(b) - (IF r.client # b THEN 0 ELSE 2)
      <3>1. Cardinality(Late(b)') = Cardinality(Late(b)) - (IF r.client # b THEN 0 ELSE 1)
        BY <1>1, <1>2, <1>3, <1>8, LateServed DEF RetryInv
      <3> QED
        BY <1>1, <1>3, <3>1 DEF Spent
    <2>2. Spent(b)' + Allowed(b) + k <= Spent(b) + Allowed(b)'
      BY <1>3, <1>5, <1>7, <2>1
    <2>3. clients[b].waiting => clients[b].call # r
      BY <1>2, <1>8 DEF TypeInv, CallOK, Pending
    <2>4. Activation' <= Activation + k
      <3>1. CASE k = 0
        <4>1. Activation' = Activation
          BY <1>5, <3>1 DEF NoChange, server, Activation, HasRoom
        <4> QED
          BY <1>4, <3>1, <4>1 DEF TollsOK
      <3>2. CASE k = 2
        BY <1>4, <3>2 DEF TollsOK
      <3> QED
        BY <3>1, <3>2
    <2>5. ASSUME NEW e \in Held(b), r.kind = "remove_device", r.dev = e PROVE FALSE
      <3>1. r.client # b /\ Owned(r.dev, r.client) /\ r.dev \in DeviceIds
        BY <1>2, <2>5, RequestType DEF RetryInv, CallsOK, OwnersOK, Anonymous, TypeInv, TypeOK
      <3>2. Owned(e, b)
        BY <1>2, <2>5, <3>1, HeldOwned, ClientAssumption DEF RetryInv
      <3> QED
        BY <2>5, <3>1, <3>2 DEF RetryInv, OwnersOK, Owned, Issued
    <2>6. ASSUME NEW plan, NEW e \in Held(b) PROVE Toward(plan, e)' <= Toward(plan, e) + k
      <3>1. CASE k = 0
        <4>1. Toward(plan, e)' = Toward(plan, e)
          BY <1>5, <3>1 DEF NoChange, server, Toward, Activation, HasRoom, Active
        <4> QED
          BY <1>4, <3>1, <4>1 DEF TollsOK
      <3>2. CASE k = 2
        BY <1>5, <2>5, <3>2, EffectCosts
      <3> QED
        BY <3>1, <3>2
    <2>7. /\ clients'[b] = clients[b] /\ k \in Nat
          /\ clients[b].waiting /\ clients[b].call \in inbox' => clients[b].call \in inbox
          /\ \A x \in answers' : clients[b].waiting /\ x.to = clients[b].call => x \in answers
      BY <1>1, <2>3
    <2> QED
      BY <1>2, <2>2, <2>4, <2>6, <2>7, Shifts DEF RetryInv
  <1>9. CASE r.client = b /\ Pending(r)
    <2>1. clients[b].waiting /\ clients[b].call = r /\ r.kind # "remove_device"
      BY <1>9 DEF Pending, RetryInv, CallsOK
    <2>2. Affords(b, Ahead(r.kind))
      BY <2>1 DEF RetryInv, Budget
    <2>3. Spent(b)' = Spent(b)
      BY <1>1, <1>2, <1>9, LateServed DEF Spent, RetryInv
    <2>4. \A x \in answers : x.to # r
      BY DEF ClientInv, AnswersOK
    <2>5. Affords(b, After(b, a))'
      <3>1. After(b, a)' \in 0..4
        BY <1>4 DEF TollsOK, After
      <3>2. Ahead(r.kind) \in 0..3
        BY <1>4 DEF TollsOK
      <3>3. CASE a.code = "internal"
        BY <1>3, <1>7, <1>9, <2>2, <2>3, <3>1, <3>2, <3>3 DEF Affords
      <3>4. CASE a.code # "internal"
        <4>1. r.kind \notin Anonymous => r.dev = clients[b].dev
          BY <1>2, <2>1 DEF RetryInv, CallsOK
        <4>2. After(b, a)' <= Ahead(r.kind)
          BY <1>1, <1>2, <2>1, <3>4, <4>1, AnswerToll
        <4> QED
          BY <1>3, <1>7, <1>9, <2>2, <2>3, <3>1, <3>2, <3>4, <4>2 DEF Affords
      <3> QED
        BY <3>3, <3>4
    <2> QED
      BY <1>1, <2>1, <2>4, <2>5 DEF Budget
  <1> QED
    BY <1>8, <1>9

LEMMA LoseRetry ==
    ASSUME TypeInv, TypeInv', RetryInv, NEW r, Lose(r)
    PROVE  RetryInv'
  <1>1. /\ r \in inbox /\ ~ Pending(r) /\ inbox' = inbox \ {r} /\ clients' = clients
        /\ UNCHANGED <<devices, keys, done, answers, faults>>
    BY DEF Lose, server
  <1>2. FiniteRecords'
    BY <1>1, FS_RemoveElement DEF RetryInv, FiniteRecords
  <1>3. OwnersOK'
    BY <1>1 DEF RetryInv, OwnersOK, Owned, Issued
  <1>4. \A b \in Clients : clients[b].waiting => clients[b].call # r
    BY <1>1 DEF Pending, TypeInv, CallOK
  <1>5. CallsOK'
    BY <1>1, <1>4 DEF RetryInv, CallsOK
  <1>6. ASSUME NEW b \in Rescuers PROVE Budget(b)'
    <2>1. b \in Clients
      BY ClientAssumption
    <2>2. /\ Spent(b) \in Nat /\ Allowed(b) \in Nat /\ clients[b].calls \in Nat
          /\ Cardinality(Late(b)) \in Nat
      BY <2>1, Sizes DEF SizesOK, RetryInv
    <2>3. Cardinality(Late(b)') \in {Cardinality(Late(b)), Cardinality(Late(b)) - 1}
      BY <1>1, <2>1, <2>2, LateServed DEF RetryInv, Late
    <2>4. Spent(b)' \in {Spent(b), Spent(b) - 2} /\ Allowed(b)' = Allowed(b)
      BY <1>1, <2>2, <2>3 DEF Spent, Allowed, OthersEffects
    <2>5. /\ Activation' <= Activation + 0
          /\ \A plan : \A d \in Held(b) : Toward(plan, d)' <= Toward(plan, d) + 0
      <3>1. /\ Activation' = Activation
            /\ \A plan, d : Toward(plan, d)' = Toward(plan, d)
        BY <1>1 DEF Toward, Activation, HasRoom, Active
      <3>2. /\ Activation \in Nat
            /\ \A plan, d : Toward(plan, d) \in Nat
        BY Tolls DEF TollsOK
      <3> QED
        BY <3>1, <3>2
    <2>6. Spent(b)' + Allowed(b) + 0 <= Spent(b) + Allowed(b)'
      BY <2>2, <2>4
    <2> QED
      BY <1>1, <1>2, <2>1, <2>5, <2>6, Shifts DEF RetryInv
  <1> QED
    BY <1>2, <1>3, <1>5, <1>6 DEF RetryInv

----------------------------------------------------------------------------

LEMMA NextRetry ==
    ASSUME TypeInv, TypeInv', ClientInv, RetryInv, [Next]_vars
    PROVE  RetryInv'
  <1>1. ASSUME NEW c \in Clients, Call(c) \/ Rescue(c) PROVE RetryInv'
    <2>1. PICK r : Begun(c, r)
      BY <1>1, BeginStep
    <2>2. FiniteRecords' /\ OwnersOK' /\ CallsOK'
      BY <2>1, BeginOwners DEF RetryInv
    <2> QED
      BY <2>1, <2>2, BeginBudget DEF RetryInv
  <1>2. ASSUME NEW c \in Clients, Returns(c) PROVE RetryInv'
    <2>1. FiniteRecords' /\ OwnersOK' /\ CallsOK'
      BY <1>2, ReturnStep, EndOwners DEF RetryInv
    <2> QED
      BY <1>2, <2>1, ReturnBudget DEF RetryInv
  <1>3. ASSUME NEW r \in inbox, Serve(r) PROVE RetryInv'
    <2>1. PICK a : /\ Served(r, a)
                   /\ NoChange(r, a) \/ \E d \in DeviceIds : Effect(r, d, a)
      BY <1>3, ServeStep DEF ClientInv
    <2>2. FiniteRecords' /\ OwnersOK' /\ CallsOK'
      BY <2>1, ServeOwners DEF RetryInv
    <2> QED
      BY <2>1, <2>2, ServeBudget DEF RetryInv
  <1>4. ASSUME NEW r, Lose(r) PROVE RetryInv'
    BY <1>4, LoseRetry
  <1>5. CASE UNCHANGED vars
    BY <1>5 DEF vars, RetryInv, FiniteRecords, OwnersOK, Owned, Issued, CallsOK, Budget, Affords,
                Spent, Allowed, Late, Pending, OthersEffects, Toward, Ahead, Activation, HasRoom,
                Active, After, IdentityAfter
  <1> QED
    BY <1>1, <1>2, <1>3, <1>4, <1>5 DEF Next

\* The self-rescue path leads in after a bounded number of calls: one, and at
\* most four for every fault and two for every effect of another client, for
\* any number of clients, devices and faults, and whatever is carried out late
\* (TestEmergencyKickoutFreesSlot walks it once, undisturbed).
THEOREM RescueIsBounded == Spec => []RetriesBounded
  <1>1. TypeInv /\ RetryInv => RetriesBounded
    <2> SUFFICES ASSUME TypeInv, RetryInv, NEW b \in Rescuers
                 PROVE  clients[b].calls <= 1 + 4 * faults + 2 * Cardinality(OthersEffects(b))
      BY DEF RetriesBounded, OthersEffects
    <2>1. /\ b \in Clients /\ clients[b].calls \in Nat /\ Cardinality(Late(b)) \in Nat
          /\ Allowed(b) \in Nat
      BY ClientAssumption, Sizes DEF SizesOK, RetryInv
    <2>2. TollsOK
      BY Tolls
    <2>3. \E k \in Nat : Affords(b, k)
      <3>1. CASE ~ clients[b].waiting
        BY <2>2, <3>1 DEF RetryInv, Budget, TollsOK
      <3>2. CASE clients[b].waiting /\ clients[b].call \in inbox
        BY <2>2, <3>2 DEF RetryInv, Budget, TollsOK
      <3>3. CASE clients[b].waiting /\ clients[b].call \notin inbox
        <4>1. PICK a \in answers : a.to = clients[b].call
          BY <2>1, <3>3 DEF RetryInv, CallsOK
        <4> QED
          BY <2>2, <3>3, <4>1 DEF RetryInv, Budget, After, TollsOK
      <3> QED
        BY <3>1, <3>2, <3>3
    <2> QED
      BY <2>1, <2>3 DEF Affords, Spent, Allowed
  <1>2. (TypeInv /\ ClientInv) /\ TypeInv' /\ RetryInv /\ [Next]_vars => RetryInv'
    BY NextRetry
  <1> QED
    BY <1>1, <1>2, InitRetry, InvHolds, PTL DEF Spec
=============================================================================
