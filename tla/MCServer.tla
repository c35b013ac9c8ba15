----------------------------- MODULE MCServer -----------------------------
(***************************************************************************)
(* Instances of Server for TLC: the request sets of its runs.              *)
(***************************************************************************)
EXTENDS Server, TLC

Anon(kind, nonce, ts) ==
    [kind |-> kind, app |-> "app", plain |-> "good", ip |-> "ip1",
     nonce |-> nonce, ts |-> ts, wellFormed |-> TRUE]

Biz(kind, dev, target, nonce, ts) ==
    [kind |-> kind, app |-> "app", dev |-> dev, lic |-> dev, target |-> target,
     nonce |-> nonce, ts |-> ts]

\* Two devices of one code come, go and act on each other; the one that
\* refreshes may be kicked out, removed by the other, or remove itself.
RegistryRequests ==
    {Anon("activate", "n1", 0), Anon("activate", "n2", 0), Anon("kickout", "n3", 0),
     Biz("refresh", 2, 2, "n4", 0), Biz("remove_device", 1, 2, "n5", 0),
     Biz("remove_device", 2, 2, "n6", 0)}

\* One device over time: reads that straddle a refresh, a kickout and the
\* expiry, each sent again and again.
ExpiryRequests ==
    {Anon("kickout", "n1", 1), Biz("fetch_data", 1, 1, "n2", 1),
     Biz("refresh", 1, 1, "n3", 0)}

\* A refresh passes the expiry check at any time: only its nonce stops it.
RefreshRequests == {Biz("refresh", 1, 1, "n1", 1)}

\* A device joins and removes itself.
LeaveRequests == {Anon("activate", "n1", 0), Biz("remove_device", 1, 1, "n2", 0)}

\* Two requests that succeed once and clear what others recorded; sent again,
\* they are failures: of a nonce, of an expired code, of a stale timestamp.
RateRequests == {Anon("activate", "n1", 1), Anon("kickout", "n2", 0)}

\* The server as an administrator leaves it: an application and its code, which
\* CodeTtls gives a lifetime from second 0.
ReadyWith(ttl, ds, ls, ks, ns) ==
    /\ clock = 0
    /\ apps = [a \in {"app"} |-> [max |-> 1, ttl |-> ttl]]
    /\ \E t \in CodeTtls : codes = [c \in {CodeHash("app", "good")} |->
                                      [max |-> 0, expires |-> IF t > 0 THEN t ELSE 0]]
    /\ devices = ds /\ licenses = ls /\ keys = ks
    /\ nonces = ns /\ buckets = <<>>
    /\ h = [t \in Threads |-> Idle]
    /\ ran = [r \in Requests |-> <<>>]

Ready == ReadyWith(2, <<>>, <<>>, <<>>, <<>>)

\* The same with one device, enrolled at second 0 by a request of nonce "n0".
Enrolled ==
    ReadyWith(1, <<[app |-> "app", code |-> CodeHash("app", "good"), registered |-> 0,
                    seen |-> 0, status |-> "active"]>>,
                 <<[expires |-> 1, status |-> "active"]>>, <<"active">>,
                 [k \in {<<"app", "n0">>} |-> NonceTTL])

ReadySpec == Ready /\ [][Next]_vars
EnrolledSpec == Enrolled /\ [][Next]_vars

ThreadSymmetry == Permutations(Threads)
============================================================================
