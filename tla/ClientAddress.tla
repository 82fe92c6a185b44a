---------------------------- MODULE ClientAddress ----------------------------
(***************************************************************************)
(* The per-address budgets of the unauthenticated endpoints, behind any    *)
(* chain of reverse proxies: which address a request is charged to, when   *)
(* what arrives is the last hop's address and a list of addresses that     *)
(* every proxy has appended to and the client may have begun.              *)
(*                                                                         *)
(* The limiter is that of module Attempts, without its bound on keys.      *)
(***************************************************************************)
EXTENDS Naturals, Sequences, SequencesExt, FiniteSetsExt

CONSTANTS
    Addresses,       \* [family, net, host]: "v4", "v6", or "mapped", a v4 address in v6 form
    Garbage,         \* an entry that is not an address
    ProxyLists,      \* values of HTTP_TRUSTED_PROXIES
    Endpoints, Limit,
    MaxClaimed,      \* entries a client sends by itself
    MaxHops,         \* proxies on a route
    MaxRequests, MaxTime

VARIABLES
    proxies,         \* the configuration
    now,
    asked,           \* requests so far
    buckets,         \* by endpoint, the keys' buckets
    passed,          \* history: by endpoint and key, requests let through
    refused,         \* history: by endpoint, the keys of refused requests
    inside           \* history: requests made by a trusted proxy itself

vars == <<proxies, now, asked, buckets, passed, refused, inside>>

Unmap(a) == IF a.family = "mapped" THEN [a EXCEPT !.family = "v4"] ELSE a

\* An IPv4 address by itself, an IPv6 address by its /64.
ClientKey(a) ==
    LET u == Unmap(a) IN IF u.family = "v4" THEN u ELSE [u EXCEPT !.host = "*"]

Keys == {ClientKey(a) : a \in Addresses}

\* A bare address is unmapped and stands for itself, a CIDR for its network as
\* written; p.bits says which of the two an entry is.
ParseTrustedProxies(list) ==
    {IF p.bits = "host" THEN [p EXCEPT !.addr = Unmap(@)] ELSE p : p \in list}

Covers(p, a) ==
    /\ p.addr.family = a.family /\ p.addr.net = a.net
    /\ p.bits = "host" => p.addr.host = a.host

trusted(a) == \E p \in proxies : Covers(p, Unmap(a))

Throttled == {e \in Endpoints : Limit[e] > 0}

Init ==
    /\ \E list \in ProxyLists : proxies = ParseTrustedProxies(list)
    /\ now = 0 /\ asked = 0
    /\ buckets = [e \in Throttled |-> [k \in Keys |-> [tokens |-> Limit[e], last |-> 0]]]
    /\ passed = [e \in Throttled |-> [k \in Keys |-> 0]]
    /\ refused = [e \in Throttled |-> {}]
    /\ inside = 0

-----------------------------------------------------------------------------
\* The addresses a request comes by: its sender's, then those of the proxies.
Route(from, via) == <<from>> \o via

\* A proxy appends the address it saw, to the list it was handed or as a line
\* of its own; the lines are joined.
RemoteAddr(route) == Last(route)
forwardedFor(claimed, route) == claimed \o Front(route)

\* Mutant: the list is read from its left end.
ClientKeyLeftmost(peer, hops) ==
    IF ~trusted(peer) \/ hops = <<>> \/ hops[1] = Garbage THEN ClientKey(peer) ELSE ClientKey(hops[1])

\* The walk from the peer leftwards ends before an entry that is not an address
\* and at one that is not a proxy's.
clientKey(peer, hops) ==
    LET chain == Append(hops, peer)
        garbage == {i \in 1..Len(hops) : hops[i] = Garbage}
        outside == {i \in (1..Len(chain)) \ garbage : ~trusted(chain[i])}
    IN  ClientKey(chain[Max({1} \cup {i + 1 : i \in garbage} \cup outside)])

Refilled(e, b) ==
    [tokens |-> Min({b.tokens + (now - b.last), Limit[e]}), last |-> now]

\* Middleware, for a request that comes from an address over proxies and that
\* claims to have come over others before.
Middleware(e, from, via, claimed) ==
    LET route == Route(from, via)
        k == clientKey(RemoteAddr(route), forwardedFor(claimed, route))
        b == Refilled(e, buckets[e][k])
        ok == b.tokens >= 1
        own == {ClientKey(a) : a \in {f \in {from} : ~trusted(f)}}
    IN  /\ buckets' = [buckets EXCEPT ![e][k] = IF ok THEN [b EXCEPT !.tokens = @ - 1] ELSE b]
        /\ passed' = [passed EXCEPT ![e] =
             [j \in Keys |-> @[j] + IF ok /\ j \in own THEN 1 ELSE 0]]
        /\ refused' = [refused EXCEPT ![e] = IF ok THEN @ ELSE @ \cup own]
        /\ inside' = inside + IF own = {} THEN 1 ELSE 0

Proxies == {a \in Addresses : trusted(a)}

\* What a list may hold.
Entries == Addresses \cup {Garbage}

Request ==
    /\ asked < MaxRequests /\ asked' = asked + 1
    /\ \E e \in Throttled, from \in Addresses, via \in SeqOf(Proxies, MaxHops),
          claimed \in SeqOf(Entries, MaxClaimed) :
         Middleware(e, from, via, claimed)
    /\ UNCHANGED <<proxies, now>>

Tick ==
    /\ now < MaxTime
    /\ now' = now + 1
    /\ UNCHANGED <<proxies, asked, buckets, passed, refused, inside>>

Next == Request \/ Tick

Spec == Init /\ [][Next]_vars

-----------------------------------------------------------------------------
\* clientKey: "entries left of that are client-controlled and cannot be believed".
\* An address outside the proxies passes no more requests than its budget, over
\* whatever proxies and with whatever list it sends them; and an address is
\* refused only when it has used its budget up itself or a trusted proxy has
\* asked in its name: those behind one proxy do not pay for one another.
EachPaysForItself ==
    \A e \in Throttled :
      /\ \A k \in Keys : passed[e][k] <= Limit[e] + now
      /\ \A k \in refused[e] : passed[e][k] + inside >= Limit[e]

-----------------------------------------------------------------------------
(* The inductive invariant the proofs rest on.                             *)

\* Any limits, proxies and addresses; what is not an address is none.
WellFormed ==
    /\ Garbage \notin Addresses /\ Limit \in [Endpoints -> Nat]
    /\ {MaxClaimed, MaxHops, MaxRequests, MaxTime} \subseteq Nat

TypeOK ==
    /\ now \in Nat /\ inside \in Nat
    /\ buckets \in [Throttled -> [Keys -> [tokens : Nat, last : Nat]]]
    /\ passed \in [Throttled -> [Keys -> Nat]] /\ refused \in [Throttled -> SUBSET Keys]

\* A bucket of limit n accounts for the requests passed, p, and for no more than
\* a proxy's own, i, besides.
Accounted(b, n, p, i) ==
    /\ b.tokens <= n /\ b.last <= now
    /\ b.tokens + p <= n + b.last
    /\ b.tokens + p + i >= n

IInv ==
    /\ TypeOK
    /\ \A e \in Throttled, k \in Keys : Accounted(buckets[e][k], Limit[e], passed[e][k], inside)
    /\ \A e \in Throttled : \A k \in refused[e] : passed[e][k] + inside >= Limit[e]
=============================================================================
