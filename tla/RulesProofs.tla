----------------------------- MODULE RulesProofs -----------------------------
(***************************************************************************)
(* The rules a request is admitted by, for every value of the constants.   *)
(*                                                                         *)
(* ClientAddress: whatever the proxies, the routes and what a client       *)
(* claims, an address spends its own budget only.                          *)
(*                                                                         *)
(* Clients: whatever the registry and its changes, a code goes to a        *)
(* registered URI and is redeemed against proof.                           *)
(*                                                                         *)
(* Policy: whatever the configurations, changed rules take effect within   *)
(* the access-token lifetime.                                              *)
(***************************************************************************)
EXTENDS ClientAddress, WellFoundedInduction, TLAPS

\* Most leaves are first-order and Zenon's; the others do arithmetic.
USE ZenonT(30), SMTT(30)

-----------------------------------------------------------------------------
(* ClientAddress.                                                          *)

LEMMA LeastExists ==
    ASSUME NEW T, T \subseteq Nat, T # {}
    PROVE  \E m \in T : \A n \in T : m <= n
<1>1. PICK m \in T : \A n \in T : ~(<<n, m>> \in OpToRel(<, Nat))
  BY WFMin, NatLessThanWellFounded
<1>2. \A n \in T : ~(n < m)
  <2> SUFFICES ASSUME NEW n \in T PROVE ~(n < m)
    OBVIOUS
  <2>1. <<n, m>> \in Nat \X Nat /\ <<n, m>>[1] = n /\ <<n, m>>[2] = m
    BY SMTT(30)
  <2> QED
    BY <1>1, <2>1 DEF OpToRel
<1> QED
  BY <1>2, SMTT(30)

\* A set of numbers up to n has a greatest.
LEMMA GreatestExists ==
    ASSUME NEW n \in Nat, NEW T, T \subseteq 1..n, T # {}
    PROVE  Max(T) \in T /\ \A y \in T : y <= Max(T)
<1>1. PICK m \in {b \in Nat : \A y \in T : y <= b} : \A b \in {a \in Nat : \A y \in T : y <= a} : m <= b
  <2>1. n \in {b \in Nat : \A y \in T : y <= b}
    BY SMTT(30)
  <2> QED
    BY <2>1, LeastExists
<1>2. m \in T
  <2>1. SUFFICES ASSUME m \notin T PROVE FALSE
    OBVIOUS
  <2>2. PICK x \in T : TRUE
    OBVIOUS
  <2>3. m - 1 \in Nat /\ \A y \in T : y <= m - 1
    BY <1>1, <2>1, <2>2, SMTT(30)
  <2> QED
    BY <1>1, <2>3, SMTT(30)
<1>3. \E x \in T : \A y \in T : x >= y
  BY <1>1, <1>2, SMTT(30)
<1>4. Max(T) \in T /\ \A y \in T : Max(T) >= y
  BY <1>3 DEF Max
<1> QED
  BY <1>4, SMTT(30)

LEMMA GreatestIs ==
    ASSUME NEW n \in Nat, NEW T, T \subseteq 1..n, n \in T
    PROVE  Max(T) = n
<1>1. Max(T) \in T /\ \A y \in T : y <= Max(T)
  BY n \in T, GreatestExists
<1>2. PICK m \in T : m = Max(T)
  BY <1>1
<1> QED
  BY <1>1, <1>2, SMTT(30)

LEMMA LesserOfTwo ==
    ASSUME NEW a \in Nat, NEW b \in Nat
    PROVE  Min({a, b}) \in Nat /\ Min({a, b}) <= a /\ Min({a, b}) <= b /\ (Min({a, b}) = a \/ Min({a, b}) = b)
<1>1. \E x \in {a, b} : \A y \in {a, b} : x =< y
  BY SMTT(30)
<1>2. Min({a, b}) \in {a, b} /\ \A y \in {a, b} : Min({a, b}) =< y
  BY <1>1 DEF Min
<1> QED
  BY <1>2

-----------------------------------------------------------------------------
LEMMA AppendOf ==
    ASSUME NEW h \in Seq(Entries), NEW l \in Entries
    PROVE  /\ Len(Append(h, l)) = Len(h) + 1 /\ Append(h, l)[Len(h) + 1] = l
           /\ \A i \in 1..Len(h) : Append(h, l)[i] = h[i] /\ h[i] \in Entries
BY SMTT(30)

LEMMA ConcatOf ==
    ASSUME NEW h \in Seq(Entries), NEW t \in Seq(Entries)
    PROVE  /\ h \o t \in Seq(Entries) /\ Len(h \o t) = Len(h) + Len(t)
           /\ \A i \in 1..Len(t) : (h \o t)[Len(h) + i] = t[i]
BY SMTT(30)

\* Where the parts of a list of c, v and one more entries lie.
LEMMA Places ==
    ASSUME NEW c \in Nat, NEW v \in Nat
    PROVE  /\ 1 \in 1..(v + 1) /\ c + (v + 1) = c + v + 1
           /\ \A i \in 1..(v + 1) : i = v + 1 \/ i \in 1..v
           /\ \A i \in 1..v : /\ c + i \in 1..(c + v) /\ i + 1 \in 1..(v + 1)
                              /\ c + (i + 1) = c + 1 + i
BY SMTT(30)

\* The list that reaches Middleware and the walk over it, entry by entry.
Laid(claimed, from, via, hops, chain) ==
    /\ hops \in Seq(Entries) /\ Len(hops) = Len(claimed) + Len(via)
    /\ Len(chain) = Len(claimed) + Len(via) + 1
    /\ \A i \in 1..(Len(claimed) + Len(via)) : chain[i] = hops[i]
    /\ chain[Len(claimed) + 1] = from
    /\ \A i \in 1..Len(via) : chain[Len(claimed) + 1 + i] = via[i]

LEMMA ChainOf ==
    ASSUME NEW from \in Entries, NEW via \in Seq(Entries), NEW claimed \in Seq(Entries)
    PROVE  /\ RemoteAddr(Route(from, via)) \in Entries
           /\ Laid(claimed, from, via, forwardedFor(claimed, Route(from, via)),
                   Append(forwardedFor(claimed, Route(from, via)), RemoteAddr(Route(from, via))))
<1> DEFINE route == <<from>> \o via
           hops == claimed \o Front(route)
           chain == Append(hops, Last(route))
           c == Len(claimed)
           v == Len(via)
<1>0. c \in Nat /\ v \in Nat
  BY SMTT(30)
<1>1. /\ route \in Seq(Entries) /\ Len(route) = v + 1 /\ route[1] = from
      /\ \A i \in 1..v : route[i + 1] = via[i]
  BY SMTT(30)
<1> HIDE DEF route
<1>2. Front(route) \in Seq(Entries) /\ Len(Front(route)) = v /\ \A i \in 1..v : Front(route)[i] = route[i]
  BY <1>1, SMTT(30) DEF Front
<1>3. Last(route) = route[v + 1] /\ Last(route) \in Entries
  BY <1>1, SMTT(30) DEF Last
<1>4. hops \in Seq(Entries) /\ Len(hops) = c + v /\ \A i \in 1..v : hops[c + i] = route[i]
  <2>1. /\ hops \in Seq(Entries) /\ Len(hops) = c + Len(Front(route))
        /\ \A i \in 1..Len(Front(route)) : hops[c + i] = Front(route)[i]
    BY <1>2, ConcatOf
  <2> HIDE DEF hops, c, v
  <2> QED
    BY <1>2, <2>1, ZenonT(30)
<1> HIDE DEF hops
<1>5. /\ Len(chain) = c + v + 1 /\ chain[c + v + 1] = route[v + 1]
      /\ \A i \in 1..(c + v) : chain[i] = hops[i]
  <2>1. /\ Len(chain) = Len(hops) + 1 /\ chain[Len(hops) + 1] = Last(route)
        /\ \A i \in 1..Len(hops) : chain[i] = hops[i]
    BY <1>3, <1>4, AppendOf
  <2> HIDE DEF chain, c, v
  <2> QED
    BY <1>3, <1>4, <2>1, ZenonT(30)
<1> HIDE DEF chain, c, v
<1>6. \A i \in 1..(v + 1) : chain[c + i] = route[i]
  BY <1>0, <1>4, <1>5, Places, ZenonT(30)
<1>7. chain[c + 1] = from /\ \A i \in 1..v : chain[c + 1 + i] = via[i]
  BY <1>0, <1>1, <1>6, Places, ZenonT(30)
<1> QED
  BY <1>3, <1>4, <1>5, <1>7, ZenonT(30) DEF route, hops, chain, c, v, Route, forwardedFor, RemoteAddr, Laid

\* The lists a request may carry.
LEMMA Lists ==
    ASSUME NEW S, NEW n \in Nat, NEW q \in SeqOf(S, n)
    PROVE  q \in Seq(S) /\ \A i \in 1..Len(q) : q[i] \in S
<1>1. PICK m \in 0..n : q \in [1..m -> S]
  BY DEF SeqOf
<1> QED
  BY <1>1, SMTT(30)

\* clientKey: a request that comes from outside the proxies is charged to its
\* sender, over whatever proxies and whatever it claims.
LEMMA ChargedToSender ==
    ASSUME WellFormed, NEW from \in Addresses, ~trusted(from), NEW via \in SeqOf(Proxies, MaxHops),
           NEW claimed \in SeqOf(Entries, MaxClaimed)
    PROVE  clientKey(RemoteAddr(Route(from, via)), forwardedFor(claimed, Route(from, via))) = ClientKey(from)
<1> DEFINE route == Route(from, via)
           hops == forwardedFor(claimed, route)
           chain == Append(hops, RemoteAddr(route))
           c == Len(claimed)
           v == Len(via)
           garbage == {i \in 1..Len(hops) : hops[i] = Garbage}
           outside == {i \in (1..Len(chain)) \ garbage : ~trusted(chain[i])}
           T == {1} \cup {i + 1 : i \in garbage} \cup outside
<1>1. via \in Seq(Entries) /\ \A i \in 1..v : via[i] \in Proxies
  <2>1. via \in Seq(Proxies) /\ \A i \in 1..Len(via) : via[i] \in Proxies
    BY Lists DEF WellFormed
  <2>2. Proxies \subseteq Entries
    BY DEF Proxies, Entries
  <2> QED
    BY <2>1, <2>2, SMTT(30)
<1>2. claimed \in Seq(Entries) /\ from \in Entries
  BY Lists DEF WellFormed, Entries
<1>3. c \in Nat /\ v \in Nat
  BY SMTT(30), <1>1, <1>2
<1>4. /\ Len(hops) = c + v /\ Len(chain) = c + v + 1
      /\ \A i \in 1..(c + v) : chain[i] = hops[i]
      /\ chain[c + 1] = from
      /\ \A i \in 1..v : chain[c + 1 + i] = via[i]
  <2>1. Laid(claimed, from, via, hops, chain)
    BY <1>1, <1>2, ChainOf, ZenonT(30)
  <2> HIDE DEF hops, chain
  <2> QED
    BY <2>1, ZenonT(30) DEF Laid
<1>5. clientKey(RemoteAddr(route), hops) = ClientKey(chain[Max(T)])
  BY ZenonT(30) DEF clientKey
<1> HIDE DEF route, hops, chain, c, v
<1>6. ASSUME NEW i \in Nat, c + 1 < i, i <= c + v + 1 PROVE chain[i] \in Addresses /\ trusted(chain[i])
  <2>1. i - (c + 1) \in 1..v /\ c + 1 + (i - (c + 1)) = i
    BY <1>3, <1>6, SMTT(30)
  <2>2. chain[i] = via[i - (c + 1)]
    BY <1>4, <2>1, ZenonT(30)
  <2> QED
    BY <1>1, <2>1, <2>2, ZenonT(30) DEF Proxies
<1>7. \A i \in garbage : i \in 1..c
  <2> SUFFICES ASSUME NEW i \in 1..(c + v), hops[i] = Garbage, c < i PROVE FALSE
    BY <1>3, <1>4, SMTT(30)
  <2>1. chain[i] = Garbage
    BY <1>4, ZenonT(30)
  <2>2. i # c + 1
    BY <1>4, <2>1, ZenonT(30) DEF WellFormed
  <2>3. i \in Nat /\ i <= c + v + 1 /\ c + 1 < i
    BY <1>3, <2>2, SMTT(30)
  <2> QED
    BY <1>6, <2>1, <2>3, ZenonT(30) DEF WellFormed
<1>8. \A i \in outside : i \in 1..(c + 1)
  <2> SUFFICES ASSUME NEW i \in 1..(c + v + 1), ~trusted(chain[i]) PROVE i \in 1..(c + 1)
    BY <1>4
  <2>1. i \in Nat /\ i <= c + v + 1
    BY <1>3, SMTT(30)
  <2>2. ~(c + 1 < i)
    BY <1>6, <2>1, ZenonT(30)
  <2> QED
    BY <1>3, <2>2, SMTT(30)
<1>9. c + 1 \in outside
  <2>1. c + 1 \in 1..(c + v + 1) /\ c + 1 \notin 1..c
    BY <1>3, SMTT(30)
  <2> QED
    BY <1>4, <1>7, <2>1, ZenonT(30)
<1> HIDE DEF garbage, outside
<1>10. T \subseteq 1..(c + 1) /\ c + 1 \in T /\ c + 1 \in Nat
  <2>1. \A i \in garbage : i + 1 \in 1..(c + 1)
    BY <1>3, <1>7, SMTT(30)
  <2>2. 1 \in 1..(c + 1) /\ c + 1 \in Nat
    BY <1>3, SMTT(30)
  <2> QED
    BY <1>8, <1>9, <2>1, <2>2, ZenonT(30)
<1> HIDE DEF T
<1>11. Max(T) = c + 1
  BY <1>10, GreatestIs, ZenonT(30)
<1> QED
  BY <1>4, <1>5, <1>11, ZenonT(30) DEF route, hops

\* Whoever is charged, the walk ends at an address.
LEMMA ChargedKey ==
    ASSUME WellFormed, NEW peer \in Addresses, NEW hops \in Seq(Entries)
    PROVE  clientKey(peer, hops) \in Keys
<1> DEFINE chain == Append(hops, peer)
           garbage == {i \in 1..Len(hops) : hops[i] = Garbage}
           outside == {i \in (1..Len(chain)) \ garbage : ~trusted(chain[i])}
           T == {1} \cup {i + 1 : i \in garbage} \cup outside
<1>1. PICK n \in Nat : n = Len(hops)
  BY SMTT(30)
<1>2. /\ Len(chain) = n + 1 /\ \A i \in 1..n : chain[i] = hops[i] /\ hops[i] \in Entries
      /\ chain[n + 1] = peer
  <2>1. peer \in Entries
    BY DEF Entries
  <2> QED
    BY <1>1, <2>1, AppendOf, ZenonT(30)
<1> HIDE DEF chain
<1>3. T \subseteq 1..(n + 1) /\ 1 \in T
  <2>1. \A i \in garbage : i + 1 \in 1..(n + 1)
    BY <1>1, SMTT(30)
  <2>2. 1 \in 1..(n + 1)
    BY SMTT(30)
  <2>3. outside \subseteq 1..(n + 1)
    BY <1>2
  <2> HIDE DEF garbage, outside
  <2> QED
    BY <2>1, <2>2, <2>3, ZenonT(30)
<1>4. n + 1 \in Nat
  BY SMTT(30)
<1>5. PICK m \in T : m = Max(T) /\ \A y \in T : y <= m
  <2> HIDE DEF T
  <2> QED
    BY <1>3, <1>4, GreatestExists, ZenonT(30)
<1>6. m \in 1..(n + 1)
  BY <1>3, <1>5
<1>7. chain[m] \in Addresses
  <2>1. CASE m = n + 1
    BY <1>2, <2>1, ZenonT(30)
  <2>2. CASE m \in 1..n
    <3>1. m \notin garbage
      <4>1. ~(m + 1 <= m)
        BY <1>6, SMTT(30)
      <4> QED
        BY <1>5, <4>1, ZenonT(30)
    <3>2. hops[m] # Garbage /\ hops[m] = chain[m] /\ hops[m] \in Entries
      BY <1>1, <1>2, <2>2, <3>1, ZenonT(30)
    <3> QED
      BY <3>2, ZenonT(30) DEF Entries
  <2> QED
    BY <1>6, <2>1, <2>2, SMTT(30)
<1>8. clientKey(peer, hops) = ClientKey(chain[m])
  BY <1>5, ZenonT(30) DEF clientKey, chain
<1> QED
  BY <1>7, <1>8 DEF Keys

\* The address Middleware sees is one.
LEMMA PeerIsAddress ==
    ASSUME WellFormed, NEW from \in Addresses, NEW via \in SeqOf(Proxies, MaxHops)
    PROVE  RemoteAddr(Route(from, via)) \in Addresses
<1>1. via \in Seq(Proxies) /\ Proxies \subseteq Addresses
  BY Lists DEF WellFormed, Proxies
<1>2. via \in Seq(Addresses)
  BY <1>1, SMTT(30)
<1> QED
  BY <1>2, SMTT(30) DEF RemoteAddr, Route, Last

\* The list Middleware walks holds addresses and garbage.
LEMMA HopsAreEntries ==
    ASSUME WellFormed, NEW from \in Addresses, NEW via \in SeqOf(Proxies, MaxHops),
           NEW claimed \in SeqOf(Entries, MaxClaimed)
    PROVE  forwardedFor(claimed, Route(from, via)) \in Seq(Entries)
<1>1. via \in Seq(Entries)
  <2>1. via \in Seq(Proxies) /\ Proxies \subseteq Entries
    BY Lists DEF WellFormed, Proxies, Entries
  <2> QED
    BY <2>1, SMTT(30)
<1>2. claimed \in Seq(Entries) /\ from \in Entries
  BY Lists DEF WellFormed, Entries
<1>3. Laid(claimed, from, via, forwardedFor(claimed, Route(from, via)),
           Append(forwardedFor(claimed, Route(from, via)), RemoteAddr(Route(from, via))))
  BY <1>1, <1>2, ChainOf, ZenonT(30)
<1> QED
  BY <1>3, ZenonT(30) DEF Laid

\* A refill keeps the account.
LEMMA RefillKeeps ==
    ASSUME NEW t \in Nat, NEW l \in Nat, NEW n \in Nat, NEW w \in Nat, NEW p \in Nat, NEW i \in Nat,
           l <= w, t <= n, t + p <= n + l, t + p + i >= n
    PROVE  LET r == Min({t + (w - l), n})
           IN  r \in Nat /\ r <= n /\ r + p <= n + w /\ r + p + i >= n
<1>1. t + (w - l) \in Nat
  BY SMTT(30)
<1>2. PICK r : r = Min({t + (w - l), n})
  OBVIOUS
<1>3. r \in Nat /\ r <= t + (w - l) /\ r <= n /\ (r = t + (w - l) \/ r = n)
  BY <1>1, <1>2, LesserOfTwo, ZenonT(30)
<1>4. r <= n /\ r + p <= n + w /\ r + p + i >= n
  BY <1>3, SMTT(30)
<1> QED
  BY <1>2, <1>3, <1>4, ZenonT(30)

\* So does the step of a request, whether it passes or is refused, when it is
\* its sender's (o = 1) or a proxy's own (o = 0).
LEMMA ChargeKeeps ==
    ASSUME NEW r \in Nat, NEW n \in Nat, NEW w \in Nat, NEW p \in Nat, NEW i \in Nat, NEW o \in {0, 1},
           r <= n, r + p <= n + w, r + p + i >= n
    PROVE  /\ r >= 1 => /\ r - 1 \in Nat /\ r - 1 <= n
                        /\ r - 1 + (p + o) <= n + w /\ r - 1 + (p + o) + (i + (1 - o)) >= n
           /\ ~(r >= 1) => r + (p + 0) + (i + (1 - o)) >= n /\ p + i >= n
BY SMTT(30)

LEMMA AddressInit == ASSUME WellFormed, Init PROVE IInv
<1>1. Throttled \subseteq Endpoints /\ \A e \in Throttled : Limit[e] \in Nat
  BY DEF Throttled, WellFormed
<1>2. TypeOK
  BY <1>1 DEF Init, TypeOK
<1>3. ASSUME NEW e \in Throttled, NEW k \in Keys
      PROVE  Accounted(buckets[e][k], Limit[e], passed[e][k], inside)
  <2>1. /\ buckets[e][k] = [tokens |-> Limit[e], last |-> 0] /\ passed[e][k] = 0 /\ inside = 0 /\ now = 0
    BY DEF Init
  <2>2. buckets[e][k].tokens = Limit[e] /\ buckets[e][k].last = 0
    BY SMTT(30), <2>1
  <2> QED
    BY <1>1, <2>1, <2>2, SMTT(30) DEF Accounted
<1>4. \A e \in Throttled : refused[e] = {}
  BY DEF Init
<1> QED
  BY <1>2, <1>3, <1>4, ZenonT(30) DEF IInv

\* A request keeps the account of whom it is charged to and leaves the others'.
LEMMA RequestKeeps ==
    ASSUME WellFormed, IInv, Request
    PROVE  IInv'
<1>1. PICK e \in Throttled, from \in Addresses, via \in SeqOf(Proxies, MaxHops),
           claimed \in SeqOf(Entries, MaxClaimed) : Middleware(e, from, via, claimed)
  BY DEF Request
<1>2. PICK k : k = clientKey(RemoteAddr(Route(from, via)), forwardedFor(claimed, Route(from, via)))
  OBVIOUS
<1>3. k \in Keys
  BY <1>2, PeerIsAddress, HopsAreEntries, ChargedKey, ZenonT(30)
<1>4. PICK own : own = {ClientKey(a) : a \in {f \in {from} : ~trusted(f)}}
  OBVIOUS
<1>5. own = {} \/ own = {k}
  <2>1. CASE trusted(from)
    BY <1>4, <2>1
  <2>2. CASE ~trusted(from)
    <3>1. k = ClientKey(from)
      BY <1>2, <2>2, ChargedToSender, ZenonT(30)
    <3> QED
      BY <1>4, <2>2, <3>1
  <2> QED
    BY <2>1, <2>2
<1>6. PICK b : b = Refilled(e, buckets[e][k])
  OBVIOUS
<1>7. PICK ok : ok = (b.tokens >= 1)
  OBVIOUS
<1>8. /\ buckets' = [buckets EXCEPT ![e][k] = IF ok THEN [b EXCEPT !.tokens = @ - 1] ELSE b]
      /\ passed' = [passed EXCEPT ![e] = [j \in Keys |-> @[j] + IF ok /\ j \in own THEN 1 ELSE 0]]
      /\ refused' = [refused EXCEPT ![e] = IF ok THEN @ ELSE @ \cup own]
      /\ inside' = inside + IF own = {} THEN 1 ELSE 0
  BY <1>1, <1>2, <1>4, <1>6, <1>7, ZenonT(30) DEF Middleware
<1>9. proxies' = proxies /\ now' = now
  BY DEF Request
<1>10. TypeOK /\ Throttled' = Throttled /\ Keys' = Keys
  BY DEF IInv, Throttled, Keys
<1>11. PICK n \in Nat, p \in Nat, i \in Nat, w \in Nat : n = Limit[e] /\ p = passed[e][k] /\ i = inside /\ w = now
  BY <1>3, <1>10 DEF TypeOK, Throttled, WellFormed
<1>12. PICK r : r = b.tokens
  OBVIOUS
<1>13. b = [tokens |-> r, last |-> w] /\ r \in Nat /\ r <= n /\ r + p <= n + w /\ r + p + i >= n
  <2>1. PICK t \in Nat, l \in Nat : buckets[e][k].tokens = t /\ buckets[e][k].last = l
    BY <1>3, <1>10 DEF TypeOK
  <2>2. t <= n /\ l <= w /\ t + p <= n + l /\ t + p + i >= n
    BY <1>3, <1>11, <2>1 DEF IInv, Accounted
  <2>3. b = [tokens |-> Min({t + (w - l), n}), last |-> w]
    BY <1>6, <1>11, <2>1, ZenonT(30) DEF Refilled
  <2>4. r = Min({t + (w - l), n})
    BY <1>12, <2>3
  <2> QED
    BY <2>2, <2>3, <2>4, RefillKeeps, ZenonT(30)
<1>14. PICK o \in {0, 1} : (own = {} => o = 0) /\ (own = {k} => o = 1)
  BY <1>5
<1>15. inside' = i + (1 - o)
  BY SMTT(30), <1>5, <1>8, <1>11, <1>14
<1>16. ok <=> r >= 1
  BY <1>7, <1>12
<1>17. /\ ok => /\ r - 1 \in Nat /\ r - 1 <= n
                /\ r - 1 + (p + o) <= n + w /\ r - 1 + (p + o) + (i + (1 - o)) >= n
       /\ ~ok => r + (p + 0) + (i + (1 - o)) >= n /\ p + i >= n
  BY <1>13, <1>16, ChargeKeeps, ZenonT(30)
<1>18. i + (1 - o) \in Nat /\ i <= i + (1 - o)
  BY SMTT(30)
<1>19. /\ buckets'[e][k] = [tokens |-> IF ok THEN r - 1 ELSE r, last |-> w]
       /\ passed'[e][k] = p + IF ok THEN o ELSE 0
  <2>1. buckets'[e][k] = IF ok THEN [b EXCEPT !.tokens = @ - 1] ELSE b
    BY <1>3, <1>8, <1>10 DEF TypeOK
  <2>2. passed'[e][k] = passed[e][k] + IF ok /\ k \in own THEN 1 ELSE 0
    BY <1>3, <1>8, <1>10 DEF TypeOK
  <2>3. [b EXCEPT !.tokens = @ - 1] = [tokens |-> r - 1, last |-> w]
    BY SMTT(30), <1>13
  <2>4. ok /\ k \in own => o = 1
    BY <1>5, <1>14
  <2>5. ok /\ k \notin own => o = 0
    BY <1>5, <1>14
  <2> QED
    BY <1>11, <1>13, <2>1, <2>2, <2>3, <2>4, <2>5
<1>20. ASSUME NEW d \in Throttled, NEW j \in Keys, ~(d = e /\ j = k)
       PROVE  buckets'[d][j] = buckets[d][j] /\ passed'[d][j] = passed[d][j]
  <2>1. d = e => j \notin own
    BY <1>5, <1>20
  <2>2. buckets'[d][j] = buckets[d][j]
    BY <1>8, <1>10, <1>20 DEF TypeOK
  <2>3. passed'[d][j] = IF d = e THEN passed[d][j] + IF ok /\ j \in own THEN 1 ELSE 0 ELSE passed[d][j]
    BY <1>8, <1>10 DEF TypeOK
  <2>4. passed[d][j] \in Nat
    BY <1>10 DEF TypeOK
  <2> QED
    BY <2>1, <2>2, <2>3, <2>4, SMTT(30)
<1>21. ASSUME NEW d \in Throttled
       PROVE  refused'[d] = IF d = e /\ ~ok THEN refused[d] \cup own ELSE refused[d]
  BY <1>8, <1>10 DEF TypeOK
<1>22. TypeOK'
  <2>1. now' \in Nat /\ inside' \in Nat
    BY <1>9, <1>10, <1>15, <1>18 DEF TypeOK
  <2>2. refused' \in [Throttled -> SUBSET Keys]
    <3>1. own \subseteq Keys
      BY <1>3, <1>5
    <3>2. refused[e] \cup own \subseteq Keys
      BY <1>10, <3>1 DEF TypeOK
    <3> QED
      BY <1>8, <1>10, <3>2 DEF TypeOK
  <2>3. passed' \in [Throttled -> [Keys -> Nat]]
    <3>1. ASSUME NEW j \in Keys PROVE passed[e][j] + (IF ok /\ j \in own THEN 1 ELSE 0) \in Nat
      BY SMTT(30), <1>10 DEF TypeOK
    <3> QED
      BY <1>8, <1>10, <3>1 DEF TypeOK
  <2>4. buckets' \in [Throttled -> [Keys -> [tokens : Nat, last : Nat]]]
    <3>1. (IF ok THEN [b EXCEPT !.tokens = @ - 1] ELSE b) \in [tokens : Nat, last : Nat]
      BY <1>13, <1>17
    <3> QED
      BY <1>3, <1>8, <1>10, <3>1 DEF TypeOK
  <2> QED
    BY <1>10, <2>1, <2>2, <2>3, <2>4 DEF TypeOK
<1>23. ASSUME NEW d \in Throttled, NEW j \in Keys
       PROVE  Accounted(buckets[d][j], Limit[d], passed[d][j], inside)'
  <2>1. CASE d = e /\ j = k
    <3>1. CASE ok
      BY <1>9, <1>11, <1>15, <1>17, <1>19, <2>1, <3>1, SMTT(30) DEF Accounted
    <3>2. CASE ~ok
      BY <1>9, <1>11, <1>13, <1>15, <1>17, <1>19, <2>1, <3>2, SMTT(30) DEF Accounted
    <3> QED
      BY <3>1, <3>2
  <2>2. CASE ~(d = e /\ j = k)
    <3>1. PICK t \in Nat, l \in Nat, q \in Nat, m \in Nat :
            buckets[d][j].tokens = t /\ buckets[d][j].last = l /\ passed[d][j] = q /\ Limit[d] = m
      BY SMTT(30), <1>10 DEF TypeOK, Throttled, WellFormed
    <3>2. t <= m /\ l <= w /\ t + q <= m + l /\ t + q + i >= m
      BY <1>11, <3>1 DEF IInv, Accounted
    <3>3. t + q + (i + (1 - o)) >= m
      BY <3>2, SMTT(30)
    <3>4. buckets'[d][j].tokens = t /\ buckets'[d][j].last = l /\ passed'[d][j] = q
      BY <1>20, <2>2, <3>1, ZenonT(30)
    <3> QED
      BY <1>9, <1>11, <1>15, <3>1, <3>2, <3>3, <3>4, ZenonT(30) DEF Accounted
  <2> QED
    BY <2>1, <2>2
<1>24. ASSUME NEW d \in Throttled, NEW j \in refused'[d]
       PROVE  passed'[d][j] + inside' >= Limit[d]
  <2>1. CASE j \in refused[d]
    <3>1. j \in Keys
      BY <1>10, <2>1 DEF TypeOK
    <3>2. PICK q \in Nat, m \in Nat : passed[d][j] = q /\ Limit[d] = m
      BY <1>10, <3>1 DEF TypeOK, Throttled, WellFormed
    <3>3. q + i >= m
      BY <1>11, <2>1, <3>2 DEF IInv
    <3>4. PICK x \in Nat : passed'[d][j] = x /\ q <= x
      <4>1. CASE d = e /\ j = k
        BY <1>11, <1>19, <3>2, <4>1, SMTT(30)
      <4>2. CASE ~(d = e /\ j = k)
        BY <1>20, <3>1, <3>2, <4>2, SMTT(30)
      <4> QED
        BY <4>1, <4>2
    <3>5. x + (i + (1 - o)) >= m
      BY <3>3, <3>4, SMTT(30)
    <3> QED
      BY <1>15, <3>2, <3>4, <3>5, ZenonT(30)
  <2>2. CASE j \notin refused[d]
    <3>1. d = e /\ ~ok /\ j = k
      BY <1>5, <1>21, <1>24, <2>2
    <3>2. passed'[d][j] = p
      BY SMTT(30), <1>19, <3>1
    <3> QED
      BY <1>11, <1>15, <1>17, <1>18, <3>1, <3>2, SMTT(30)
  <2> QED
    BY <2>1, <2>2
<1> QED
  BY <1>10, <1>22, <1>23, <1>24, ZenonT(30) DEF IInv

LEMMA TickKeeps ==
    ASSUME WellFormed, IInv, Tick
    PROVE  IInv'
<1>1. /\ now' = now + 1 /\ UNCHANGED <<proxies, asked, buckets, passed, refused, inside>>
      /\ now \in Nat /\ TypeOK
  BY DEF Tick, IInv, TypeOK
<1>2. TypeOK' /\ Throttled' = Throttled /\ Keys' = Keys
  <2>1. now + 1 \in Nat /\ Throttled' = Throttled /\ Keys' = Keys
    BY <1>1, SMTT(30) DEF Throttled, Keys
  <2> QED
    BY <1>1, <2>1, ZenonT(30) DEF TypeOK
<1>3. ASSUME NEW d \in Throttled, NEW j \in Keys
      PROVE  Accounted(buckets[d][j], Limit[d], passed[d][j], inside)'
  <2>1. PICK l \in Nat : buckets[d][j].last = l
    BY <1>1 DEF TypeOK
  <2>2. Accounted(buckets[d][j], Limit[d], passed[d][j], inside)
    BY DEF IInv
  <2>3. l <= now + 1
    BY <1>1, <2>1, <2>2, SMTT(30) DEF Accounted
  <2> QED
    BY <1>1, <2>1, <2>2, <2>3, ZenonT(30) DEF Accounted
<1> QED
  BY <1>1, <1>2, <1>3, ZenonT(30) DEF IInv

\* Every bucket accounts for what it let pass, whatever lists the requests carry.
THEOREM AddressInvariant ==
    ASSUME WellFormed
    PROVE  Spec => []IInv
<1>1. Init => IInv
  BY AddressInit
<1>2. IInv /\ [Next]_vars => IInv'
  <2>1. ASSUME IInv, UNCHANGED vars PROVE IInv'
    <3>1. /\ proxies' = proxies /\ now' = now /\ buckets' = buckets /\ passed' = passed
          /\ refused' = refused /\ inside' = inside
      BY <2>1 DEF vars
    <3> QED
      BY <2>1, <3>1 DEF IInv, TypeOK, Accounted, Throttled, Keys
  <2> QED
    BY <2>1, RequestKeeps, TickKeeps DEF Next
<1> QED
  BY <1>1, <1>2, PTL DEF Spec

\* Every address pays for itself and for nobody else, for any addresses, proxies
\* and limits, and whatever a client writes in front of the list.
THEOREM OwnBudgets ==
    ASSUME WellFormed
    PROVE  Spec => []EachPaysForItself
<1>1. ASSUME IInv PROVE EachPaysForItself
  <2>1. ASSUME NEW e \in Throttled, NEW k \in Keys PROVE passed[e][k] <= Limit[e] + now
    <3>1. PICK t \in Nat, l \in Nat, p \in Nat, n \in Nat :
            buckets[e][k].tokens = t /\ buckets[e][k].last = l /\ passed[e][k] = p /\ Limit[e] = n
      BY ZenonT(60), <1>1 DEF IInv, TypeOK, Throttled, WellFormed
    <3>2. now \in Nat /\ l <= now /\ t + p <= n + l
      BY <1>1, <3>1 DEF IInv, TypeOK, Accounted
    <3> QED
      BY <3>1, <3>2, SMTT(30)
  <2> QED
    BY <1>1, <2>1 DEF IInv, EachPaysForItself
<1> QED
  BY <1>1, AddressInvariant, PTL

-----------------------------------------------------------------------------
(* Clients.                                                                *)

CONSTANTS Ids, URIs, Verifiers, MaxEntries, MaxRestarts

VARIABLES entries, secrets, insecure, pc, code, granted, restarts

Clients == INSTANCE Clients

\* What an accepted registry holds of a client's redirect URIs.
LEMMA RegisteredAre ==
    ASSUME Clients!WellFormed, Clients!IInv, pc = "serving", NEW c, NEW u \in Clients!RedirectURIs(c)
    PROVE  u \in Clients!URI /\ Clients!Registrable(u)
<1>1. PICK i \in DOMAIN entries : u = entries[i].uri /\ u # Clients!DeviceOnly
  BY DEF Clients!RedirectURIs, Clients!EntriesOf
<1>2. u \in URIs
  <2>1. entries[i] \in Clients!Entry
    BY DEF Clients!IInv, Clients!TypeOK
  <2> QED
    BY <1>1, <2>1 DEF Clients!Entry
<1> QED
  BY <1>1, <1>2 DEF Clients!WellFormed, Clients!IInv, Clients!Accepted

\* matchRedirectURI: what matches is registered, but for a loopback port.
LEMMA MatchIsRegistered ==
    ASSUME Clients!WellFormed, Clients!IInv, pc = "serving", NEW c, NEW u \in URIs, Clients!MatchRedirectURI(c, u)
    PROVE  /\ u.path # "" /\ (u.scheme = "https" \/ Clients!IsLoopback(u) \/ insecure)
           /\ [u EXCEPT !.port = IF Clients!IsLoopback(u) THEN "" ELSE @] \in Clients!RedirectURIs(c)
<1>1. u \in Clients!URI
  BY DEF Clients!WellFormed
<1>2. CASE u \in Clients!RedirectURIs(c)
  <2>1. Clients!Registrable(u)
    BY <1>2, RegisteredAre
  <2>2. [u EXCEPT !.port = IF Clients!IsLoopback(u) THEN "" ELSE @] = u
    BY <1>1, <2>1 DEF Clients!Registrable, Clients!URI
  <2> QED
    BY <1>2, <2>1, <2>2 DEF Clients!Registrable
<1>3. CASE u \notin Clients!RedirectURIs(c)
  <2>1. PICK r \in Clients!RedirectURIs(c) :
          Clients!IsLoopback(r) /\ r.scheme = u.scheme /\ r.host = u.host /\ r.path = u.path
    BY <1>3 DEF Clients!MatchRedirectURI
  <2>2. Clients!Parses(u) /\ Clients!IsLoopback(u) /\ ~u.query
    BY <1>3 DEF Clients!MatchRedirectURI
  <2>3. r \in Clients!URI /\ Clients!Registrable(r)
    BY RegisteredAre
  <2>4. r.port = "" /\ r.query = FALSE /\ r.odd = FALSE /\ r.path # "" /\ u.query = FALSE /\ u.odd = FALSE
    BY <1>1, <2>1, <2>2, <2>3 DEF Clients!Registrable, Clients!Parses, Clients!URI
  <2>5. [u EXCEPT !.port = ""] = r
    BY <1>1, <2>1, <2>3, <2>4 DEF Clients!URI
  <2> QED
    BY <2>1, <2>2, <2>4, <2>5
<1> QED
  BY <1>2, <1>3

\* What the registry and the codes show rests on these alone.
LEMMA RegistryKept ==
    ASSUME UNCHANGED <<entries, secrets, insecure>>
    PROVE  Clients!Accepted' <=> Clients!Accepted
<1>1. entries' = entries /\ secrets' = secrets /\ insecure' = insecure
  OBVIOUS
<1>2. ASSUME NEW c PROVE Clients!EntriesOf(c)' = Clients!EntriesOf(c)
  BY <1>1 DEF Clients!EntriesOf
<1>3. ASSUME NEW u PROVE Clients!Registrable(u)' <=> Clients!Registrable(u)
  BY SMTT(30), <1>1 DEF Clients!Registrable
<1> QED
  BY <1>1, <1>2, <1>3 DEF Clients!Accepted

LEMMA GrantsKept ==
    ASSUME Clients!TokensNeedProof, UNCHANGED <<entries, insecure, code, granted>>
    PROVE  Clients!TokensNeedProof'
<1>1. entries' = entries /\ insecure' = insecure /\ code' = code /\ granted' = granted
  OBVIOUS
<1>2. Clients!SentAsRegistered(code)' <=> Clients!SentAsRegistered(code)
  <2>1. PICK k, e, f : k = code /\ e = entries /\ f = insecure
    OBVIOUS
  <2>2. code' = k /\ entries' = e /\ insecure' = f
    BY <1>1, <2>1
  <2> QED
    BY SMTT(30), <2>1, <2>2 DEF Clients!SentAsRegistered, Clients!RedirectURIs, Clients!EntriesOf, Clients!IsLoopback
<1> QED
  BY <1>1, <1>2, ZenonT(30) DEF Clients!TokensNeedProof

LEMMA AuthorizeKeeps ==
    ASSUME Clients!WellFormed, Clients!IInv, NEW c \in Ids, NEW u \in URIs, NEW v \in Verifiers \cup {Clients!NoVerifier},
           Clients!Authorize(c, u, v)
    PROVE  Clients!IInv'
<1>1. /\ pc = "serving" /\ code' = [client |-> c, uri |-> u, challenge |-> v] /\ Clients!MatchRedirectURI(c, u)
      /\ UNCHANGED <<entries, secrets, insecure, pc, granted, restarts>>
  BY DEF Clients!Authorize
<1>2. code'.uri = u /\ code'.client = c
  BY <1>1
<1>3. /\ u.path # "" /\ (u.scheme = "https" \/ Clients!IsLoopback(u) \/ insecure)
      /\ [u EXCEPT !.port = IF Clients!IsLoopback(u) THEN "" ELSE @] \in Clients!RedirectURIs(c)
  BY <1>1, MatchIsRegistered
<1>4. Clients!RedirectURIs(c)' = Clients!RedirectURIs(c)
  BY <1>1 DEF Clients!RedirectURIs, Clients!EntriesOf
<1>5. Clients!SentAsRegistered(code)'
  BY <1>1, <1>2, <1>3, <1>4 DEF Clients!SentAsRegistered, Clients!RedirectURIs, Clients!EntriesOf
<1>6. Clients!TypeOK' /\ (pc = "serving" => Clients!Accepted)'
  BY <1>1, RegistryKept DEF Clients!IInv, Clients!TypeOK
<1> QED
  BY <1>1, <1>5, <1>6 DEF Clients!IInv, Clients!TokensNeedProof

LEMMA RedeemKeeps ==
    ASSUME Clients!WellFormed, Clients!IInv, NEW c \in Ids, NEW u \in URIs, NEW v \in Verifiers \cup {Clients!NoVerifier},
           NEW s \in {"none", "right", "wrong"}, Clients!Redeem(c, u, v, s)
    PROVE  Clients!IInv'
<1>1. /\ Clients!AuthenticateClient(c, s) /\ code' = Clients!NoCode
      /\ granted' = IF c = code.client /\ u = code.uri /\ Clients!Proven(c, v)
                    THEN {[challenge |-> code.challenge, verifier |-> v, secret |-> s]} ELSE granted
      /\ UNCHANGED <<entries, secrets, insecure, pc, restarts>>
  BY DEF Clients!Redeem
<1>2. ASSUME NEW g \in granted'
      PROVE  IF g.challenge # Clients!NoVerifier THEN g.verifier = g.challenge ELSE g.secret = "right"
  <2>1. CASE g \in granted
    BY <2>1 DEF Clients!IInv, Clients!TokensNeedProof
  <2>2. CASE g \notin granted
    <3>1. Clients!Proven(c, v) /\ g = [challenge |-> code.challenge, verifier |-> v, secret |-> s]
      BY <1>1, <2>2
    <3>2. code.challenge = Clients!NoVerifier => s = "right"
      BY <1>1, <3>1 DEF Clients!Proven, Clients!AuthenticateClient, Clients!Authenticate
    <3> QED
      BY <3>1, <3>2 DEF Clients!Proven
  <2> QED
    BY <2>1, <2>2
<1>3. Clients!TypeOK' /\ (pc = "serving" => Clients!Accepted)'
  BY <1>1, RegistryKept DEF Clients!IInv, Clients!TypeOK
<1> QED
  BY <1>1, <1>2, <1>3 DEF Clients!IInv, Clients!TokensNeedProof

\* A serving process has an accepted registry, and keeps what it shows of the
\* codes and the grants.
THEOREM ClientsInvariant ==
    ASSUME Clients!WellFormed
    PROVE  Clients!Spec => []Clients!IInv
<1>1. ASSUME Clients!Init PROVE Clients!IInv
  <2>1. \A i \in DOMAIN entries : entries[i] \in Clients!Entry
    <3>1. PICK n \in 1..MaxEntries : entries \in [1..n -> Clients!Entry]
      BY <1>1 DEF Clients!Init
    <3> QED
      BY <3>1
  <2> QED
    BY <1>1, <2>1 DEF Clients!Init, Clients!IInv, Clients!TypeOK, Clients!TokensNeedProof
<1>2. ASSUME Clients!IInv, [Clients!Next]_(Clients!vars) PROVE Clients!IInv'
  <2>1. CASE Clients!Start
    BY <1>2, <2>1, RegistryKept, GrantsKept DEF Clients!Start, Clients!IInv, Clients!TypeOK
  <2>2. CASE Clients!Restart
    BY <1>2, <2>2, GrantsKept DEF Clients!Restart, Clients!IInv, Clients!TypeOK
  <2>3. CASE UNCHANGED Clients!vars
    BY <1>2, <2>3, RegistryKept, GrantsKept DEF Clients!vars, Clients!IInv, Clients!TypeOK
  <2> QED
    BY <1>2, <2>1, <2>2, <2>3, AuthorizeKeeps, RedeemKeeps DEF Clients!Next
<1> QED
  BY <1>1, <1>2, PTL DEF Clients!Spec

\* For any registry, any URIs and any restarts, a code is sent only where its
\* client is registered and a token is granted only for a verifier or a secret.
THEOREM GrantsAreProven ==
    ASSUME Clients!WellFormed
    PROVE  Clients!Spec => []Clients!TokensNeedProof
<1>1. Clients!IInv => Clients!TokensNeedProof
  BY DEF Clients!IInv
<1> QED
  BY <1>1, ClientsInvariant, PTL

-----------------------------------------------------------------------------
(* Policy.                                                                 *)

CONSTANTS Emails, Configs, RealNamespaces, Replicas, Sessions, AccessTTL, MaxEdits

VARIABLES config, edits, policy, session, tokens, settled

Policy == INSTANCE Policy

\* Minted from the policy a replica has, and with all its time before it.
LEMMA issueKeeps ==
    ASSUME Policy!WellFormed, Policy!IInv, NEW r \in Replicas, NEW s \in Sessions, policy[r] # Policy!Down, Policy!issue(r, s),
           UNCHANGED <<config, edits, policy, settled>>
    PROVE  Policy!IInv'
<1>1. CASE tokens' = tokens
  BY <1>1 DEF Policy!IInv, Policy!TypeOK
<1>2. CASE tokens' # tokens
  <2>1. PICK e, c, p : e = session[s].email /\ c = Policy!ClaimAt(r, s) /\ p = policy[r]
    OBVIOUS
  <2>2. PICK n : n = [email |-> e, claim |-> c, policy |-> p, left |-> AccessTTL]
    OBVIOUS
  <2>3. tokens' = tokens \cup {n}
    BY <1>2, <2>1, <2>2 DEF Policy!issue
  <2>4. n.email = e /\ n.claim = c /\ n.policy = p /\ n.left = AccessTTL
    BY <2>2
  <2>5. c = Policy!ToClaim(Policy!Resolve(p, e))
    BY <2>1 DEF Policy!ClaimAt
  <2>6. Policy!TypeOK'
    <3>1. n.left \in 1..AccessTTL
      BY <2>4, SMTT(30) DEF Policy!WellFormed
    <3>2. n = [email |-> n.email, claim |-> n.claim, policy |-> n.policy, left |-> n.left]
      BY <2>2, <2>4
    <3> QED
      BY <2>3, <3>1, <3>2, ZenonT(30) DEF Policy!IInv, Policy!TypeOK
  <2>7. (\A q \in Replicas : policy[q] \in {config, Policy!Down}) => n.policy = config
    BY <2>1, <2>4
  <2> QED
    BY <2>3, <2>4, <2>5, <2>6, <2>7, ZenonT(30) DEF Policy!IInv
<1> QED
  BY <1>1, <1>2

\* A change of the configuration or of a replica starts the clock again.
LEMMA ChangeKeeps ==
    ASSUME Policy!WellFormed, Policy!IInv, settled' = 0, tokens' = tokens, DOMAIN policy' = DOMAIN policy
    PROVE  Policy!IInv'
<1>1. settled' \in 0..AccessTTL /\ \A t \in tokens' : t.left + settled' <= AccessTTL
  BY SMTT(30) DEF Policy!WellFormed, Policy!IInv, Policy!TypeOK
<1> QED
  BY <1>1, ZenonT(30) DEF Policy!IInv, Policy!TypeOK

LEMMA TimeKeeps ==
    ASSUME Policy!WellFormed, Policy!IInv, Policy!Tick
    PROVE  Policy!IInv'
<1>1. /\ tokens' = {[t EXCEPT !.left = @ - 1] : t \in {u \in tokens : u.left > 1}}
      /\ settled' = IF settled = AccessTTL THEN settled ELSE settled + 1
      /\ config' = config /\ policy' = policy
  BY DEF Policy!Tick
<1>2. AccessTTL \in Nat /\ settled \in 0..AccessTTL
  BY DEF Policy!WellFormed, Policy!IInv, Policy!TypeOK
<1>3. settled' \in 0..AccessTTL
  BY <1>1, <1>2, SMTT(30)
<1>4. ASSUME NEW n \in tokens'
      PROVE  \E t \in tokens :
               /\ t.left \in 1..AccessTTL /\ t.left > 1
               /\ n = [email |-> t.email, claim |-> t.claim, policy |-> t.policy, left |-> t.left - 1]
  <2>1. PICK t \in tokens : t.left > 1 /\ n = [t EXCEPT !.left = @ - 1]
    BY <1>1
  <2>2. /\ t = [email |-> t.email, claim |-> t.claim, policy |-> t.policy, left |-> t.left]
        /\ t.left \in 1..AccessTTL
    BY DEF Policy!IInv, Policy!TypeOK
  <2> QED
    BY <2>1, <2>2
<1>5. ASSUME NEW n \in tokens'
      PROVE  /\ n = [email |-> n.email, claim |-> n.claim, policy |-> n.policy, left |-> n.left]
             /\ n.left \in 1..AccessTTL
             /\ n.claim = Policy!ToClaim(Policy!Resolve(n.policy, n.email))
  <2>1. PICK t \in tokens :
               /\ t.left \in 1..AccessTTL /\ t.left > 1
               /\ n = [email |-> t.email, claim |-> t.claim, policy |-> t.policy, left |-> t.left - 1]
    BY <1>4
  <2>2. n.email = t.email /\ n.claim = t.claim /\ n.policy = t.policy /\ n.left = t.left - 1
    BY <2>1
  <2>3. t.left - 1 \in 1..AccessTTL
    BY <1>2, <2>1, SMTT(30)
  <2>4. t.claim = Policy!ToClaim(Policy!Resolve(t.policy, t.email))
    BY DEF Policy!IInv
  <2> QED
    BY <2>1, <2>2, <2>3, <2>4, ZenonT(30)
<1>6. ASSUME \A r \in Replicas : policy[r] \in {config, Policy!Down}, NEW n \in tokens'
      PROVE  n.policy = config \/ n.left + settled' <= AccessTTL
  <2>1. PICK t \in tokens :
               /\ t.left \in 1..AccessTTL /\ t.left > 1
               /\ n = [email |-> t.email, claim |-> t.claim, policy |-> t.policy, left |-> t.left - 1]
    BY <1>4
  <2>2. n.policy = t.policy /\ n.left = t.left - 1
    BY <2>1
  <2>3. t.policy = config \/ t.left + settled <= AccessTTL
    BY <1>6 DEF Policy!IInv
  <2>4. t.left + settled <= AccessTTL => t.left - 1 + settled' <= AccessTTL
    BY <1>1, <1>2, <2>1, SMTT(30)
  <2> QED
    BY <2>2, <2>3, <2>4, ZenonT(30)
<1> QED
  BY <1>1, <1>3, <1>5, <1>6, ZenonT(30) DEF Policy!IInv, Policy!TypeOK

\* A token is as old as its policy has been out of use.
THEOREM PolicyInvariant ==
    ASSUME Policy!WellFormed
    PROVE  Policy!Spec => []Policy!IInv
<1>1. ASSUME Policy!Init PROVE Policy!IInv
  <2>1. 0 \in 0..AccessTTL
    BY SMTT(30) DEF Policy!WellFormed
  <2> QED
    BY <1>1, <2>1 DEF Policy!Init, Policy!IInv, Policy!TypeOK
<1>2. ASSUME Policy!IInv, [Policy!Next]_(Policy!vars) PROVE Policy!IInv'
  <2>1. ASSUME NEW c \in Configs, Policy!Edit(c) PROVE Policy!IInv'
    BY <1>2, <2>1, ChangeKeeps DEF Policy!Edit
  <2>2. ASSUME NEW r \in Replicas, Policy!Restart(r) PROVE Policy!IInv'
    BY <1>2, <2>2, ChangeKeeps DEF Policy!Restart
  <2>3. ASSUME UNCHANGED <<config, policy, tokens, settled>> PROVE Policy!IInv'
    BY <1>2, <2>3 DEF Policy!IInv, Policy!TypeOK
  <2>4. ASSUME NEW r \in Replicas, NEW s \in Sessions, NEW e \in Emails, Policy!SignIn(r, s, e) PROVE Policy!IInv'
    BY <2>3, <2>4 DEF Policy!SignIn
  <2>5. ASSUME NEW r \in Replicas, NEW s \in Sessions, Policy!Exchange(r, s) PROVE Policy!IInv'
    BY <1>2, <2>5, issueKeeps DEF Policy!Exchange
  <2>6. ASSUME NEW r \in Replicas, NEW s \in Sessions, Policy!Refresh(r, s) PROVE Policy!IInv'
    BY <1>2, <2>3, <2>6, issueKeeps DEF Policy!Refresh
  <2>7. CASE UNCHANGED Policy!vars
    BY <2>3, <2>7 DEF Policy!vars
  <2> QED
    BY <1>2, <2>1, <2>2, <2>4, <2>5, <2>6, <2>7, TimeKeeps DEF Policy!Next
<1> QED
  BY <1>1, <1>2, PTL DEF Policy!Spec

\* For any rules, replicas and sessions, once the written configuration has been
\* the only one served for an access token's lifetime, every token grants what
\* it says.
THEOREM RulesTakeEffect ==
    ASSUME Policy!WellFormed
    PROVE  Policy!Spec => []Policy!ChangedRulesTakeEffect
<1>1. ASSUME Policy!IInv PROVE Policy!ChangedRulesTakeEffect
  <2> SUFFICES ASSUME settled = AccessTTL, \A r \in Replicas : policy[r] \in {config, Policy!Down}, NEW t \in tokens
               PROVE  t.policy = config
    BY <1>1, ZenonT(30) DEF Policy!ChangedRulesTakeEffect, Policy!IInv
  <2>1. t.policy = config \/ t.left + settled <= AccessTTL
    BY <1>1 DEF Policy!IInv
  <2>2. ~(t.left + settled <= AccessTTL)
    <3>1. t.left \in 1..AccessTTL
      BY <1>1 DEF Policy!IInv, Policy!TypeOK
    <3> QED
      BY <3>1, SMTT(30) DEF Policy!WellFormed
  <2> QED
    BY <2>1, <2>2
<1> QED
  BY <1>1, PolicyInvariant, PTL
=============================================================================
