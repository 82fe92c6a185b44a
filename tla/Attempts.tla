------------------------------- MODULE Attempts -------------------------------
(***************************************************************************)
(* The budgets of the device verification page: two in-process limiters    *)
(* with bounded memory, one per client address and one per browser         *)
(* session.  An attempt spends a token of each before the user code is     *)
(* looked up and gets them back when the code turns out usable.            *)
(*                                                                         *)
(* A bucket holds whole tokens and a tick refills one: burst tokens over a *)
(* window of burst ticks.                                                  *)
(***************************************************************************)
EXTENDS Naturals, Sequences, FiniteSets, Functions

CONSTANTS
    Addresses, Sessions,
    NoSession,
    Requests,      \* attempts in flight at once
    Burst,         \* by limiter: "ip" and "session"
    MaxKeys,       \* keys a limiter tracks at once
    MaxTime,       \* bound on the clock
    MaxAttempts    \* bound on attempts begun

VARIABLES
    now,
    buckets,       \* by limiter, the tracked keys' buckets
    order,         \* by limiter, its keys, most recently used first
    attempt,       \* the requests
    begun,
    failed,        \* history: failed look-ups by key
    evicted        \* history: evictions by key

vars == <<now, buckets, order, attempt, begun, failed, evicted>>

Limiters == {"ip", "session"}
Keys == [ip |-> Addresses, session |-> Sessions]
AllKeys == Addresses \cup Sessions

Bucket == [tokens : Nat, last : Nat]
Idle == [pc |-> "idle", ip |-> NoSession, sid |-> NoSession]

Init ==
    /\ now = 0
    /\ buckets = [l \in Limiters |-> <<>>] /\ order = [l \in Limiters |-> <<>>]
    /\ attempt = [r \in Requests |-> Idle]
    /\ begun = 0
    /\ failed = [k \in AllKeys |-> 0] /\ evicted = [k \in AllKeys |-> 0]

-----------------------------------------------------------------------------
(* ratelimit.Limiter.  Each operation holds the limiter's mutex.  An       *)
(* operator returns the limiter's buckets, its order and the keys evicted. *)

Least(x, y) == IF x <= y THEN x ELSE y

Refilled(l, k) ==
    LET b == buckets[l][k]
    IN  [tokens |-> Least(b.tokens + (now - b.last), Burst[l]), last |-> now]

\* The loop in bucket: a new key displaces the least recently used.
Evicts(l) == Cardinality(DOMAIN buckets[l]) >= MaxKeys

\* container/list: the element at the back, the list without it, and the list
\* with k's element brought to the front.
Back(s) == s[Len(s)]
RemoveBack(s) == SubSeq(s, 1, Len(s) - 1)

MoveToFront(s, k) ==
    LET at == CHOOSE i \in DOMAIN s : s[i] = k
    IN  [i \in DOMAIN s |-> IF i = 1 THEN k ELSE IF i <= at THEN s[i - 1] ELSE s[i]]

\* bucket: k's bucket refilled to now and moved to the front, or a new one.
Touch(l, k) ==
    IF k \in DOMAIN buckets[l]
      THEN [b |-> [buckets[l] EXCEPT ![k] = Refilled(l, k)],
            o |-> MoveToFront(order[l], k), e |-> {}]
      ELSE LET gone == IF Evicts(l) THEN {Back(order[l])} ELSE {}
           IN  [b |-> [j \in (DOMAIN buckets[l] \ gone) \cup {k} |->
                         IF j = k THEN [tokens |-> Burst[l], last |-> now] ELSE buckets[l][j]],
                o |-> <<k>> \o (IF Evicts(l) THEN RemoveBack(order[l]) ELSE order[l]), e |-> gone]

\* Allow: what is left after the call, and whether a token was there.
Allow(l, k) ==
    LET t == Touch(l, k)
        ok == t.b[k].tokens >= 1
    IN  [b |-> IF ok THEN [t.b EXCEPT ![k].tokens = @ - 1] ELSE t.b, o |-> t.o, e |-> t.e, ok |-> ok]

\* Refund: one token back, never beyond the burst; an evicted key is left alone.
Refund(l, k) ==
    IF k \in DOMAIN buckets[l] THEN [buckets[l] EXCEPT ![k].tokens = Least(@ + 1, Burst[l])] ELSE buckets[l]

Applies(l, a) ==
    /\ buckets' = [buckets EXCEPT ![l] = a.b]
    /\ order' = [order EXCEPT ![l] = a.o]
    /\ evicted' = [k \in AllKeys |-> evicted[k] + IF k \in a.e THEN 1 ELSE 0]

-----------------------------------------------------------------------------
(* DeviceUI.                                                               *)

\* A request with a browser session or none: its address pays first.
SpendAddress(r) ==
    /\ attempt[r].pc = "idle" /\ begun < MaxAttempts
    /\ begun' = begun + 1
    /\ \E ip \in Addresses, sid \in Sessions \cup {NoSession} :
         LET a == Allow("ip", ip)
         IN  /\ Applies("ip", a)
             /\ attempt' = [attempt EXCEPT ![r] =
                  IF ~a.ok THEN Idle
                  ELSE [pc |-> IF sid = NoSession THEN "lookup" ELSE "session", ip |-> ip, sid |-> sid]]
    /\ UNCHANGED <<now, failed>>

\* ... then its session; a session without budget gives the address its token
\* back and the code is not looked up.
SpendSession(r) ==
    LET a == Allow("session", attempt[r].sid)
    IN  /\ attempt[r].pc = "session"
        /\ Applies("session", a)
        /\ attempt' = [attempt EXCEPT ![r].pc = IF a.ok THEN "lookup" ELSE "refund"]
        /\ UNCHANGED <<now, begun, failed>>

RefundAddress(r) ==
    /\ attempt[r].pc = "refund"
    /\ buckets' = [buckets EXCEPT !["ip"] = Refund("ip", attempt[r].ip)]
    /\ attempt' = [attempt EXCEPT ![r] = Idle]
    /\ UNCHANGED <<now, order, begun, failed, evicted>>

\* Mutant: a failed look-up is refunded too.
FailRefunds(r) ==
    /\ attempt[r].pc = "lookup"
    /\ failed' = [k \in AllKeys |-> failed[k] + IF k \in {attempt[r].ip, attempt[r].sid} THEN 1 ELSE 0]
    /\ attempt' = [attempt EXCEPT ![r].pc = "usable"]
    /\ UNCHANGED <<now, buckets, order, begun, evicted>>

\* userCodeUsable: unknown, expired or decided, or the store failed to say.
Fail(r) ==
    /\ attempt[r].pc = "lookup"
    /\ failed' = [k \in AllKeys |-> failed[k] + IF k \in {attempt[r].ip, attempt[r].sid} THEN 1 ELSE 0]
    /\ attempt' = [attempt EXCEPT ![r] = Idle]
    /\ UNCHANGED <<now, buckets, order, begun, evicted>>

Succeed(r) ==
    /\ attempt[r].pc = "lookup"
    /\ attempt' = [attempt EXCEPT ![r].pc = "usable"]
    /\ UNCHANGED <<now, buckets, order, begun, failed, evicted>>

\* refundUserCodeAttempt: the address, then the session if there is one.
RefundBoth(r) ==
    /\ attempt[r].pc = "usable"
    /\ buckets' = [l \in Limiters |->
         LET k == IF l = "ip" THEN attempt[r].ip ELSE attempt[r].sid
         IN  IF k = NoSession THEN buckets[l] ELSE Refund(l, k)]
    /\ attempt' = [attempt EXCEPT ![r] = Idle]
    /\ UNCHANGED <<now, order, begun, failed, evicted>>

Tick ==
    /\ now < MaxTime
    /\ now' = now + 1
    /\ UNCHANGED <<buckets, order, attempt, begun, failed, evicted>>

Next ==
    \/ \E r \in Requests :
         SpendAddress(r) \/ SpendSession(r) \/ RefundAddress(r) \/ Fail(r) \/ Succeed(r) \/ RefundBoth(r)
    \/ Tick

Spec == Init /\ [][Next]_vars

-----------------------------------------------------------------------------
\* spendUserCodeAttempt, Refund and Limiter: a limiter tracks MaxKeys keys at
\* most; and however many attempts run in parallel, the failed look-ups of an
\* address or a session never exceed what its budget has refilled to, plus a
\* fresh budget for each time it was evicted.
FailuresWithinBudget ==
    \A l \in Limiters :
      /\ Cardinality(DOMAIN buckets[l]) <= MaxKeys
      /\ \A k \in Keys[l] : failed[k] <= Burst[l] * (1 + evicted[k]) + now

-----------------------------------------------------------------------------
(* The inductive invariant the proofs rest on.                             *)

WellFormed ==
    /\ Addresses \cap Sessions = {} /\ NoSession \notin AllKeys /\ IsFiniteSet(Requests)
    /\ Burst \in [Limiters -> Nat] /\ MaxKeys \in Nat \ {0}

Attempt ==
    [pc : {"idle"}, ip : {NoSession}, sid : {NoSession}]
      \cup [pc : {"session", "refund"}, ip : Addresses, sid : Sessions]
      \cup [pc : {"lookup", "usable"}, ip : Addresses, sid : Sessions \cup {NoSession}]

\* A limiter with buckets b and order o: its order lists its keys once, no more
\* than it may track, and no bucket holds more than the burst.
Limiter(l, b, o) ==
    /\ o \in Seq(AllKeys) /\ IsInjective(o)
    /\ DOMAIN b = Range(o) /\ DOMAIN b \subseteq Keys[l]
    /\ IsFiniteSet(DOMAIN b) /\ Cardinality(DOMAIN b) <= MaxKeys
    /\ b \in [DOMAIN b -> Bucket]
    /\ \A k \in DOMAIN b : b[k].tokens <= Burst[l] /\ b[k].last <= now

TypeOK ==
    /\ now \in Nat /\ attempt \in [Requests -> Attempt]
    /\ failed \in [AllKeys -> Nat] /\ evicted \in [AllKeys -> Nat]
    /\ DOMAIN buckets = Limiters /\ DOMAIN order = Limiters
    /\ \A l \in Limiters : Limiter(l, buckets[l], order[l])

\* An attempt that holds a token of k, to fail with or to give back.
Holds(x, l, k) ==
    IF l = "ip" THEN x.pc # "idle" /\ x.ip = k ELSE x.pc \in {"lookup", "usable"} /\ x.sid = k

Holders(l, k) == {r \in Requests : Holds(attempt[r], l, k)}

\* What k has left, has in flight (h) and has failed (f) is within its refills and
\* a fresh budget for each eviction (e).
Paid(l, k, b, h, f, e) ==
    IF k \in DOMAIN b THEN b[k].tokens + f + h <= Burst[l] * (1 + e) + b[k].last
    ELSE f + h <= Burst[l] * e + now

IInv ==
    /\ TypeOK
    /\ \A l \in Limiters : \A k \in Keys[l] :
         Paid(l, k, buckets[l], Cardinality(Holders(l, k)), failed[k], evicted[k])
=============================================================================
