----------------------------- MODULE Revocation -----------------------------
(***************************************************************************)
(* Revoking an integration key, and how the revocation reaches the         *)
(* verifiers: the integration_keys and jti_denylist tables, the denylist   *)
(* cache every replica's verifier reads through, and the change feed that  *)
(* hydrates it (LISTEN/NOTIFY with a resync on Postgres, an in-process hub *)
(* on SQLite).  A key and the jti of its token are one value.              *)
(*                                                                         *)
(* One step is one store statement or transaction, one message on the      *)
(* feed, or one locked section of the cache.                               *)
(***************************************************************************)
EXTENDS Naturals, Sequences, FiniteSets

CONSTANTS
    Keys,         \* integration keys, each with its jti
    Replicas,     \* processes that verify tokens
    TTL,          \* DefaultDenylistTTL
    MaxEntries,   \* the cache's cap
    Buffer,       \* the hub's buffer per subscriber
    KeyLife,      \* how long a minted key lives
    Grace,        \* denylistGrace
    ResyncSkew,
    Stall,        \* how long a verification takes at most
    MaxTime,      \* bound on the clock
    MaxRevokes    \* bound on revocations, repeats included

ASSUME RevocationAssumption ==
    /\ TTL \in Nat /\ MaxEntries \in Nat \ {0} /\ Buffer \in Nat /\ KeyLife \in Nat
    /\ Grace \in Nat /\ ResyncSkew \in Nat /\ Stall \in Nat /\ Stall <= Grace
    /\ MaxTime \in Nat /\ MaxRevokes \in Nat /\ Keys # {} /\ IsFiniteSet(Keys)

VARIABLES
    backend,
    now,
    keys,          \* integration_keys
    denied,        \* jti_denylist: per key, revoked_at, or 0 without a row
    revokes,       \* how many revocations have committed
    cache,         \* per replica, the entries of its DenylistCache
    nextSweep,     \* per replica
    verify,        \* per replica, the verification in flight
    hydrate,       \* per replica, keys a DELETE handler revoked and has yet to hydrate
    feed,          \* per replica, its change feed's connection
    wire,          \* per replica, notifications its connection has not yet read
    chan,          \* per replica, its subscriber's channel
    committedAt,   \* history: per key, when its revocation committed (0: not)
    acceptedAt,    \* history: per key, when its token was last accepted since
    told,          \* history: per replica, the keys reported to its hub
    gap            \* history: per replica, keys revoked in an outage whose resync failed

vars == <<backend, now, keys, denied, revokes, cache, nextSweep, verify, hydrate, feed, wire, chan,
          committedAt, acceptedAt, told, gap>>

KeyRow == [st : {"none", "active", "revoked"}, expires : Nat]

Entry == [is : {"absent", "active", "revoked"}, expires : Nat]

Absent == [is |-> "absent", expires |-> 0]

Verification == [pc : {"idle", "lookup", "store"}, key : Keys, at : Nat, revoked : BOOLEAN]

AnyKey == CHOOSE k \in Keys : TRUE

Idle == [pc |-> "idle", key |-> AnyKey, at |-> 0, revoked |-> FALSE]

Connection == [pc : {"down", "listening", "relaying"}, since : Nat]

\* A process that has just started: an empty cache, and a feed not yet connected.
Init ==
    /\ backend \in {"postgres", "sqlite"}
    /\ now = 1
    /\ keys = [k \in Keys |-> [st |-> "none", expires |-> 0]]
    /\ denied = [k \in Keys |-> 0] /\ revokes = 0
    /\ cache = [r \in Replicas |-> [k \in Keys |-> Absent]]
    /\ nextSweep = [r \in Replicas |-> 0]
    /\ verify = [r \in Replicas |-> Idle]
    /\ hydrate = [r \in Replicas |-> {}]
    /\ feed = [r \in Replicas |-> [pc |-> "down", since |-> 1]]
    /\ wire = [r \in Replicas |-> <<>>]
    /\ chan = [r \in Replicas |-> <<>>]
    /\ committedAt = [k \in Keys |-> 0]
    /\ acceptedAt = [k \in Keys |-> 0]
    /\ told = [r \in Replicas |-> {}]
    /\ gap = [r \in Replicas |-> {}]

feedVars == <<feed, wire, chan, told, gap>>

tableVars == <<backend, now, keys, denied, revokes, committedAt>>

-----------------------------------------------------------------------------
(* The cache.                                                              *)

Entries(c) == {k \in Keys : c[k].is # "absent"}

\* The sweep of expired entries that a store begins with, once per TTL.
Swept(r) ==
    IF now < nextSweep[r]
      THEN cache[r]
      ELSE [k \in Keys |-> IF now < cache[r][k].expires THEN cache[r][k] ELSE Absent]

\* evictOne: an active entry if there is one, else any.
Victims(c) ==
    LET active == {k \in Keys : c[k].is = "active"}
    IN  IF active # {} THEN active ELSE Entries(c)

HasRoom(c, k) == c[k].is # "absent" \/ Cardinality(Entries(c)) < MaxEntries

\* store: sweep, make room, and memoize the answer for a TTL.
Store(r, k, is) ==
    /\ LET c == Swept(r)
           new == [is |-> is, expires |-> now + TTL]
       IN  \/ /\ HasRoom(c, k)
              /\ cache' = [cache EXCEPT ![r] = [c EXCEPT ![k] = new]]
           \/ /\ ~HasRoom(c, k)
              /\ \E v \in Victims(c) :
                   cache' = [cache EXCEPT ![r] = [c EXCEPT ![v] = Absent, ![k] = new]]
    /\ nextSweep' = [nextSweep EXCEPT ![r] = IF now < @ THEN @ ELSE now + TTL]

-----------------------------------------------------------------------------
(* Verify.                                                                 *)

\* The token's signature and exp are checked first, on a clock that may lag
\* behind the reaper's by less than the grace.
Presentable(k) == keys[k].st # "none" /\ now + Stall <= keys[k].expires + Grace

Fresh(e) == e.is # "absent" /\ now < e.expires

Accepts(k) ==
    acceptedAt' = [acceptedAt EXCEPT ![k] = IF committedAt[k] # 0 THEN now ELSE @]

\* IsRevoked answers from a fresh entry, or goes to the store.
Verify(r, k) ==
    /\ verify[r].pc = "idle" /\ Presentable(k)
    /\ \/ /\ Fresh(cache[r][k]) /\ cache[r][k].is = "active"
          /\ Accepts(k) /\ UNCHANGED verify
       \/ /\ ~Fresh(cache[r][k])
          /\ verify' = [verify EXCEPT ![r] = [pc |-> "lookup", key |-> k, at |-> now,
                                              revoked |-> FALSE]]
          /\ UNCHANGED acceptedAt
    /\ UNCHANGED <<tableVars, cache, nextSweep, hydrate, feedVars>>

\* The store's IsRevoked; a failure refuses the token.
Lookup(r) ==
    /\ verify[r].pc = "lookup"
    /\ \/ verify' = [verify EXCEPT ![r].pc = "store", ![r].revoked = denied[verify[r].key] # 0]
       \/ verify' = [verify EXCEPT ![r] = Idle]
    /\ UNCHANGED <<tableVars, cache, nextSweep, hydrate, acceptedAt, feedVars>>

Memoize(r) ==
    /\ verify[r].pc = "store"
    /\ Store(r, verify[r].key, IF verify[r].revoked THEN "revoked" ELSE "active")
    /\ IF verify[r].revoked THEN UNCHANGED acceptedAt ELSE Accepts(verify[r].key)
    /\ verify' = [verify EXCEPT ![r] = Idle]
    /\ UNCHANGED <<tableVars, hydrate, feedVars>>

-----------------------------------------------------------------------------
(* The admin API.                                                          *)

\* create: the signed token and its row.  Keys that would outlive the clock's
\* bound are left out.
Create(k) ==
    /\ keys[k].st = "none" /\ now + KeyLife <= MaxTime
    /\ keys' = [keys EXCEPT ![k] = [st |-> "active", expires |-> now + KeyLife]]
    /\ UNCHANGED <<backend, now, denied, revokes, committedAt, cache, nextSweep, verify, hydrate,
                   acceptedAt, feedVars>>

\* Publish: a subscriber whose buffer is full misses the change.
Sent(c, k) == IF Len(c) < Buffer THEN Append(c, k) ELSE c

\* What the commit queues: on Postgres one notification per listening
\* connection; on SQLite one for the hub of the process that wrote.
Notify(by, k) ==
    IF backend = "postgres"
      THEN /\ wire' = [x \in Replicas |->
                         IF feed[x].pc # "down" THEN Append(wire[x], k) ELSE wire[x]]
           /\ UNCHANGED <<chan, told>>
      ELSE /\ chan' = [x \in Replicas |-> IF x \in by THEN Sent(chan[x], k) ELSE chan[x]]
           /\ told' = [x \in Replicas |-> IF x \in by THEN told[x] \cup {k} ELSE told[x]]
           /\ UNCHANGED wire

\* INSERT ... ON CONFLICT DO NOTHING.
Denylisted(k, at) == denied' = [denied EXCEPT ![k] = IF @ = 0 THEN at ELSE @]

\* MarkIntegrationKeyRevoked, one transaction, on a clock that may lag: by a
\* replica, or (by = {}) by a process that verifies nothing.
MarkIntegrationKeyRevoked(by, k) ==
    /\ keys[k].st # "none"
    /\ revokes < MaxRevokes /\ revokes' = revokes + 1
    /\ keys' = [keys EXCEPT ![k].st = "revoked"]
    /\ \E lag \in 0..ResyncSkew : lag < now /\ Denylisted(k, now - lag)
    /\ committedAt' = [committedAt EXCEPT ![k] = IF @ = 0 THEN now ELSE @]
    /\ Notify(by, k)
    /\ hydrate' = [x \in Replicas |-> IF x \in by THEN hydrate[x] \cup {k} ELSE hydrate[x]]
    /\ UNCHANGED <<backend, now, cache, nextSweep, verify, acceptedAt, feed, gap>>

\* revoke's second half, in the replica that served the DELETE.
Hydrate(r, k) ==
    /\ k \in hydrate[r]
    /\ Store(r, k, "revoked")
    /\ hydrate' = [hydrate EXCEPT ![r] = @ \ {k}]
    /\ UNCHANGED <<tableVars, verify, acceptedAt, feedVars>>

-----------------------------------------------------------------------------
(* The change feed.                                                        *)

\* listenOnce: LISTEN first.  SQLite's hub needs no connection.
Listen(r) ==
    /\ backend = "postgres" /\ feed[r].pc = "down"
    /\ feed' = [feed EXCEPT ![r].pc = "listening"]
    /\ UNCHANGED <<tableVars, cache, nextSweep, verify, hydrate, acceptedAt, wire, chan, told, gap>>

\* Mutant: revocations are read from the moment the connection was lost.
MissedUnskewed(r) == {k \in Keys : denied[k] # 0 /\ denied[k] >= feed[r].since}

\* The rows a resync reads.
Missed(r) == {k \in Keys : denied[k] # 0 /\ denied[k] + ResyncSkew >= feed[r].since}

\* Publishing a set of changes one by one, in any order, into what room is left.
AfterSending(c, ks) ==
    {c \o s : s \in {t \in UNION {[1..n -> ks] : n \in 0..Cardinality(ks)} :
                      /\ \A i, j \in DOMAIN t : t[i] = t[j] => i = j
                      /\ Len(t) = IF Len(c) + Cardinality(ks) <= Buffer
                                   THEN Cardinality(ks) ELSE Buffer - Len(c)}}

\* Then the resync.
Resync(r) ==
    /\ feed[r].pc = "listening"
    /\ feed' = [feed EXCEPT ![r].pc = "relaying"]
    /\ \E c \in AfterSending(chan[r], Missed(r)) : chan' = [chan EXCEPT ![r] = c]
    /\ told' = [told EXCEPT ![r] = @ \cup Missed(r)]
    /\ UNCHANGED <<tableVars, cache, nextSweep, verify, hydrate, acceptedAt, wire, gap>>

\* One notification is relayed to the hub.
Relay(r) ==
    /\ feed[r].pc = "relaying" /\ wire[r] # <<>>
    /\ wire' = [wire EXCEPT ![r] = Tail(@)]
    /\ chan' = [chan EXCEPT ![r] = Sent(@, Head(wire[r]))]
    /\ told' = [told EXCEPT ![r] = @ \cup {Head(wire[r])}]
    /\ UNCHANGED <<tableVars, cache, nextSweep, verify, hydrate, acceptedAt, feed, gap>>

\* The connection fails once LISTEN succeeded, before or after the resync;
\* the next resync begins from here.
Disconnect(r) ==
    /\ feed[r].pc # "down"
    /\ feed' = [feed EXCEPT ![r] = [pc |-> "down", since |-> now]]
    /\ wire' = [wire EXCEPT ![r] = <<>>]
    /\ gap' = IF feed[r].pc = "listening"
                THEN [gap EXCEPT ![r] = @ \cup {k \in Keys : committedAt[k] # 0}] ELSE gap
    /\ UNCHANGED <<tableVars, cache, nextSweep, verify, hydrate, acceptedAt, chan, told>>

\* Follow: the subscriber hydrates the cache.
Follow(r) ==
    /\ chan[r] # <<>>
    /\ chan' = [chan EXCEPT ![r] = Tail(@)]
    /\ Store(r, Head(chan[r]), "revoked")
    /\ UNCHANGED <<tableVars, verify, hydrate, acceptedAt, feed, wire, told, gap>>

\* The process restarts: what it held in memory is gone, the tables stay.
Restart(r) ==
    /\ cache' = [cache EXCEPT ![r] = [k \in Keys |-> Absent]]
    /\ nextSweep' = [nextSweep EXCEPT ![r] = 0]
    /\ verify' = [verify EXCEPT ![r] = Idle]
    /\ hydrate' = [hydrate EXCEPT ![r] = {}]
    /\ feed' = [feed EXCEPT ![r] = [pc |-> "down", since |-> now]]
    /\ wire' = [wire EXCEPT ![r] = <<>>]
    /\ chan' = [chan EXCEPT ![r] = <<>>]
    /\ gap' = [gap EXCEPT ![r] = {k \in Keys : committedAt[k] # 0}]
    /\ UNCHANGED <<tableVars, acceptedAt, told>>

-----------------------------------------------------------------------------
\* Mutant: a jti leaves the denylist as soon as its token has expired.
ReapableAtOnce(k) == denied[k] # 0 /\ keys[k].expires < now

\* reapDenylist: the grace keeps a jti denylisted past its token's exp.
Reapable(k) == denied[k] # 0 /\ keys[k].expires + Grace < now

ReapDenylist(k) ==
    /\ Reapable(k)
    /\ denied' = [denied EXCEPT ![k] = 0]
    /\ UNCHANGED <<backend, now, keys, revokes, committedAt, cache, nextSweep, verify, hydrate,
                   acceptedAt, feedVars>>

\* A verification answers within Stall; a notification is read, or the loss
\* of its connection noticed (feedPing), before the clock moves.
Prompt ==
    \A r \in Replicas : wire[r] = <<>> /\ (verify[r].pc # "idle" => now < verify[r].at + Stall)

Tick ==
    /\ now < MaxTime /\ Prompt
    /\ now' = now + 1
    /\ UNCHANGED <<backend, keys, denied, revokes, committedAt, cache, nextSweep, verify, hydrate,
                   acceptedAt, feedVars>>

ReplicaStep(r) ==
    \/ \E k \in Keys : Verify(r, k) \/ Hydrate(r, k)
    \/ Lookup(r) \/ Memoize(r)
    \/ Listen(r) \/ Resync(r) \/ Relay(r) \/ Disconnect(r) \/ Follow(r)
    \/ Restart(r)

Next ==
    \/ \E k \in Keys : Create(k) \/ ReapDenylist(k)
    \/ \E k \in Keys, by \in {{}} \cup {{r} : r \in Replicas} : MarkIntegrationKeyRevoked(by, k)
    \/ \E r \in Replicas : ReplicaStep(r)
    \/ Tick

Spec == Init /\ [][Next]_vars

-----------------------------------------------------------------------------
(* Properties.                                                             *)

\* Every row, entry, request and message has its type.
TypeOK ==
    /\ backend \in {"postgres", "sqlite"} /\ now \in Nat
    /\ keys \in [Keys -> KeyRow] /\ denied \in [Keys -> Nat] /\ revokes \in Nat
    /\ cache \in [Replicas -> [Keys -> Entry]] /\ nextSweep \in [Replicas -> Nat]
    /\ verify \in [Replicas -> Verification]
    /\ hydrate \in [Replicas -> SUBSET Keys]
    /\ feed \in [Replicas -> Connection]
    /\ wire \in [Replicas -> Seq(Keys)] /\ chan \in [Replicas -> Seq(Keys)]
    /\ committedAt \in [Keys -> Nat] /\ acceptedAt \in [Keys -> Nat]
    /\ told \in [Replicas -> SUBSET Keys] /\ gap \in [Replicas -> SUBSET Keys]

\* "across processes the TTL is what bounds staleness": no verifier accepts a
\* revoked key's token once a TTL, and the time one verification takes, have
\* passed since the revocation committed, whatever the feed lost, whichever
\* answers were cached late, and after the denylist row was reaped
\* (DenylistCache.IsRevoked, MarkIntegrationKeyRevoked, Reap).
StalenessBounded ==
    \A k \in Keys :
      committedAt[k] # 0 => acceptedAt[k] <= committedAt[k] + TTL + Stall

\* "LISTEN first and then a resync": while a replica's feed relays, every
\* revocation since the process subscribed has been reported to its hub or
\* waits on its connection, through lost connections and lagging clocks; the
\* exceptions are outages whose own resync failed (runFeed, listenOnce).
FeedMissesNothing ==
    \A r \in Replicas, k \in Keys :
      feed[r].pc = "relaying" /\ committedAt[k] # 0 /\ denied[k] # 0
        => k \in told[r] \cup gap[r] \/ \E i \in 1..Len(wire[r]) : wire[r][i] = k

-----------------------------------------------------------------------------
(* The inductive invariant the proofs rest on.                             *)

\* A verification in flight is on time, began while its token's jti could not
\* yet be reaped, and if it read no denylist row began before the commit.
VerificationsTimely ==
    \A r \in Replicas : verify[r].pc # "idle" =>
        /\ verify[r].at <= now /\ now <= verify[r].at + Stall
        /\ keys[verify[r].key].st # "none"
        /\ verify[r].at + Stall <= keys[verify[r].key].expires + Grace
        /\ verify[r].pc = "store" /\ ~verify[r].revoked /\ committedAt[verify[r].key] # 0
             => verify[r].at <= committedAt[verify[r].key]

\* The history of acceptances begins with the revocation.
AcceptedSince == \A k \in Keys : committedAt[k] = 0 => acceptedAt[k] = 0

\* A revoked key's row, and no other's, stays until no verifier takes its token.
RowsKept ==
    \A k \in Keys :
        /\ denied[k] # 0 => committedAt[k] # 0
        /\ committedAt[k] # 0 =>
             /\ keys[k].st # "none" /\ committedAt[k] <= now
             /\ denied[k] = 0 => keys[k].expires + Grace < now

\* An entry that admits a key outlives the key's revocation by a TTL and the
\* verification that stored it.
EntriesBounded ==
    \A r \in Replicas, k \in Keys : cache[r][k].is = "active" =>
        /\ cache[r][k].expires <= now + TTL
        /\ committedAt[k] # 0 => cache[r][k].expires <= committedAt[k] + TTL + Stall

\* Before its resync a feed has every revocation still ahead of it that nobody
\* reported; after, it waits on the connection, since this very instant.
FeedHolds ==
    \A r \in Replicas :
        /\ feed[r].since <= now /\ (backend = "sqlite" => feed[r].pc = "down")
        /\ \A k \in Keys : committedAt[k] # 0 /\ denied[k] # 0 =>
             \/ k \in told[r] \cup gap[r]
             \/ feed[r].pc # "relaying" /\ denied[k] + ResyncSkew >= feed[r].since
             \/ /\ feed[r].pc = "relaying" /\ denied[k] + ResyncSkew >= now
                /\ \E i \in 1..Len(wire[r]) : wire[r][i] = k

IInv ==
    /\ TypeOK /\ 0 < now /\ VerificationsTimely /\ RowsKept /\ EntriesBounded /\ FeedHolds
    /\ AcceptedSince /\ StalenessBounded
=============================================================================
