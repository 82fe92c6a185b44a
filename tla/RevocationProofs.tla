-------------------------- MODULE RevocationProofs --------------------------
(***************************************************************************)
(* Revocation, for every number of keys and replicas, every TTL, buffer,   *)
(* cache size and lag: a revoked key's token is accepted for a TTL and one *)
(* verification at most, and a relaying feed has missed no revocation.     *)
(***************************************************************************)
EXTENDS Revocation, FiniteSetTheorems, TLAPS

\* Most leaves are first-order and Zenon's; the others do arithmetic.
USE ZenonT(30), SMTT(30)

-----------------------------------------------------------------------------
(* Types.                                                                  *)

LEMMA IdleTyped == AnyKey \in Keys /\ Idle \in Verification /\ Idle.pc = "idle"
BY RevocationAssumption DEF AnyKey, Idle, Verification

LEMMA AbsentTyped == Absent \in Entry /\ Absent.is = "absent"
BY DEF Absent, Entry

LEMMA TypeInit == Init => TypeOK
BY SMTT(30), IdleTyped, AbsentTyped DEF Init, TypeOK, KeyRow, Connection

\* What a store leaves of a cache: every entry as it was or gone, but the one
\* written.
LEMMA StoreWrites ==
    ASSUME TypeOK, NEW r \in Replicas, NEW k \in Keys, NEW is \in {"active", "revoked"},
           Store(r, k, is)
    PROVE  /\ cache' \in [Replicas -> [Keys -> Entry]] /\ nextSweep' \in [Replicas -> Nat]
           /\ \A q \in Replicas, j \in Keys :
                \/ cache'[q][j] = cache[q][j]
                \/ cache'[q][j].is = "absent"
                \/ q = r /\ j = k /\ cache'[q][j] = [is |-> is, expires |-> now + TTL]
<1> DEFINE c == Swept(r)
           new == [is |-> is, expires |-> now + TTL]
<1>1. /\ c \in [Keys -> Entry] /\ new \in Entry /\ cache[r] \in [Keys -> Entry]
      /\ \A j \in Keys : c[j] = cache[r][j] \/ c[j] = Absent
  BY SMTT(30), RevocationAssumption, AbsentTyped DEF Swept, TypeOK, Entry
<1>2. nextSweep' \in [Replicas -> Nat]
  <2>1. nextSweep[r] \in Nat /\ now + TTL \in Nat
    BY SMTT(30), RevocationAssumption DEF TypeOK
  <2> QED
    BY <2>1 DEF Store, TypeOK
<1>3. \E d \in [Keys -> Entry] :
        /\ cache' = [cache EXCEPT ![r] = d]
        /\ \A j \in Keys : d[j] = cache[r][j] \/ d[j] = Absent \/ (j = k /\ d[j] = new)
  <2> HIDE DEF c, new
  <2>1. CASE cache' = [cache EXCEPT ![r] = [c EXCEPT ![k] = new]]
    <3> DEFINE d == [c EXCEPT ![k] = new]
    <3>1. d \in [Keys -> Entry]
             /\ \A j \in Keys : d[j] = cache[r][j] \/ d[j] = Absent \/ (j = k /\ d[j] = new)
      BY <1>1
    <3>2. cache' = [cache EXCEPT ![r] = d]
      BY <2>1
    <3> HIDE DEF d
    <3> QED
      BY <3>1, <3>2
  <2>2. ASSUME NEW v \in Keys,
               cache' = [cache EXCEPT ![r] = [c EXCEPT ![v] = Absent, ![k] = new]]
        PROVE  \E d \in [Keys -> Entry] :
                 /\ cache' = [cache EXCEPT ![r] = d]
                 /\ \A j \in Keys : d[j] = cache[r][j] \/ d[j] = Absent \/ (j = k /\ d[j] = new)
    <3> DEFINE d == [c EXCEPT ![v] = Absent, ![k] = new]
    <3>1. d \in [Keys -> Entry]
             /\ \A j \in Keys : d[j] = cache[r][j] \/ d[j] = Absent \/ (j = k /\ d[j] = new)
      BY <1>1, AbsentTyped
    <3>2. cache' = [cache EXCEPT ![r] = d]
      BY <2>2
    <3> HIDE DEF d
    <3> QED
      BY <3>1, <3>2
  <2>3. Victims(c) \subseteq Keys
    BY DEF Victims, Entries
  <2> QED
    BY <2>1, <2>2, <2>3 DEF Store, c, new
<1> QED
  <2>1. PICK d \in [Keys -> Entry] :
        /\ cache' = [cache EXCEPT ![r] = d]
        /\ \A j \in Keys : d[j] = cache[r][j] \/ d[j] = Absent \/ (j = k /\ d[j] = new)
    BY <1>3
  <2> HIDE DEF new
  <2>2. cache' \in [Replicas -> [Keys -> Entry]]
    BY <2>1 DEF TypeOK
  <2>3. \A q \in Replicas : cache'[q] = IF q = r THEN d ELSE cache[q]
    BY <2>1 DEF TypeOK
  <2> QED
    BY <1>2, <2>1, <2>2, <2>3, AbsentTyped DEF new

\* What a resync publishes are keys.
LEMMA SendingTyped ==
    ASSUME NEW c \in Seq(Keys), NEW ks \in SUBSET Keys, NEW d \in AfterSending(c, ks)
    PROVE  d \in Seq(Keys)
<1>1. Cardinality(ks) \in Nat
  BY RevocationAssumption, FS_Subset, FS_CardinalityType
<1>2. PICK n \in 0..Cardinality(ks) : \E s \in [1..n -> ks] : d = c \o s
  BY DEF AfterSending
<1> PICK s \in [1..n -> ks] : d = c \o s
  BY <1>2
<1>3. n \in Nat
  BY SMTT(30), <1>1, <1>2
<1>4. s \in Seq(Keys)
  BY SMTT(30), <1>3
<1> QED
  BY SMTT(30), <1>4

LEMMA SentTyped ==
    ASSUME NEW c \in Seq(Keys), NEW k \in Keys
    PROVE  Sent(c, k) \in Seq(Keys)
BY SMTT(30) DEF Sent

LEMMA TypeNext == TypeOK /\ [Next]_vars => TypeOK'
<1> SUFFICES ASSUME TypeOK, [Next]_vars PROVE TypeOK'
  OBVIOUS
<1>1. ASSUME NEW k \in Keys, Create(k) PROVE TypeOK'
  <2>1. [st |-> "active", expires |-> now + KeyLife] \in KeyRow
    BY SMTT(30), RevocationAssumption DEF TypeOK, KeyRow
  <2> QED
    BY <1>1, <2>1 DEF Create, feedVars, TypeOK
<1>2. ASSUME NEW k \in Keys, ReapDenylist(k) PROVE TypeOK'
  BY <1>2 DEF ReapDenylist, feedVars, TypeOK
<1>3. ASSUME NEW k \in Keys, NEW by, MarkIntegrationKeyRevoked(by, k) PROVE TypeOK'
  <2>1. keys' \in [Keys -> KeyRow]
    <3> DEFINE v == [keys[k] EXCEPT !.st = "revoked"]
    <3>1. keys[k] \in KeyRow
      BY DEF TypeOK
    <3>2. v \in KeyRow
      BY <3>1 DEF KeyRow
    <3>3. keys' = [keys EXCEPT ![k] = v]
      BY <1>3 DEF MarkIntegrationKeyRevoked
    <3> HIDE DEF v
    <3> QED
      BY <3>2, <3>3 DEF TypeOK
  <2>2. denied' \in [Keys -> Nat] /\ revokes' \in Nat /\ committedAt' \in [Keys -> Nat]
    <3>1. PICK lag \in 0..ResyncSkew : lag < now /\ Denylisted(k, now - lag)
      BY <1>3 DEF MarkIntegrationKeyRevoked
    <3>2. now - lag \in Nat
      BY SMTT(30), <3>1, RevocationAssumption DEF TypeOK
    <3> QED
      BY SMTT(30), <1>3, <3>1, <3>2 DEF MarkIntegrationKeyRevoked, Denylisted, TypeOK
  <2>3. /\ wire' \in [Replicas -> Seq(Keys)] /\ chan' \in [Replicas -> Seq(Keys)]
        /\ told' \in [Replicas -> SUBSET Keys]
    <3>1. \A x \in Replicas : /\ wire[x] \in Seq(Keys) /\ chan[x] \in Seq(Keys)
                              /\ Append(wire[x], k) \in Seq(Keys) /\ Sent(chan[x], k) \in Seq(Keys)
                              /\ told[x] \cup {k} \in SUBSET Keys
      BY SMTT(30), SentTyped DEF TypeOK
    <3>2. CASE backend = "postgres"
      BY <1>3, <3>1, <3>2 DEF MarkIntegrationKeyRevoked, Notify, TypeOK
    <3>3. CASE backend # "postgres"
      <4>1. /\ chan' = [x \in Replicas |-> IF x \in by THEN Sent(chan[x], k) ELSE chan[x]]
            /\ told' = [x \in Replicas |-> IF x \in by THEN told[x] \cup {k} ELSE told[x]]
            /\ wire' = wire
        BY <1>3, <3>3 DEF MarkIntegrationKeyRevoked, Notify
      <4>2. \A x \in Replicas : chan'[x] \in Seq(Keys) /\ told'[x] \in SUBSET Keys
        BY <3>1, <4>1 DEF TypeOK
      <4> QED
        BY <4>1, <4>2 DEF TypeOK
    <3> QED
      BY <3>2, <3>3
  <2>4. hydrate' \in [Replicas -> SUBSET Keys]
    BY <1>3 DEF MarkIntegrationKeyRevoked, TypeOK
  <2> QED
    BY <1>3, <2>1, <2>2, <2>3, <2>4 DEF MarkIntegrationKeyRevoked, TypeOK
<1>4. ASSUME NEW r \in Replicas, NEW k \in Keys, Verify(r, k) PROVE TypeOK'
  <2>1. [pc |-> "lookup", key |-> k, at |-> now, revoked |-> FALSE] \in Verification
    BY DEF TypeOK, Verification
  <2>2. verify' \in [Replicas -> Verification]
    BY <1>4, <2>1 DEF Verify, TypeOK
  <2>3. acceptedAt' \in [Keys -> Nat]
    BY <1>4 DEF Verify, Accepts, TypeOK
  <2> QED
    BY <1>4, <2>2, <2>3 DEF Verify, tableVars, feedVars, TypeOK
<1>5. ASSUME NEW r \in Replicas, Lookup(r) PROVE TypeOK'
  <2> DEFINE v == [verify[r] EXCEPT !.pc = "store", !.revoked = denied[verify[r].key] # 0]
  <2>1. verify[r] \in Verification
    BY DEF TypeOK
  <2>2. v \in Verification
    BY <2>1 DEF Verification
  <2>3. verify' = [verify EXCEPT ![r] = v] \/ verify' = [verify EXCEPT ![r] = Idle]
    BY <1>5 DEF Lookup
  <2>4. verify' \in [Replicas -> Verification]
    <3> HIDE DEF v
    <3> QED
      BY <2>2, <2>3, IdleTyped DEF TypeOK
  <2> QED
    BY <1>5, <2>4 DEF Lookup, tableVars, feedVars, TypeOK
<1>6. ASSUME NEW r \in Replicas, Memoize(r) PROVE TypeOK'
  <2>1. verify[r].key \in Keys
    BY DEF TypeOK, Verification
  <2>2. cache' \in [Replicas -> [Keys -> Entry]] /\ nextSweep' \in [Replicas -> Nat]
    <3>1. \E is \in {"active", "revoked"} : Store(r, verify[r].key, is)
      BY <1>6 DEF Memoize
    <3> QED
      BY <2>1, <3>1, StoreWrites
  <2>3. acceptedAt' \in [Keys -> Nat] /\ verify' \in [Replicas -> Verification]
    BY <1>6, <2>1, IdleTyped DEF Memoize, Accepts, TypeOK
  <2> QED
    BY <1>6, <2>2, <2>3 DEF Memoize, tableVars, feedVars, TypeOK
<1>7. ASSUME NEW r \in Replicas, NEW k \in Keys, Hydrate(r, k) PROVE TypeOK'
  <2>1. cache' \in [Replicas -> [Keys -> Entry]] /\ nextSweep' \in [Replicas -> Nat]
    BY <1>7, StoreWrites DEF Hydrate
  <2> QED
    BY <1>7, <2>1 DEF Hydrate, tableVars, feedVars, TypeOK
<1>8. ASSUME NEW r \in Replicas, Listen(r) \/ Disconnect(r) \/ Restart(r) PROVE TypeOK'
  <2> DEFINE v == [feed[r] EXCEPT !.pc = "listening"]
  <2>1. feed[r] \in Connection /\ now \in Nat
    BY DEF TypeOK
  <2>2. v \in Connection /\ [pc |-> "down", since |-> now] \in Connection
    BY <2>1 DEF Connection
  <2>3. feed' \in [Replicas -> Connection]
    <3>1. feed' = [feed EXCEPT ![r] = v] \/ feed' = [feed EXCEPT ![r] = [pc |-> "down", since |-> now]]
      BY <1>8 DEF Listen, Disconnect, Restart
    <3> HIDE DEF v
    <3> QED
      BY <2>2, <3>1 DEF TypeOK
  <2>4. gap[r] \cup {k \in Keys : committedAt[k] # 0} \in SUBSET Keys
    BY DEF TypeOK
  <2>5. CASE Listen(r)
    BY <2>3, <2>5 DEF Listen, tableVars, TypeOK
  <2>6. CASE Disconnect(r)
    BY SMTT(30), <2>3, <2>4, <2>6 DEF Disconnect, tableVars, TypeOK
  <2>7. CASE Restart(r)
    <3>1. [k \in Keys |-> Absent] \in [Keys -> Entry]
      BY AbsentTyped
    <3> QED
      BY SMTT(30), <2>3, <2>7, <3>1, IdleTyped DEF Restart, tableVars, TypeOK
  <2> QED
    BY <1>8, <2>5, <2>6, <2>7
<1>9. ASSUME NEW r \in Replicas, Resync(r) PROVE TypeOK'
  <2> DEFINE v == [feed[r] EXCEPT !.pc = "relaying"]
  <2>1. v \in Connection /\ feed' = [feed EXCEPT ![r] = v]
    BY <1>9 DEF TypeOK, Connection, Resync
  <2>2. feed' \in [Replicas -> Connection]
    <3> HIDE DEF v
    <3> QED
      BY <2>1 DEF TypeOK
  <2>3. Missed(r) \in SUBSET Keys /\ chan[r] \in Seq(Keys)
    BY DEF Missed, TypeOK
  <2>4. chan' \in [Replicas -> Seq(Keys)]
    BY <1>9, <2>3, SendingTyped, ZenonT(30) DEF Resync, TypeOK
  <2>5. told' \in [Replicas -> SUBSET Keys]
    BY <1>9, <2>3 DEF Resync, TypeOK
  <2> QED
    BY <1>9, <2>2, <2>4, <2>5 DEF Resync, tableVars, TypeOK
<1>10. ASSUME NEW r \in Replicas, Relay(r) PROVE TypeOK'
  <2>1. wire[r] \in Seq(Keys) /\ wire[r] # <<>> /\ chan[r] \in Seq(Keys)
    BY <1>10 DEF Relay, TypeOK
  <2>2. Head(wire[r]) \in Keys /\ Tail(wire[r]) \in Seq(Keys)
    BY SMTT(30), <2>1
  <2>3. Sent(chan[r], Head(wire[r])) \in Seq(Keys)
    BY <2>1, <2>2, SentTyped
  <2> QED
    BY <1>10, <2>2, <2>3 DEF Relay, tableVars, TypeOK
<1>11. ASSUME NEW r \in Replicas, Follow(r) PROVE TypeOK'
  <2>1. chan[r] \in Seq(Keys) /\ chan[r] # <<>>
    BY <1>11 DEF Follow, TypeOK
  <2>2. Head(chan[r]) \in Keys /\ Tail(chan[r]) \in Seq(Keys)
    BY SMTT(30), <2>1
  <2>3. cache' \in [Replicas -> [Keys -> Entry]] /\ nextSweep' \in [Replicas -> Nat]
    BY <1>11, <2>2, StoreWrites DEF Follow
  <2> QED
    BY <1>11, <2>2, <2>3 DEF Follow, tableVars, TypeOK
<1>12. CASE Tick
  BY SMTT(30), <1>12 DEF Tick, feedVars, TypeOK
<1>13. CASE UNCHANGED vars
  BY <1>13 DEF vars, TypeOK
<1> QED
  BY <1>1, <1>2, <1>3, <1>4, <1>5, <1>6, <1>7, <1>8, <1>9, <1>10, <1>11, <1>12, <1>13
     DEF Next, ReplicaStep

-----------------------------------------------------------------------------
(* Verifications, rows and entries.                                        *)

\* The step that revokes: the row, the history and the connections.
LEMMA RevokeWrites ==
    ASSUME TypeOK, NEW k \in Keys, NEW by, MarkIntegrationKeyRevoked(by, k), 0 < now
    PROVE  /\ now' = now /\ verify' = verify /\ cache' = cache /\ acceptedAt' = acceptedAt
           /\ \A j \in Keys : keys'[j].expires = keys[j].expires
           /\ \A j \in Keys : keys'[j].st = "none" <=> keys[j].st = "none"
           /\ keys[k].st # "none"
           /\ \A j \in Keys \ {k} : denied'[j] = denied[j] /\ committedAt'[j] = committedAt[j]
           /\ denied'[k] # 0 /\ committedAt'[k] # 0
           /\ denied[k] # 0 => denied'[k] = denied[k]
           /\ denied[k] = 0 => denied'[k] + ResyncSkew >= now
           /\ committedAt[k] # 0 => committedAt'[k] = committedAt[k]
           /\ committedAt[k] = 0 => committedAt'[k] = now
<1>1. PICK lag \in 0..ResyncSkew : lag < now /\ Denylisted(k, now - lag)
  BY DEF MarkIntegrationKeyRevoked
<1>2. now - lag \in Nat \ {0} /\ now - lag + ResyncSkew >= now /\ now \in Nat
  BY SMTT(30), <1>1, RevocationAssumption DEF TypeOK
<1>3. denied' = [denied EXCEPT ![k] = IF @ = 0 THEN now - lag ELSE @]
  BY <1>1 DEF Denylisted
<1>4. /\ denied'[k] = IF denied[k] = 0 THEN now - lag ELSE denied[k]
      /\ \A j \in Keys \ {k} : denied'[j] = denied[j]
  BY <1>3 DEF TypeOK
<1>5. /\ committedAt'[k] = IF committedAt[k] = 0 THEN now ELSE committedAt[k]
      /\ \A j \in Keys \ {k} : committedAt'[j] = committedAt[j]
  BY DEF MarkIntegrationKeyRevoked, TypeOK
<1>6. \A j \in Keys : keys'[j].expires = keys[j].expires
                      /\ (keys'[j].st = "none" <=> keys[j].st = "none")
  BY DEF MarkIntegrationKeyRevoked, TypeOK, KeyRow
<1>7. /\ now' = now /\ verify' = verify /\ cache' = cache /\ acceptedAt' = acceptedAt
      /\ keys[k].st # "none"
  BY DEF MarkIntegrationKeyRevoked
<1> QED
  BY SMTT(30), <1>2, <1>4, <1>5, <1>6, <1>7

\* The properties of the tables, the verifications and the caches.
Bounded ==
    VerificationsTimely /\ RowsKept /\ EntriesBounded /\ AcceptedSince /\ StalenessBounded

LEMMA RevokeBounded ==
    ASSUME TypeOK, TypeOK', 0 < now, Bounded, NEW k \in Keys, NEW by,
           MarkIntegrationKeyRevoked(by, k)
    PROVE  Bounded'
<1>1. VerificationsTimely'
  <2> SUFFICES ASSUME NEW r \in Replicas, verify'[r].pc # "idle"
               PROVE  /\ verify'[r].at <= now' /\ now' <= verify'[r].at + Stall
                      /\ keys'[verify'[r].key].st # "none"
                      /\ verify'[r].at + Stall <= keys'[verify'[r].key].expires + Grace
                      /\ verify'[r].pc = "store" /\ ~verify'[r].revoked
                           /\ committedAt'[verify'[r].key] # 0
                           => verify'[r].at <= committedAt'[verify'[r].key]
    BY DEF VerificationsTimely
  <2>1. verify[r].key \in Keys /\ verify'[r] = verify[r] /\ now' = now
    BY RevokeWrites DEF TypeOK, Verification
  <2> QED
    BY SMTT(30), <2>1, RevokeWrites DEF Bounded, VerificationsTimely
<1>2. RowsKept'
  <2> SUFFICES ASSUME NEW j \in Keys
               PROVE  /\ denied'[j] # 0 => committedAt'[j] # 0
                      /\ committedAt'[j] # 0 =>
                           /\ keys'[j].st # "none" /\ committedAt'[j] <= now'
                           /\ denied'[j] = 0 => keys'[j].expires + Grace < now'
    BY DEF RowsKept
  <2>1. now \in Nat
    BY DEF TypeOK
  <2> QED
    BY SMTT(30), <2>1, RevokeWrites DEF Bounded, RowsKept
<1>3. EntriesBounded'
  <2> SUFFICES ASSUME NEW q \in Replicas, NEW j \in Keys, cache'[q][j].is = "active"
               PROVE  /\ cache'[q][j].expires <= now' + TTL
                      /\ committedAt'[j] # 0
                           => cache'[q][j].expires <= committedAt'[j] + TTL + Stall
    BY DEF EntriesBounded
  <2>1. now \in Nat /\ cache[q][j].expires \in Nat /\ cache'[q][j] = cache[q][j]
    BY RevokeWrites, ZenonT(30) DEF TypeOK, Entry
  <2>2. /\ cache[q][j].expires <= now + TTL
        /\ committedAt[j] # 0 => cache[q][j].expires <= committedAt[j] + TTL + Stall
    BY <2>1 DEF Bounded, EntriesBounded
  <2>3. /\ committedAt[j] # 0 => committedAt'[j] = committedAt[j]
        /\ committedAt'[j] # 0 /\ committedAt[j] = 0 => committedAt'[j] = now
        /\ now' = now
    BY RevokeWrites
  <2> QED
    BY SMTT(30), <2>1, <2>2, <2>3, RevocationAssumption
<1>4. StalenessBounded'
  <2> SUFFICES ASSUME NEW j \in Keys, committedAt'[j] # 0
               PROVE  acceptedAt'[j] <= committedAt'[j] + TTL + Stall
    BY DEF StalenessBounded
  <2>1. now \in Nat /\ committedAt[j] \in Nat /\ acceptedAt[j] \in Nat
    BY DEF TypeOK
  <2>2. CASE committedAt[j] = 0
    BY SMTT(30), <2>1, <2>2, RevokeWrites, RevocationAssumption DEF Bounded, AcceptedSince
  <2>3. CASE committedAt[j] # 0
    BY <2>3, RevokeWrites DEF Bounded, StalenessBounded
  <2> QED
    BY <2>2, <2>3
<1>5. AcceptedSince'
  BY RevokeWrites DEF Bounded, AcceptedSince
<1> QED
  BY <1>1, <1>2, <1>3, <1>4, <1>5 DEF Bounded

\* A step that moves neither the tables nor a verification, and at most drops
\* entries or writes revoked ones.
LEMMA DropsBounded ==
    ASSUME TypeOK, TypeOK', Bounded, UNCHANGED <<now, keys, denied, committedAt, acceptedAt>>,
           \A r \in Replicas : verify'[r] = verify[r] \/ verify'[r].pc = "idle",
           \A r \in Replicas, k \in Keys :
             cache'[r][k] = cache[r][k] \/ cache'[r][k].is # "active"
    PROVE  Bounded'
<1>1. VerificationsTimely'
  BY DEF Bounded, VerificationsTimely
<1>2. EntriesBounded'
  BY DEF Bounded, EntriesBounded
<1> QED
  BY <1>1, <1>2 DEF Bounded, RowsKept, AcceptedSince, StalenessBounded

\* An acceptance now, when now is within the bound.
LEMMA AcceptsBounded ==
    ASSUME TypeOK, Bounded, NEW k \in Keys, Accepts(k), committedAt' = committedAt,
           committedAt[k] # 0 => now <= committedAt[k] + TTL + Stall
    PROVE  AcceptedSince' /\ StalenessBounded'
<1>1. \A j \in Keys : acceptedAt'[j] = IF j = k /\ committedAt[k] # 0 THEN now ELSE acceptedAt[j]
  BY DEF Accepts, TypeOK
<1> QED
  BY <1>1 DEF Bounded, AcceptedSince, StalenessBounded

LEMMA VerifyBounded ==
    ASSUME TypeOK, TypeOK', Bounded, NEW r \in Replicas, NEW k \in Keys, Verify(r, k)
    PROVE  Bounded'
<1>1. UNCHANGED <<now, keys, denied, committedAt, cache>>
  BY DEF Verify, tableVars
<1>2. RowsKept' /\ EntriesBounded'
  BY <1>1 DEF Bounded, RowsKept, EntriesBounded
<1>3. CASE verify' = verify /\ Fresh(cache[r][k]) /\ cache[r][k].is = "active" /\ Accepts(k)
  <2>1. VerificationsTimely'
    BY <1>1, <1>3 DEF Bounded, VerificationsTimely
  <2>2. committedAt[k] # 0 => now <= committedAt[k] + TTL + Stall
    <3>1. now \in Nat /\ cache[r][k].expires \in Nat /\ committedAt[k] \in Nat
      BY SMTT(30) DEF TypeOK, Entry
    <3> QED
      BY SMTT(30), <1>3, <3>1, RevocationAssumption DEF Fresh, Bounded, EntriesBounded
  <2>3. AcceptedSince' /\ StalenessBounded'
    BY <1>1, <1>3, <2>2, AcceptsBounded
  <2> QED
    BY <1>2, <2>1, <2>3 DEF Bounded
<1>4. CASE acceptedAt' = acceptedAt
           /\ verify' = [verify EXCEPT ![r] = [pc |-> "lookup", key |-> k, at |-> now,
                                               revoked |-> FALSE]]
  <2>1. VerificationsTimely'
    <3>1. /\ \A q \in Replicas \ {r} : verify'[q] = verify[q]
          /\ verify'[r] = [pc |-> "lookup", key |-> k, at |-> now, revoked |-> FALSE]
      BY <1>4 DEF TypeOK
    <3>2. now <= now /\ now <= now + Stall
      BY SMTT(30), RevocationAssumption DEF TypeOK
    <3> QED
      BY SMTT(30), <1>1, <3>1, <3>2 DEF Verify, Presentable, Bounded, VerificationsTimely
  <2> QED
    BY <1>1, <1>2, <1>4, <2>1 DEF Bounded, AcceptedSince, StalenessBounded
<1> QED
  BY <1>3, <1>4 DEF Verify

\* A lookup that finds no row began before the commit: the row of a revoked
\* key is reaped only when no verification of its token is in flight.
LEMMA LookupBounded ==
    ASSUME TypeOK, TypeOK', Bounded, NEW r \in Replicas, Lookup(r)
    PROVE  Bounded'
<1>1. UNCHANGED <<now, keys, denied, committedAt, acceptedAt, cache>>
  BY DEF Lookup, tableVars
<1>2. CASE verify' = [verify EXCEPT ![r] = Idle]
  BY <1>1, <1>2, DropsBounded, IdleTyped DEF TypeOK
<1>3. CASE verify' = [verify EXCEPT ![r].pc = "store", ![r].revoked = denied[verify[r].key] # 0]
  <2> DEFINE k == verify[r].key
  <2>1. verify[r] \in Verification /\ verify[r].pc = "lookup" /\ k \in Keys /\ now \in Nat
    BY DEF Lookup, TypeOK, Verification
  <2>2. /\ \A q \in Replicas \ {r} : verify'[q] = verify[q]
        /\ verify'[r].pc = "store" /\ verify'[r].key = k /\ verify'[r].at = verify[r].at
        /\ verify'[r].revoked = (denied[k] # 0)
    BY <1>3, <2>1 DEF TypeOK, Verification
  <2>3. now <= verify[r].at + Stall /\ verify[r].at + Stall <= keys[k].expires + Grace
        /\ verify[r].at <= now /\ keys[k].st # "none"
    BY <2>1 DEF Bounded, VerificationsTimely
  <2>4. keys[k].expires \in Nat /\ verify[r].at \in Nat
    BY <2>1 DEF TypeOK, KeyRow, Verification
  <2>5. committedAt[k] # 0 => denied[k] # 0
    BY SMTT(30), <2>1, <2>3, <2>4, RevocationAssumption DEF Bounded, RowsKept
  <2>6. VerificationsTimely'
    <3> HIDE DEF k
    <3> QED
      BY <1>1, <2>2, <2>3, <2>5 DEF Bounded, VerificationsTimely
  <2> QED
    BY <1>1, <2>6 DEF Bounded, RowsKept, EntriesBounded, AcceptedSince, StalenessBounded
<1> QED
  BY <1>2, <1>3 DEF Lookup

LEMMA MemoizeBounded ==
    ASSUME TypeOK, TypeOK', Bounded, NEW r \in Replicas, Memoize(r)
    PROVE  Bounded'
<1>1. UNCHANGED <<now, keys, denied, committedAt>>
  BY DEF Memoize, tableVars
<1>2. \A q \in Replicas : verify'[q] = verify[q] \/ verify'[q].pc = "idle"
  BY IdleTyped DEF Memoize, TypeOK
<1>3. PICK k \in Keys : k = verify[r].key
  BY DEF TypeOK, Verification
<1>4. CASE verify[r].revoked
  <2>1. Store(r, k, "revoked") /\ acceptedAt' = acceptedAt
    BY <1>3, <1>4 DEF Memoize
  <2>2. \A q \in Replicas, j \in Keys :
          cache'[q][j] = cache[q][j] \/ cache'[q][j].is # "active"
    BY SMTT(30), <2>1, StoreWrites
  <2> QED
    BY <1>1, <1>2, <2>1, <2>2, DropsBounded
<1>5. CASE ~verify[r].revoked
  <2>1. Store(r, k, "active") /\ Accepts(k)
    BY <1>3, <1>5 DEF Memoize
  <2>2. now \in Nat /\ committedAt[k] \in Nat /\ verify[r].at \in Nat
    BY DEF TypeOK, Verification
  <2>3. committedAt[k] # 0 => now <= committedAt[k] + Stall
    <3>1. now <= verify[r].at + Stall
          /\ (committedAt[k] # 0 => verify[r].at <= committedAt[k])
      BY <1>3, <1>5 DEF Memoize, Bounded, VerificationsTimely
    <3> QED
      BY SMTT(30), <2>2, <3>1, RevocationAssumption
  <2>4. AcceptedSince' /\ StalenessBounded'
    <3>1. committedAt[k] # 0 => now <= committedAt[k] + TTL + Stall
      BY SMTT(30), <2>2, <2>3, RevocationAssumption
    <3> QED
      BY <1>1, <2>1, <3>1, AcceptsBounded
  <2>5. EntriesBounded'
    <3>1. \A q \in Replicas, j \in Keys :
            \/ cache'[q][j] = cache[q][j]
            \/ cache'[q][j].is = "absent"
            \/ q = r /\ j = k /\ cache'[q][j] = [is |-> "active", expires |-> now + TTL]
      BY SMTT(30), <2>1, StoreWrites
    <3>2. now + TTL <= now + TTL
          /\ (committedAt[k] # 0 => now + TTL <= committedAt[k] + TTL + Stall)
      BY SMTT(30), <2>2, <2>3, RevocationAssumption
    <3> QED
      BY SMTT(30), <1>1, <3>1, <3>2 DEF Bounded, EntriesBounded
  <2>6. VerificationsTimely' /\ RowsKept'
    BY <1>1, <1>2 DEF Bounded, VerificationsTimely, RowsKept
  <2> QED
    BY <2>4, <2>5, <2>6 DEF Bounded
<1> QED
  BY <1>4, <1>5

\* A key is minted once, before anything knows of it.
LEMMA CreateBounded ==
    ASSUME TypeOK, TypeOK', Bounded, NEW k \in Keys, Create(k)
    PROVE  Bounded'
<1>1. /\ UNCHANGED <<now, denied, committedAt, acceptedAt, cache, verify>>
      /\ keys[k].st = "none" /\ \A j \in Keys \ {k} : keys'[j] = keys[j]
  BY DEF Create, TypeOK
<1>2. VerificationsTimely'
  <2> SUFFICES ASSUME NEW r \in Replicas, verify[r].pc # "idle"
               PROVE  keys'[verify[r].key] = keys[verify[r].key]
    BY <1>1 DEF Bounded, VerificationsTimely
  <2>1. verify[r].key \in Keys /\ keys[verify[r].key].st # "none"
    BY DEF TypeOK, Verification, Bounded, VerificationsTimely
  <2> QED
    BY <1>1, <2>1
<1>3. RowsKept'
  BY <1>1 DEF Bounded, RowsKept
<1> QED
  BY <1>1, <1>2, <1>3 DEF Bounded, EntriesBounded, AcceptedSince, StalenessBounded

LEMMA ReapBounded ==
    ASSUME TypeOK, TypeOK', Bounded, NEW k \in Keys, ReapDenylist(k)
    PROVE  Bounded'
<1>1. /\ UNCHANGED <<now, keys, committedAt, acceptedAt, cache, verify>>
      /\ keys[k].expires + Grace < now /\ denied'[k] = 0
      /\ \A j \in Keys \ {k} : denied'[j] = denied[j]
  BY DEF ReapDenylist, Reapable, TypeOK
<1>2. RowsKept'
  BY <1>1 DEF Bounded, RowsKept
<1> QED
  BY <1>1, <1>2 DEF Bounded, VerificationsTimely, EntriesBounded, AcceptedSince, StalenessBounded

\* The clock waits for the verifications in flight.
LEMMA TickBounded ==
    ASSUME TypeOK, TypeOK', Bounded, Tick
    PROVE  Bounded'
<1>1. /\ UNCHANGED <<keys, denied, committedAt, acceptedAt, cache, verify>>
      /\ now' = now + 1 /\ now \in Nat
  BY DEF Tick, TypeOK
<1>2. VerificationsTimely'
  <2> SUFFICES ASSUME NEW r \in Replicas, verify[r].pc # "idle"
               PROVE  verify[r].at <= now + 1 /\ now + 1 <= verify[r].at + Stall
    BY <1>1 DEF Bounded, VerificationsTimely
  <2>1. verify[r].at \in Nat /\ verify[r].at <= now /\ now < verify[r].at + Stall
    BY DEF Tick, Prompt, TypeOK, Verification, Bounded, VerificationsTimely
  <2> QED
    BY SMTT(30), <1>1, <2>1, RevocationAssumption
<1>3. RowsKept'
  <2> SUFFICES ASSUME NEW k \in Keys, committedAt[k] # 0
               PROVE  /\ keys[k].st # "none" /\ committedAt[k] <= now + 1
                      /\ denied[k] = 0 => keys[k].expires + Grace < now + 1
    BY <1>1 DEF Bounded, RowsKept
  <2>1. committedAt[k] \in Nat /\ keys[k].expires \in Nat
    BY DEF TypeOK, KeyRow
  <2> QED
    BY SMTT(30), <1>1, <2>1, RevocationAssumption DEF Bounded, RowsKept
<1>4. EntriesBounded'
  <2> SUFFICES ASSUME NEW r \in Replicas, NEW k \in Keys, cache[r][k].is = "active"
               PROVE  /\ cache[r][k].expires <= now + 1 + TTL
                      /\ committedAt[k] # 0
                           => cache[r][k].expires <= committedAt[k] + TTL + Stall
    BY <1>1 DEF EntriesBounded
  <2>1. cache[r][k].expires \in Nat
    BY SMTT(30) DEF TypeOK, Entry
  <2> QED
    BY SMTT(30), <1>1, <2>1, RevocationAssumption DEF Bounded, EntriesBounded
<1> QED
  BY <1>1, <1>2, <1>3, <1>4 DEF Bounded, AcceptedSince, StalenessBounded

LEMMA NextBounded == TypeOK /\ 0 < now /\ Bounded /\ [Next]_vars => Bounded'
<1> SUFFICES ASSUME TypeOK, 0 < now, Bounded, [Next]_vars PROVE Bounded'
  OBVIOUS
<1>1. TypeOK'
  BY TypeNext
<1>2. ASSUME NEW r \in Replicas, NEW k \in Keys, Hydrate(r, k) PROVE Bounded'
  <2>1. UNCHANGED <<now, keys, denied, committedAt, acceptedAt, verify>>
    BY <1>2 DEF Hydrate, tableVars
  <2>2. \A q \in Replicas, j \in Keys :
          cache'[q][j] = cache[q][j] \/ cache'[q][j].is # "active"
    BY SMTT(30), <1>2, StoreWrites DEF Hydrate
  <2> QED
    BY <1>1, <2>1, <2>2, DropsBounded
<1>3. ASSUME NEW r \in Replicas, Follow(r) PROVE Bounded'
  <2>1. UNCHANGED <<now, keys, denied, committedAt, acceptedAt, verify>>
    BY <1>3 DEF Follow, tableVars
  <2>2. Head(chan[r]) \in Keys
    BY SMTT(30), <1>3 DEF Follow, TypeOK
  <2>3. \A q \in Replicas, j \in Keys :
          cache'[q][j] = cache[q][j] \/ cache'[q][j].is # "active"
    BY SMTT(30), <1>3, <2>2, StoreWrites DEF Follow
  <2> QED
    BY <1>1, <2>1, <2>3, DropsBounded
<1>4. ASSUME NEW r \in Replicas, Restart(r) PROVE Bounded'
  <2>1. UNCHANGED <<now, keys, denied, committedAt, acceptedAt>>
    BY <1>4 DEF Restart, tableVars
  <2>2. \A q \in Replicas : verify'[q] = verify[q] \/ verify'[q].pc = "idle"
    BY <1>4, IdleTyped DEF Restart, TypeOK
  <2>3. \A q \in Replicas, j \in Keys :
          cache'[q][j] = cache[q][j] \/ cache'[q][j].is # "active"
    BY <1>4, AbsentTyped DEF Restart, TypeOK
  <2> QED
    BY <1>1, <2>1, <2>2, <2>3, DropsBounded
<1>5. ASSUME NEW r \in Replicas, Listen(r) \/ Resync(r) \/ Relay(r) \/ Disconnect(r) PROVE Bounded'
  <2>1. UNCHANGED <<now, keys, denied, committedAt, acceptedAt, verify, cache>>
    BY <1>5 DEF Listen, Resync, Relay, Disconnect, tableVars
  <2> QED
    BY <1>1, <2>1, DropsBounded
<1>6. CASE UNCHANGED vars
  BY <1>1, <1>6, DropsBounded DEF vars
<1> QED
  BY <1>1, <1>2, <1>3, <1>4, <1>5, <1>6, VerifyBounded, LookupBounded, MemoizeBounded,
     CreateBounded, ReapBounded, RevokeBounded, TickBounded DEF Next, ReplicaStep

-----------------------------------------------------------------------------
(* The feed.                                                               *)

\* What holds of one replica's connection, and of its feed and one key.
Connected(r) == feed[r].since <= now /\ (backend = "sqlite" => feed[r].pc = "down")

Held(r, k) ==
    committedAt[k] # 0 /\ denied[k] # 0 =>
        \/ k \in told[r] \cup gap[r]
        \/ feed[r].pc # "relaying" /\ denied[k] + ResyncSkew >= feed[r].since
        \/ /\ feed[r].pc = "relaying" /\ denied[k] + ResyncSkew >= now
           /\ \E i \in 1..Len(wire[r]) : wire[r][i] = k

LEMMA FeedByPart ==
    FeedHolds <=> \A r \in Replicas : Connected(r) /\ \A k \in Keys : Held(r, k)
BY DEF FeedHolds, Connected, Held

\* A revocation reaches the connections that listen; a feed that is down, or
\* has yet to resync, finds the row.
LEMMA RevokeFeed ==
    ASSUME TypeOK, TypeOK', 0 < now, RowsKept, FeedHolds, NEW k \in Keys, NEW by,
           MarkIntegrationKeyRevoked(by, k)
    PROVE  FeedHolds'
<1>1. UNCHANGED <<backend, now, feed, gap>> /\ now \in Nat
  BY DEF MarkIntegrationKeyRevoked, TypeOK
<1> SUFFICES ASSUME NEW r \in Replicas, NEW j \in Keys
             PROVE  Held(r, j)'
  BY <1>1 DEF FeedHolds, Held
<1>2. Held(r, j) /\ Connected(r) /\ feed[r].since \in Nat
  BY FeedByPart DEF TypeOK, Connection
<1>3. told[r] \subseteq told'[r]
  <2>1. \/ told' = told
        \/ told' = [x \in Replicas |-> IF x \in by THEN told[x] \cup {k} ELSE told[x]]
    BY DEF MarkIntegrationKeyRevoked, Notify
  <2> QED
    BY <2>1
<1>4. /\ \A i \in 1..Len(wire[r]) : i \in 1..Len(wire'[r]) /\ wire'[r][i] = wire[r][i]
      /\ feed[r].pc = "relaying" => \E i \in 1..Len(wire'[r]) : wire'[r][i] = k
  <2>1. wire[r] \in Seq(Keys)
    BY DEF TypeOK
  <2>2. CASE backend = "postgres" /\ feed[r].pc # "down"
    <3>1. wire'[r] = Append(wire[r], k)
      BY <2>2 DEF MarkIntegrationKeyRevoked, Notify
    <3>2. /\ Len(wire'[r]) = Len(wire[r]) + 1 /\ Len(wire[r]) \in Nat
          /\ \A i \in 1..Len(wire[r]) : wire'[r][i] = wire[r][i]
          /\ wire'[r][Len(wire[r]) + 1] = k
      BY SMTT(30), <2>1, <3>1
    <3> QED
      BY SMTT(30), <3>2
  <2>3. CASE ~(backend = "postgres" /\ feed[r].pc # "down")
    <3>1. wire'[r] = wire[r] /\ feed[r].pc = "down"
      BY <1>2, <2>3 DEF MarkIntegrationKeyRevoked, Notify, TypeOK, Connected
    <3> QED
      BY <3>1
  <2> QED
    BY <2>2, <2>3
<1>5. CASE committedAt[j] # 0 /\ denied[j] # 0
  <2>1. denied'[j] = denied[j] /\ committedAt'[j] # 0
    BY <1>5, RevokeWrites
  <2> QED
    BY <1>1, <1>2, <1>3, <1>4, <1>5, <2>1 DEF Held
<1>6. CASE j = k /\ denied[k] = 0
  <2>1. denied'[k] + ResyncSkew >= now /\ denied'[k] \in Nat
    BY <1>6, RevokeWrites DEF TypeOK
  <2> QED
    BY SMTT(30), <1>1, <1>2, <1>4, <1>6, <2>1, RevocationAssumption DEF Held, Connected
<1>7. CASE j # k
  BY SMTT(30), <1>1, <1>2, <1>3, <1>4, <1>7, RevokeWrites DEF Held
<1>8. CASE j = k /\ denied[k] # 0 /\ committedAt[k] = 0
  BY <1>8 DEF RowsKept
<1> QED
  BY SMTT(30), <1>5, <1>6, <1>7, <1>8

\* The notification at the head is reported, the others wait as before.
LEMMA RelayFeed ==
    ASSUME TypeOK, TypeOK', FeedHolds, NEW r \in Replicas, Relay(r)
    PROVE  FeedHolds'
<1>1. /\ UNCHANGED <<backend, now, denied, committedAt, feed, gap>>
      /\ wire[r] \in Seq(Keys) /\ wire[r] # <<>>
      /\ wire'[r] = Tail(wire[r]) /\ told'[r] = told[r] \cup {Head(wire[r])}
      /\ \A q \in Replicas \ {r} : wire'[q] = wire[q] /\ told'[q] = told[q]
  BY SMTT(30) DEF Relay, tableVars, TypeOK
<1>2. ASSUME NEW k \in Keys, \E i \in 1..Len(wire[r]) : wire[r][i] = k
      PROVE  k \in told'[r] \/ \E i \in 1..Len(wire'[r]) : wire'[r][i] = k
  <2>1. PICK i \in 1..Len(wire[r]) : wire[r][i] = k
    BY <1>2
  <2>2. CASE i = 1
    BY SMTT(30), <1>1, <2>1, <2>2
  <2>3. CASE i # 1
    <3>1. i - 1 \in 1..Len(wire'[r]) /\ wire'[r][i - 1] = wire[r][i]
      BY SMTT(30), <1>1, <2>1, <2>3
    <3> QED
      BY <2>1, <3>1
  <2> QED
    BY <2>2, <2>3
<1>3. ASSUME NEW q \in Replicas, NEW k \in Keys PROVE Held(q, k)'
  <2>1. Held(q, k)
    BY FeedByPart
  <2>2. CASE q = r
    BY <1>1, <1>2, <2>1, <2>2 DEF Held
  <2>3. CASE q # r
    BY <1>1, <2>1, <2>3 DEF Held
  <2> QED
    BY <2>2, <2>3
<1>4. ASSUME NEW q \in Replicas PROVE Connected(q)'
  BY <1>1, FeedByPart DEF Connected
<1> QED
  BY <1>3, <1>4 DEF FeedHolds, Connected, Held

\* A connection opens, resyncs or fails, or its process restarts.
LEMMA ConnectionFeed ==
    ASSUME TypeOK, TypeOK', FeedHolds, NEW r \in Replicas,
           Listen(r) \/ Resync(r) \/ Disconnect(r) \/ Restart(r)
    PROVE  FeedHolds'
<1>1. UNCHANGED <<backend, now, denied, committedAt>>
  BY DEF Listen, Resync, Disconnect, Restart, tableVars
<1>2. \A q \in Replicas \ {r} :
        feed'[q] = feed[q] /\ wire'[q] = wire[q] /\ told'[q] = told[q] /\ gap'[q] = gap[q]
  <2>1. CASE Listen(r)
    BY <2>1 DEF Listen, TypeOK
  <2>2. CASE Resync(r)
    BY ZenonT(60), <2>2 DEF Resync, TypeOK
  <2>3. CASE Disconnect(r)
    BY ZenonT(60), <2>3 DEF Disconnect, TypeOK
  <2>4. CASE Restart(r)
    BY SMTT(30), <2>4 DEF Restart, TypeOK, tableVars
  <2> QED
    BY <2>1, <2>2, <2>3, <2>4
<1>3. \A q \in Replicas : Connected(q) /\ \A k \in Keys : Held(q, k)
  BY FeedByPart
<1>4. now \in Nat /\ feed[r] \in Connection
  BY DEF TypeOK
<1>5. CASE Listen(r)
  <2>1. /\ feed'[r].pc = "listening" /\ feed'[r].since = feed[r].since /\ feed[r].pc = "down"
        /\ told' = told /\ gap' = gap /\ backend = "postgres"
    BY <1>4, <1>5 DEF Listen, TypeOK, Connection
  <2>2. Connected(r)' /\ \A k \in Keys : Held(r, k)'
    BY <1>1, <1>3, <2>1 DEF Connected, Held
  <2> QED
    BY SMTT(30), <1>1, <1>2, <1>3, <2>2 DEF FeedHolds, Connected, Held
<1>6. CASE Resync(r)
  <2>1. /\ feed'[r].pc = "relaying" /\ feed'[r].since = feed[r].since /\ feed[r].pc = "listening"
        /\ told'[r] = told[r] \cup Missed(r) /\ gap' = gap
    BY SMTT(30), <1>4, <1>6 DEF Resync, TypeOK, Connection
  <2>2. Connected(r)' /\ \A k \in Keys : Held(r, k)'
    BY <1>1, <1>3, <2>1 DEF Connected, Held, Missed
  <2> QED
    BY SMTT(30), <1>1, <1>2, <1>3, <2>2 DEF FeedHolds, Connected, Held
<1>7. CASE Disconnect(r)
  <2>1. /\ feed'[r].pc = "down" /\ feed'[r].since = now /\ feed[r].pc # "down" /\ told' = told
        /\ gap[r] \subseteq gap'[r]
        /\ feed[r].pc = "listening" => {k \in Keys : committedAt[k] # 0} \subseteq gap'[r]
    BY <1>7 DEF Disconnect, TypeOK
  <2>2. feed[r].pc = "listening" \/ feed[r].pc = "relaying"
    BY <1>4, <2>1 DEF Connection
  <2>3. Connected(r)' /\ \A k \in Keys : Held(r, k)'
    BY SMTT(30), <1>1, <1>3, <1>4, <2>1, <2>2 DEF Connected, Held
  <2> QED
    BY SMTT(30), <1>1, <1>2, <1>3, <2>3 DEF FeedHolds, Connected, Held
<1>8. CASE Restart(r)
  <2>1. /\ feed'[r].pc = "down" /\ feed'[r].since = now
        /\ gap'[r] = {k \in Keys : committedAt[k] # 0}
    BY SMTT(30), <1>8 DEF Restart, TypeOK
  <2>2. Connected(r)' /\ \A k \in Keys : Held(r, k)'
    BY SMTT(30), <1>1, <1>4, <2>1 DEF Connected, Held
  <2> QED
    BY SMTT(30), <1>1, <1>2, <1>3, <2>2 DEF FeedHolds, Connected, Held
<1> QED
  BY <1>5, <1>6, <1>7, <1>8

\* The clock moves when no notification waits: what was revoked is reported.
LEMMA TickFeed ==
    ASSUME TypeOK, TypeOK', FeedHolds, Tick
    PROVE  FeedHolds'
<1>1. UNCHANGED <<backend, denied, committedAt, feed, wire, told, gap>>
      /\ now' = now + 1 /\ now \in Nat
  BY DEF Tick, feedVars, TypeOK
<1>2. ASSUME NEW r \in Replicas, NEW k \in Keys PROVE Held(r, k)'
  <2>1. Held(r, k) /\ wire[r] = <<>>
    BY FeedByPart DEF Tick, Prompt
  <2> QED
    BY SMTT(30), <1>1, <2>1 DEF Held
<1>3. ASSUME NEW r \in Replicas PROVE Connected(r)'
  <2>1. Connected(r) /\ feed[r].since \in Nat
    BY FeedByPart DEF TypeOK, Connection
  <2> QED
    BY SMTT(30), <1>1, <2>1 DEF Connected
<1> QED
  BY <1>2, <1>3 DEF FeedHolds, Connected, Held

LEMMA NextFeed ==
    TypeOK /\ 0 < now /\ RowsKept /\ FeedHolds /\ [Next]_vars => FeedHolds'
<1> SUFFICES ASSUME TypeOK, 0 < now, RowsKept, FeedHolds, [Next]_vars PROVE FeedHolds'
  OBVIOUS
<1>1. TypeOK'
  BY TypeNext
<1>2. CASE UNCHANGED <<backend, now, denied, committedAt, feed, wire, told, gap>>
  BY <1>2 DEF FeedHolds
<1>3. ASSUME NEW k \in Keys, ReapDenylist(k) PROVE FeedHolds'
  <2>1. /\ UNCHANGED <<backend, now, committedAt, feed, wire, told, gap>>
        /\ denied'[k] = 0 /\ \A j \in Keys \ {k} : denied'[j] = denied[j]
    BY <1>3 DEF ReapDenylist, feedVars, TypeOK
  <2> QED
    BY ZenonT(60), <2>1 DEF FeedHolds
<1>4. ASSUME NEW k \in Keys, Create(k) PROVE FeedHolds'
  BY <1>2, <1>4 DEF Create, feedVars
<1>5. ASSUME NEW r \in Replicas, NEW k \in Keys, Verify(r, k) \/ Hydrate(r, k) PROVE FeedHolds'
  BY <1>2, <1>5 DEF Verify, Hydrate, feedVars, tableVars
<1>6. ASSUME NEW r \in Replicas, Lookup(r) \/ Memoize(r) \/ Follow(r) PROVE FeedHolds'
  BY <1>2, <1>6 DEF Lookup, Memoize, Follow, feedVars, tableVars
<1>7. CASE UNCHANGED vars
  BY <1>2, <1>7 DEF vars
<1> QED
  BY <1>1, <1>3, <1>4, <1>5, <1>6, <1>7, RevokeFeed, RelayFeed, ConnectionFeed, TickFeed
     DEF Next, ReplicaStep

-----------------------------------------------------------------------------
(* The theorems.                                                           *)

LEMMA Initially == Init => IInv
<1> SUFFICES ASSUME Init PROVE IInv
  OBVIOUS
<1>1. TypeOK
  BY TypeInit
<1>2. VerificationsTimely /\ RowsKept /\ EntriesBounded /\ AcceptedSince /\ StalenessBounded
  BY IdleTyped, AbsentTyped
     DEF Init, VerificationsTimely, RowsKept, EntriesBounded, AcceptedSince, StalenessBounded
<1>3. FeedHolds
  BY SMTT(30) DEF Init, FeedHolds
<1>4. 0 < now
  BY SMTT(30) DEF Init
<1> QED
  BY <1>1, <1>2, <1>3, <1>4 DEF IInv

LEMMA Inductive == IInv /\ [Next]_vars => IInv'
<1> SUFFICES ASSUME IInv, [Next]_vars PROVE IInv'
  OBVIOUS
<1>1. TypeOK /\ TypeOK' /\ 0 < now /\ Bounded /\ FeedHolds
  BY TypeNext DEF IInv, Bounded
<1>2. 0 < now'
  <2>1. now' = now \/ Tick
    BY DEF Next, ReplicaStep, vars, tableVars, Create, ReapDenylist, MarkIntegrationKeyRevoked,
           Verify, Hydrate, Lookup, Memoize, Listen, Resync, Relay, Disconnect, Follow, Restart
  <2> QED
    BY SMTT(30), <1>1, <2>1 DEF Tick, TypeOK
<1>3. Bounded'
  BY <1>1, NextBounded
<1>4. FeedHolds'
  BY <1>1, NextFeed DEF Bounded
<1> QED
  BY <1>1, <1>2, <1>3, <1>4 DEF IInv, Bounded

\* The inductive invariant holds of every reachable state.
THEOREM Invariance == Spec => []IInv
<1> QED
  BY Initially, Inductive, PTL DEF Spec

\* Across replicas, caches, lost notifications, restarts and reaping, a token
\* is accepted no later than a TTL and one verification after its revocation
\* committed (DenylistCache, MarkIntegrationKeyRevoked, Reap).
THEOREM RevocationTakesEffect == Spec => []StalenessBounded
<1>1. IInv => StalenessBounded
  BY DEF IInv
<1> QED
  BY <1>1, Invariance, PTL

\* A feed that relays has reported, or is about to read, every revocation
\* outside an outage whose own resync failed (runFeed, listenOnce, resync).
THEOREM FeedComplete == Spec => []FeedMissesNothing
<1>1. IInv => FeedMissesNothing
  BY DEF IInv, FeedHolds, FeedMissesNothing
<1> QED
  BY <1>1, Invariance, PTL
=============================================================================
