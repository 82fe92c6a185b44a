------------------------------ MODULE Keyring ------------------------------
(***************************************************************************)
(* Signing keys: the keypairs table, the in-memory ring every replica      *)
(* keeps of it (keys/), first-boot generation, `tempogate keys generate`,  *)
(* retirement, the reload loop, and the relying parties that verify by a   *)
(* copy of /.well-known/jwks.json they fetched some time ago.              *)
(*                                                                         *)
(* A load and the swap that installs it are two steps, and so are stamping *)
(* a time and committing it: other goroutines of the replica, operators    *)
(* and other replicas move in between.  Time passes only as far as the     *)
(* deadlines allow: the reload ticker, a statement's Latency and a relying *)
(* party's refresh interval.                                               *)
(***************************************************************************)
EXTENDS Naturals, FiniteSets

CONSTANTS
    Kids,          \* key ids, ordered by < as the store orders kid
    Replicas,      \* serving processes over one store
    Cli,           \* a `tempogate keys` process, which serves nobody
    Operators,     \* retirements and listings that may be in flight at once
    Parties,       \* relying parties
    PublishDelay,  \* KEYS_PUBLISH_DELAY
    Grace,         \* KEYS_RETIREMENT_GRACE
    Reload,        \* KEYS_RELOAD_INTERVAL
    Refresh,       \* a relying party's JWKS refresh interval
    Latency,       \* the longest a statement takes
    TokenTTL,      \* access-token lifetime
    MaxTime,       \* bound on the clock
    MaxFailures,   \* bound on failed reloads and abandoned commands
    MaxStops,      \* bound on replicas that stop
    MaxTokens      \* bound on unexpired tokens

ASSUME KidsAssumption ==
    /\ Kids \subseteq Nat /\ \E b \in Kids : \A k \in Kids : k <= b
    /\ Cli \notin Replicas

ASSUME DurationsAssumption ==
    /\ PublishDelay \in Nat /\ Grace \in Nat /\ Reload \in Nat /\ Refresh \in Nat
    /\ Latency \in Nat /\ TokenTTL \in Nat /\ MaxTime \in Nat /\ 0 < Reload
    /\ MaxFailures \in Nat /\ MaxStops \in Nat /\ MaxTokens \in Nat

VARIABLES
    now,        \* the application clock
    store,      \* the keypairs table
    cache,      \* Keys.keypairs of each replica
    ring,       \* each replica's life, and its Watch goroutine
    gen,        \* a `keys generate` between stamping its key and saving it
    op,         \* retirements and listings in flight
    jwks,       \* what each relying party fetched last, and when
    minted,     \* unexpired tokens: who signed, when
    failures,   \* how many reloads and commands have failed
    stops,      \* how many times a replica has stopped
    bootKeys    \* history: keys Init generated

vars == <<now, store, cache, ring, gen, op, jwks, minted, failures, stops, bootKeys>>

-----------------------------------------------------------------------------
(* Rows, snapshots of the table, and the rules over them.                  *)

KeyRow ==
    [st : {"none"}]
      \cup [st : {"active"}, created : Nat]
      \cup [st : {"retired"}, created : Nat, at : Nat]

Snapshot == [Kids -> KeyRow]

Empty == [k \in Kids |-> [st |-> "none"]]

Idle == [pc |-> "idle"]

Down == [pc |-> "down"]

\* A replica's life, and a retirement's.
RingBootLoad == [pc : {"boot_load"}, at : Nat]

RingBootSave ==
    [pc : {"boot_save"}, snap : Snapshot, kid : Kids, created : Nat, at : Nat]

RingServing == [pc : {"serving"}, polled : Nat, loading : BOOLEAN, snap : Snapshot]

OpBusy ==
    [pc : {"check_load", "check", "commit", "reload", "swap"}, via : Replicas \cup {Cli},
     kid : Kids, force : BOOLEAN, stamp : Nat, snap : Snapshot, at : Nat]

Active(s) == {k \in Kids : s[k].st = "active"}

Older(s, j, k) ==
    s[j].created < s[k].created \/ (s[j].created = s[k].created /\ j < k)

\* Mutant: the publish delay is not looked at.
MatureAtOnce(s) == Active(s)

\* Active keys whose publish delay has elapsed.
Mature(s) == {k \in Active(s) : s[k].created + PublishDelay <= now}

\* The newest mature key signs; when none is mature, the oldest active one.
Signing(s) ==
    IF Mature(s) # {}
      THEN CHOOSE k \in Mature(s) : \A j \in Mature(s) : j = k \/ Older(s, j, k)
      ELSE CHOOSE k \in Active(s) : \A j \in Active(s) : j = k \/ Older(s, k, j)

\* Mutant: a retired key is never dropped.
PublishedForever(s) == {k \in Kids : s[k].st # "none"}

\* JWKS and tempogate's own verifier.
Published(s) ==
    Active(s) \cup {k \in Kids : s[k].st = "retired" /\ now < s[k].at + Grace}

Serving(r) == ring[r].pc = "serving"

\* A kid is a thumbprint of a key just generated: no one else has it.
Fresh(k) ==
    /\ store[k].st = "none"
    /\ gen # Idle => gen.kid # k
    /\ \A r \in Replicas : ring[r].pc = "boot_save" => ring[r].kid # k

Init ==
    /\ now = 0
    /\ store = Empty
    /\ cache = [r \in Replicas |-> Empty]
    /\ ring = [r \in Replicas |-> Down]
    /\ gen = Idle
    /\ op = [o \in Operators |-> Idle]
    /\ jwks = [p \in Parties |-> [on |-> FALSE, keys |-> {}, at |-> 0]]
    /\ minted = {} /\ failures = 0 /\ stops = 0 /\ bootKeys = {}

-----------------------------------------------------------------------------
(* Booting: Init under LockKeyBootstrap.                                   *)

\* Mutant: the advisory lock is not taken.
BootUnlocked == TRUE

BootLockFree == \A r \in Replicas : ring[r].pc \notin {"boot_load", "boot_save"}

Served == [pc |-> "serving", polled |-> now, loading |-> FALSE, snap |-> Empty]

Boot(r) ==
    /\ ring[r] = Down
    /\ BootLockFree
    /\ ring' = [ring EXCEPT ![r] = [pc |-> "boot_load", at |-> now]]
    /\ UNCHANGED <<now, store, cache, gen, op, jwks, minted, failures, stops, bootKeys>>

\* Load every keypair; with none active, generate one.
BootLoad(r) ==
    /\ ring[r].pc = "boot_load"
    /\ \/ /\ Active(store) # {}
          /\ cache' = [cache EXCEPT ![r] = store]
          /\ ring' = [ring EXCEPT ![r] = Served]
       \/ /\ Active(store) = {}
          /\ \E k \in Kids :
               /\ Fresh(k)
               /\ ring' = [ring EXCEPT ![r] = [pc |-> "boot_save", snap |-> store, kid |-> k,
                                               created |-> now, at |-> now]]
          /\ UNCHANGED cache
    /\ UNCHANGED <<now, store, gen, op, jwks, minted, failures, stops, bootKeys>>

BootSave(r) ==
    LET b == ring[r]  row == [st |-> "active", created |-> b.created] IN
    /\ b.pc = "boot_save"
    /\ store' = [store EXCEPT ![b.kid] = row]
    /\ cache' = [cache EXCEPT ![r] = [b.snap EXCEPT ![b.kid] = row]]
    /\ ring' = [ring EXCEPT ![r] = Served]
    /\ bootKeys' = bootKeys \cup {b.kid}
    /\ UNCHANGED <<now, gen, op, jwks, minted, failures, stops>>

\* The process stops or crashes: its memory and what it was doing are gone,
\* and Postgres drops its lock.
Stop(r) ==
    /\ ring[r] # Down /\ stops < MaxStops
    /\ stops' = stops + 1
    /\ ring' = [ring EXCEPT ![r] = Down]
    /\ cache' = [cache EXCEPT ![r] = Empty]
    /\ op' = [o \in Operators |-> IF op[o] # Idle /\ op[o].via = r THEN Idle ELSE op[o]]
    /\ UNCHANGED <<now, store, gen, jwks, minted, failures, bootKeys>>

-----------------------------------------------------------------------------
(* Watch: reload at every tick, or at once on a change notification.       *)

WatchLoad(r) ==
    /\ Serving(r) /\ ~ring[r].loading
    /\ ring' = [ring EXCEPT ![r] = [pc |-> "serving", polled |-> now, loading |-> TRUE,
                                    snap |-> store]]
    /\ UNCHANGED <<now, store, cache, gen, op, jwks, minted, failures, stops, bootKeys>>

\* Mutant: what is loaded is added to the set in service, and changes no key.
ReloadedMerges(r) ==
    [k \in Kids |-> IF cache[r][k].st = "none" THEN ring[r].snap[k] ELSE cache[r][k]]

Reloaded(r) == ring[r].snap

WatchSwap(r) ==
    /\ Serving(r) /\ ring[r].loading
    /\ cache' = [cache EXCEPT ![r] = Reloaded(r)]
    /\ ring' = [ring EXCEPT ![r] = [pc |-> "serving", polled |-> ring[r].polled,
                                    loading |-> FALSE, snap |-> Empty]]
    /\ UNCHANGED <<now, store, gen, op, jwks, minted, failures, stops, bootKeys>>

\* The load fails: the set in service stays, until the next tick.
WatchFail(r) ==
    /\ Serving(r) /\ ~ring[r].loading /\ failures < MaxFailures
    /\ ring' = [ring EXCEPT ![r] = Served]
    /\ failures' = failures + 1
    /\ UNCHANGED <<now, store, cache, gen, op, jwks, minted, stops, bootKeys>>

-----------------------------------------------------------------------------
(* Generate, with --force unless the table is empty.                       *)

Generate ==
    /\ gen = Idle
    /\ \E k \in Kids : Fresh(k) /\ gen' = [pc |-> "save", kid |-> k, created |-> now]
    /\ UNCHANGED <<now, store, cache, ring, op, jwks, minted, failures, stops, bootKeys>>

GenerateSave ==
    /\ gen # Idle
    /\ store' = [store EXCEPT ![gen.kid] = [st |-> "active", created |-> gen.created]]
    /\ gen' = Idle
    /\ UNCHANGED <<now, cache, ring, op, jwks, minted, failures, stops, bootKeys>>

GenerateDies ==
    /\ gen # Idle /\ failures < MaxFailures
    /\ gen' = Idle /\ failures' = failures + 1
    /\ UNCHANGED <<now, store, cache, ring, op, jwks, minted, stops, bootKeys>>

-----------------------------------------------------------------------------
(* Retire, through a replica's admin API or from a CLI process.            *)

\* The operator's next step, with what it still needs.
OpAt(pc, o, force, stamp, snap) ==
    [pc |-> pc, via |-> op[o].via, kid |-> op[o].kid, force |-> force, stamp |-> stamp,
     snap |-> snap, at |-> now]

\* swap: a CLI process's ring is its own.
Install(o) ==
    cache' = IF op[o].via = Cli THEN cache
             ELSE [cache EXCEPT ![op[o].via] = op[o].snap]

RetireBegin(o, via, k, force) ==
    /\ op[o] = Idle
    /\ via # Cli => Serving(via)
    /\ store[k].st # "none"
    /\ op' = [op EXCEPT ![o] = [pc |-> IF force THEN "commit" ELSE "check_load", via |-> via,
                                kid |-> k, force |-> force, stamp |-> IF force THEN now ELSE 0,
                                snap |-> Empty, at |-> now]]
    /\ UNCHANGED <<now, store, cache, ring, gen, jwks, minted, failures, stops, bootKeys>>

\* Listing the keys (Statuses) reloads the ring too.  Which key the caller is
\* after changes nothing.
ListBegin(o, via, k) ==
    /\ op[o] = Idle /\ Serving(via)
    /\ store[k].st # "none"
    /\ op' = [op EXCEPT ![o] = [pc |-> "reload", via |-> via, kid |-> k, force |-> FALSE,
                                stamp |-> 0, snap |-> Empty, at |-> now]]
    /\ UNCHANGED <<now, store, cache, ring, gen, jwks, minted, failures, stops, bootKeys>>

\* checkReplacementPublished and the reload after the commit both load ...
RetireLoad(o) ==
    /\ op[o].pc \in {"check_load", "reload"}
    /\ op' = [op EXCEPT ![o] = OpAt(IF op[o].pc = "reload" THEN "swap" ELSE "check",
                                    o, FALSE, 0, store)]
    /\ UNCHANGED <<now, store, cache, ring, gen, jwks, minted, failures, stops, bootKeys>>

\* The signer's replacement is still inside its publish delay.
ReplacementPending(s, k) ==
    LET rest == [s EXCEPT ![k] = [st |-> "none"]] IN
    /\ Active(s) # {} /\ Signing(s) = k
    /\ Active(rest) # {} /\ Signing(rest) \notin Mature(rest)

\* ... and install; the check then looks at what it installed.
RetireCheck(o) ==
    /\ op[o].pc = "check"
    /\ Install(o)
    /\ op' = [op EXCEPT ![o] = IF ReplacementPending(op[o].snap, op[o].kid) THEN Idle
                               ELSE OpAt("commit", o, FALSE, now, Empty)]
    /\ UNCHANGED <<now, store, ring, gen, jwks, minted, failures, stops, bootKeys>>

\* Mutant: the last active key may go too.
RetirableAny(k) == store[k].st = "active"

Retirable(k) == store[k].st = "active" /\ Active(store) # {k}

Retirement(k, stamp) == [st |-> "retired", created |-> store[k].created, at |-> stamp]

\* RetireKeypair: refuse the only active key, keep an earlier retirement.
RetireCommit(o) ==
    LET k == op[o].kid IN
    /\ op[o].pc = "commit"
    /\ store' = IF Retirable(k)
                  THEN [store EXCEPT ![k] = Retirement(k, op[o].stamp)] ELSE store
    /\ op' = [op EXCEPT ![o] = IF store'[k].st = "retired"
                                 THEN OpAt("reload", o, FALSE, 0, Empty) ELSE Idle]
    /\ UNCHANGED <<now, cache, ring, gen, jwks, minted, failures, stops, bootKeys>>

RetireSwap(o) ==
    /\ op[o].pc = "swap"
    /\ Install(o)
    /\ op' = [op EXCEPT ![o] = Idle]
    /\ UNCHANGED <<now, store, ring, gen, jwks, minted, failures, stops, bootKeys>>

RetireDies(o) ==
    /\ op[o] # Idle /\ failures < MaxFailures
    /\ op' = [op EXCEPT ![o] = Idle]
    /\ failures' = failures + 1
    /\ UNCHANGED <<now, store, cache, ring, gen, jwks, minted, stops, bootKeys>>

RetireStep(o) == RetireLoad(o) \/ RetireCheck(o) \/ RetireCommit(o) \/ RetireSwap(o)

-----------------------------------------------------------------------------
(* Signing, relying parties, and the clock.                                *)

Sign(r) ==
    /\ Serving(r) /\ Active(cache[r]) # {} /\ Cardinality(minted) < MaxTokens
    /\ minted' = minted \cup {[kid |-> Signing(cache[r]), iat |-> now]}
    /\ UNCHANGED <<now, store, cache, ring, gen, op, jwks, failures, stops, bootKeys>>

\* Any replica may answer.
FetchJWKS(p, r) ==
    /\ Serving(r)
    /\ jwks' = [jwks EXCEPT ![p] = [on |-> TRUE, keys |-> Published(cache[r]), at |-> now]]
    /\ UNCHANGED <<now, store, cache, ring, gen, op, minted, failures, stops, bootKeys>>

OnTime ==
    /\ \A r \in Replicas :
         /\ ring[r].pc \in {"boot_load", "boot_save"} => now < ring[r].at + Latency
         /\ Serving(r) => now < ring[r].polled + (IF ring[r].loading THEN Latency ELSE Reload)
    /\ gen # Idle => now < gen.created + Latency
    /\ \A o \in Operators : op[o] # Idle => now < op[o].at + Latency
    /\ \A p \in Parties : jwks[p].on => now < jwks[p].at + Refresh

Tick ==
    /\ now < MaxTime /\ OnTime
    /\ now' = now + 1
    /\ minted' = {m \in minted : now + 1 < m.iat + TokenTTL}
    /\ UNCHANGED <<store, cache, ring, gen, op, jwks, failures, stops, bootKeys>>

ReplicaStep(r) == BootLoad(r) \/ BootSave(r) \/ WatchLoad(r) \/ WatchSwap(r)

Next ==
    \/ \E r \in Replicas : Boot(r) \/ ReplicaStep(r) \/ WatchFail(r) \/ Stop(r) \/ Sign(r)
    \/ \E p \in Parties, r \in Replicas : FetchJWKS(p, r)
    \/ Generate \/ GenerateSave \/ GenerateDies
    \/ \E o \in Operators, via \in Replicas \cup {Cli}, k \in Kids, force \in BOOLEAN :
         RetireBegin(o, via, k, force)
    \/ \E o \in Operators, via \in Replicas, k \in Kids : ListBegin(o, via, k)
    \/ \E o \in Operators : RetireStep(o) \/ RetireDies(o)
    \/ Tick

Spec == Init /\ [][Next]_vars

\* A replica's reload loop keeps turning and a retirement once begun runs on.
Fairness ==
    /\ \A r \in Replicas : WF_vars(WatchLoad(r) \/ WatchSwap(r))
    /\ \A o \in Operators : WF_vars(RetireStep(o))

-----------------------------------------------------------------------------
(* Properties.                                                             *)

\* Every row, ring, command and relying party has its type.
TypeOK ==
    /\ now \in 0..MaxTime /\ failures \in 0..MaxFailures /\ stops \in 0..MaxStops
    /\ store \in Snapshot
    /\ cache \in [Replicas -> Snapshot]
    /\ ring \in [Replicas -> {Down} \cup RingBootLoad \cup RingBootSave \cup RingServing]
    /\ gen \in {Idle} \cup [pc : {"save"}, kid : Kids, created : Nat]
    /\ op \in [Operators -> {Idle} \cup OpBusy]
    /\ jwks \in [Parties -> [on : BOOLEAN, keys : SUBSET Kids, at : Nat]]
    /\ minted \subseteq [kid : Kids, iat : Nat]
    /\ bootKeys \subseteq Kids

\* A replica that serves can sign: concurrent retirements, reloads that
\* install an old snapshot and boots against a changing table never leave its
\* ring without an active key (ErrNoKeypair).
ServingCanSign == \A r \in Replicas : Serving(r) => Active(cache[r]) # {}

\* Replicas that boot together on an empty table, crash half way and boot
\* again agree on one key: Init never generates a second.
OneBootstrapKey == \A j, k \in bootKeys : j = k

\* The longest a saved or retired key takes to show in every replica's ring.
Propagation == 3 * Latency + (1 + MaxFailures) * Reload

\* The rule docs/operations.md gives for the settings.
Configured == PublishDelay > Propagation + Refresh /\ TokenTTL <= Grace

\* Key k was past its publish delay at instant t, and not yet retired.
MatureAt(k, t) ==
    /\ store[k].st # "none" /\ store[k].created + PublishDelay <= t
    /\ store[k].st = "retired" => t < store[k].at

\* No relying party refuses a token: once there is a key past its publish delay
\* to sign with, whatever a replica signs, with whichever key, verifies at every
\* relying party until it expires, through rotation, reloads, restarts, and the
\* retirement of its key after it was signed.
MintedTokensAccepted ==
    Configured =>
      \A m \in minted, p \in Parties :
        /\ jwks[p].on
        /\ \E k \in Kids : MatureAt(k, m.iat)
        /\ now < m.iat + TokenTTL
        /\ store[m.kid].st = "retired" => m.iat <= store[m.kid].at
        => m.kid \in jwks[p].keys

\* Retirement is a kill switch: once the grace is over, every replica has
\* reloaded and every relying party has refreshed, no one verifies by the key.
RetiredKeyLeavesJWKS ==
    \A k \in Kids, p \in Parties :
      /\ store[k].st = "retired"
      /\ store[k].at + (IF Grace < Propagation THEN Propagation ELSE Grace) + Refresh < now
      => k \notin jwks[p].keys

\* A retired key is out of use for good, on every replica, whatever snapshots
\* were in flight when it was retired.
RetiredKeyFallsIdle ==
    \A k \in Kids, r \in Replicas :
      (store[k].st = "retired") ~> [](k \notin Active(cache[r]))

-----------------------------------------------------------------------------
(* The inductive invariant the proofs rest on.                             *)

\* The table, once it has a key, has an active one.
TableAlive == \A k \in Kids : store[k].st # "none" => Active(store) # {}

\* So has every snapshot a retirement or a reload is about to install.
OpsAlive ==
    \A o \in Operators : op[o] # Idle =>
      /\ store[op[o].kid].st # "none"
      /\ op[o].pc \in {"check", "swap"} => Active(op[o].snap) # {}

RingsAlive ==
    \A r \in Replicas : Serving(r) =>
      Active(store) # {} /\ (ring[r].loading => Active(ring[r].snap) # {})

\* One replica at a time runs Init, and only before any has generated.
BootsApart ==
    /\ \A q, r \in Replicas :
         ring[q].pc \in {"boot_load", "boot_save"} /\ ring[r].pc \in {"boot_load", "boot_save"}
           => q = r
    /\ \A r \in Replicas : ring[r].pc = "boot_save" => bootKeys = {}
    /\ bootKeys # {} => Active(store) # {}

IInv ==
    /\ TypeOK /\ TableAlive /\ OpsAlive /\ RingsAlive /\ ServingCanSign
    /\ BootsApart /\ OneBootstrapKey

-----------------------------------------------------------------------------
(* The inductive invariant of the properties about time.                   *)

\* A key being generated is nobody else's.
Reserved ==
    /\ gen # Idle => store[gen.kid].st = "none"
    /\ \A r \in Replicas : ring[r].pc = "boot_save" =>
         store[ring[r].kid].st = "none" /\ (gen # Idle => gen.kid # ring[r].kid)

\* Every stamp is in the past, and nothing in flight is overdue.
Deadlines ==
    /\ \A r \in Replicas :
         /\ ring[r].pc \in {"boot_load", "boot_save"} =>
              ring[r].at <= now /\ now <= ring[r].at + Latency
         /\ ring[r].pc = "boot_save" => ring[r].created = ring[r].at
         /\ Serving(r) =>
              ring[r].polled <= now /\ (ring[r].loading => now <= ring[r].polled + Latency)
    /\ gen # Idle => gen.created <= now /\ now <= gen.created + Latency
    /\ \A o \in Operators : op[o] # Idle =>
         /\ op[o].at <= now /\ now <= op[o].at + Latency
         /\ op[o].pc = "commit" => op[o].stamp = op[o].at
    /\ \A p \in Parties : jwks[p].on => jwks[p].at <= now /\ now <= jwks[p].at + Refresh
    /\ \A k \in Kids : store[k].st = "retired" => store[k].at <= now

\* Snapshot s shows k's row of table t as it is or as it was.
Shows(t, s, k) ==
    /\ s[k].st # "none" => t[k].st # "none" /\ s[k].created = t[k].created
    /\ s[k].st = "retired" => t[k] = s[k]

\* The stamps of the changes to k's row in table t that snapshot s misses.
Unseen(t, s, k) ==
    (IF s[k].st = "none" /\ t[k].st # "none" THEN {t[k].created} ELSE {})
      \cup (IF s[k].st # "retired" /\ t[k].st = "retired" THEN {t[k].at} ELSE {})

\* Snapshot s was read at c: a change it misses was not committed by then.
ReadAt(t, s, c) ==
    \A k \in Kids : Shows(t, s, k) /\ \A u \in Unseen(t, s, k) : c <= u + Latency

SnapshotsOld ==
    /\ \A r \in Replicas, k \in Kids : Shows(store, cache[r], k)
    /\ \A r \in Replicas : ring[r].pc = "boot_save" => ReadAt(store, ring[r].snap, ring[r].at)
    /\ \A r \in Replicas :
         Serving(r) /\ ring[r].loading => ReadAt(store, ring[r].snap, ring[r].polled)
    /\ \A o \in Operators :
         op[o].pc \in {"check", "swap"} => ReadAt(store, op[o].snap, op[o].at)

\* A change a ring does not show will show once the load in flight is in, or
\* the last load was too early, or failed too often, to bring it; the next one
\* is then due, or overdue because an old snapshot was installed late.
RingsCatchUp ==
    \A r \in Replicas : Serving(r) =>
      \A k \in Kids : \A c \in Unseen(store, cache[r], k) :
        \/ /\ ring[r].loading /\ c \notin Unseen(store, ring[r].snap, k)
           /\ ring[r].polled <= c + 2 * Latency + (1 + MaxFailures) * Reload
        \/ /\ ring[r].polled <= c + 2 * Latency + failures * Reload
           /\ \/ ring[r].loading
              \/ now <= ring[r].polled + Reload
              \/ now <= c + 2 * Latency

\* What a relying party fetched has the keys every replica had by then, and
\* none that every replica had dropped.
PartiesCurrent ==
    \A p \in Parties, k \in Kids :
      /\ jwks[p].on /\ store[k].st # "none" /\ store[k].created + Propagation < jwks[p].at =>
           k \in jwks[p].keys \/ (store[k].st = "retired" /\ store[k].at + Grace <= jwks[p].at)
      /\ k \in jwks[p].keys =>
           /\ jwks[p].on
           /\ store[k].st = "retired" =>
                \/ jwks[p].at <= store[k].at + Grace
                \/ jwks[p].at <= store[k].at + Propagation

\* A token is signed by a mature key whenever there is one.
SignedMature ==
    \A m \in minted :
      /\ m.iat <= now /\ store[m.kid].st # "none"
      /\ Configured /\ (\E k \in Kids : MatureAt(k, m.iat)) =>
           store[m.kid].created + PublishDelay <= m.iat

TimeInv ==
    /\ Reserved /\ Deadlines /\ SnapshotsOld /\ RingsCatchUp /\ PartiesCurrent /\ SignedMature
=============================================================================
