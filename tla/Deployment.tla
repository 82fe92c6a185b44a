------------------------------ MODULE Deployment ------------------------------
(***************************************************************************)
(* A deployment of one or more releases over one database: `migrate` runs  *)
(* racing each other, and `serve` processes that check the schema, load    *)
(* the signing keys, bind their listeners and stop together.               *)
(*                                                                         *)
(* A release embeds a set of numbered migrations; releases may have been   *)
(* merged out of numeric order.  The long-running components other than    *)
(* the listeners (reaper, key reloader, denylist follower) have the same   *)
(* life and are the one component "worker".                                *)
(***************************************************************************)
EXTENDS Naturals, FiniteSets

CONSTANTS
    Releases,
    Embeds,        \* the migrations each release embeds
    Migrators,     \* `migrate` runs
    Servers,       \* `serve` processes
    Nobody,
    MaxInFlight,   \* bound on requests in flight at a server
    MaxFaults      \* bound on crashes and failing components

VARIABLES
    backend,       \* the STATE_DRIVER
    applied,       \* the rows of schema_migrations
    lock,          \* the run holding migrationLockID
    mig,           \* the `migrate` runs
    srv,           \* the `serve` processes
    up,            \* whether the store answers a probe
    faults,
    refused        \* history: runs that failed on a version another had applied

vars == <<backend, applied, lock, mig, srv, up, faults, refused>>

Versions == UNION {Embeds[r] : r \in Releases}
Components == {"worker", "public", "admin"}

Run == [pc : {"new", "apply", "done"}, release : Releases, todo : SUBSET Versions,
        staged : SUBSET Versions]

Server == [pc : {"down", "keys", "running", "stopping"}, release : Releases,
           comp : [Components -> {"off", "up", "drain", "gone"}], ready : BOOLEAN,
           keys : BOOLEAN, inflight : 0..MaxInFlight]

Down(r) == [pc |-> "down", release |-> r, comp |-> [c \in Components |-> "off"], ready |-> FALSE,
            keys |-> FALSE, inflight |-> 0]

Init ==
    /\ backend \in {"postgres", "sqlite"}
    /\ applied \in {{}} \cup {Embeds[r] : r \in Releases}
    /\ lock = Nobody
    /\ mig \in [Migrators -> {[pc |-> "new", release |-> r, todo |-> {}, staged |-> {}] : r \in Releases}]
    /\ srv \in [Servers -> {Down(r) : r \in Releases}]
    /\ up = TRUE /\ faults = 0 /\ refused = {}

-----------------------------------------------------------------------------
(* Migrations.                                                             *)

Lowest(S) == CHOOSE v \in S : \A w \in S : v <= w

\* The migrations of a release that are not recorded, in order of version.
Pending(r) == Embeds[r] \ applied

Ends(m) == mig' = [mig EXCEPT ![m].pc = "done", ![m].todo = {}, ![m].staged = {}]

\* Postgres: the transaction waits for pg_advisory_xact_lock, then creates
\* schema_migrations if absent and reads the versions.
LockAndRead(m) ==
    /\ backend = "postgres" /\ mig[m].pc = "new" /\ lock = Nobody
    /\ lock' = m
    /\ mig' = [mig EXCEPT ![m].pc = "apply", ![m].todo = Pending(mig[m].release)]
    /\ UNCHANGED <<backend, applied, srv, up, faults, refused>>

\* Mutant: a commit for each file.
StageAndCommit(m) ==
    LET v == Lowest(mig[m].todo)
    IN  /\ backend = "postgres" /\ mig[m].pc = "apply" /\ mig[m].todo # {}
        /\ applied' = applied \cup {v}
        /\ mig' = [mig EXCEPT ![m].todo = @ \ {v}]
        /\ UNCHANGED <<backend, lock, srv, up, faults, refused>>

\* Postgres: applyMigration runs a file and records it inside the transaction.
StageMigration(m) ==
    LET v == Lowest(mig[m].todo)
    IN  /\ backend = "postgres" /\ mig[m].pc = "apply" /\ mig[m].todo # {}
        /\ IF v \in applied
             THEN Ends(m) /\ lock' = Nobody /\ refused' = refused \cup {m}
             ELSE /\ mig' = [mig EXCEPT ![m].todo = @ \ {v}, ![m].staged = @ \cup {v}]
                  /\ UNCHANGED <<lock, refused>>
        /\ UNCHANGED <<backend, applied, srv, up, faults>>

\* Postgres: one commit for every file, which also releases the lock.
CommitMigrations(m) ==
    /\ backend = "postgres" /\ mig[m].pc = "apply" /\ mig[m].todo = {}
    /\ applied' = applied \cup mig[m].staged
    /\ lock' = Nobody
    /\ Ends(m)
    /\ UNCHANGED <<backend, srv, up, faults, refused>>

\* SQLite: the versions are read once, under no lock.
ReadVersions(m) ==
    /\ backend = "sqlite" /\ mig[m].pc = "new"
    /\ mig' = [mig EXCEPT ![m].pc = "apply", ![m].todo = Pending(mig[m].release)]
    /\ UNCHANGED <<backend, applied, lock, srv, up, faults, refused>>

\* SQLite: applyMigration is one transaction of its own, and fails on a
\* version another run has recorded meanwhile.
ApplyMigration(m) ==
    LET v == Lowest(mig[m].todo)
    IN  /\ backend = "sqlite" /\ mig[m].pc = "apply" /\ mig[m].todo # {}
        /\ IF v \in applied
             THEN Ends(m) /\ refused' = refused \cup {m} /\ UNCHANGED applied
             ELSE /\ applied' = applied \cup {v}
                  /\ mig' = [mig EXCEPT ![m].todo = @ \ {v}]
                  /\ UNCHANGED refused
        /\ UNCHANGED <<backend, lock, srv, up, faults>>

MigrateReturns(m) ==
    /\ backend = "sqlite" /\ mig[m].pc = "apply" /\ mig[m].todo = {}
    /\ Ends(m)
    /\ UNCHANGED <<backend, applied, lock, srv, up, faults, refused>>

\* The lock is the transaction's: a rollback or a lost connection releases it.
Rollback(m) == lock' = IF lock = m THEN Nobody ELSE lock

\* A file fails, the connection is lost or the runner is killed; an operator
\* or a restarting container runs it again.
MigrateFails(m) ==
    /\ mig[m].pc = "apply" /\ faults < MaxFaults
    /\ mig' = [mig EXCEPT ![m].pc = "new", ![m].todo = {}, ![m].staged = {}]
    /\ Rollback(m)
    /\ faults' = faults + 1
    /\ UNCHANGED <<backend, applied, srv, up, refused>>

Migrate(m) ==
    \/ LockAndRead(m) \/ StageMigration(m) \/ CommitMigrations(m)
    \/ ReadVersions(m) \/ ApplyMigration(m) \/ MigrateReturns(m)

-----------------------------------------------------------------------------
(* serve.                                                                  *)

\* Mutant: only the highest versions are compared.
CheckHighest(r) == Embeds[r] = {} \/ \E v \in applied : \A w \in Embeds[r] : w <= v

\* migration.Check: each embedded version is recorded; recorded versions the
\* release does not know are ignored.
Check(r) == Pending(r) = {}

\* A database never migrated has no schema_migrations, which reads as no version.
IsCurrent(r) == Check(r)

Becomes(s, v) == srv' = [srv EXCEPT ![s] = v]

serverOnly == <<backend, applied, lock, mig, refused>>

\* storeReady: Ping, then IsCurrent; serve returns its refusal.
Boot(s) ==
    /\ srv[s].pc = "down"
    /\ Becomes(s, IF up /\ IsCurrent(srv[s].release) THEN [srv[s] EXCEPT !.pc = "keys"] ELSE srv[s])
    /\ UNCHANGED <<serverOnly, up, faults>>

\* Keys.Init, then every component starts.  Init fails when the store does.
InitKeys(s) ==
    /\ srv[s].pc = "keys"
    /\ Becomes(s, IF up THEN [srv[s] EXCEPT !.pc = "running", !.keys = TRUE, !.comp["worker"] = "up"]
                  ELSE Down(srv[s].release))
    /\ UNCHANGED <<serverOnly, up, faults>>

\* httpServer binds its listener, whether or not ctx was cancelled meanwhile;
\* the public one marks the process ready.
Listen(s, c) ==
    /\ srv[s].pc \in {"running", "stopping"} /\ c # "worker" /\ srv[s].comp[c] = "off"
    /\ Becomes(s, [srv[s] EXCEPT !.comp[c] = "up", !.ready = @ \/ c = "public"])
    /\ UNCHANGED <<serverOnly, up, faults>>

Request(s) ==
    /\ srv[s].comp["public"] = "up" /\ srv[s].inflight < MaxInFlight
    /\ Becomes(s, [srv[s] EXCEPT !.inflight = @ + 1])
    /\ UNCHANGED <<serverOnly, up, faults>>

Respond(s) ==
    /\ srv[s].inflight > 0
    /\ Becomes(s, [srv[s] EXCEPT !.inflight = @ - 1])
    /\ UNCHANGED <<serverOnly, up, faults>>

\* SIGTERM cancels ctx.
Stop(s) ==
    /\ srv[s].pc = "running"
    /\ Becomes(s, [srv[s] EXCEPT !.pc = "stopping"])
    /\ UNCHANGED <<serverOnly, up, faults>>

\* A component returns an error (a bind or Serve failing): xrun.All cancels the
\* ctx of all of them.
Fail(s, c) ==
    /\ srv[s].pc \in {"running", "stopping"} /\ srv[s].comp[c] \in {"off", "up"} /\ faults < MaxFaults
    /\ Becomes(s, [srv[s] EXCEPT !.pc = "stopping", !.comp[c] = "gone",
                                 !.inflight = IF c = "public" THEN 0 ELSE @])
    /\ faults' = faults + 1
    /\ UNCHANGED <<serverOnly, up>>

\* ctx is done: a listener closes and waits for its requests, a worker returns.
Drain(s, c) ==
    /\ srv[s].pc = "stopping" /\ srv[s].comp[c] = "up"
    /\ Becomes(s, [srv[s] EXCEPT !.comp[c] = IF c = "worker" THEN "gone" ELSE "drain"])
    /\ UNCHANGED <<serverOnly, up, faults>>

Drained(s, c) ==
    /\ srv[s].comp[c] = "drain" /\ (c = "public" => srv[s].inflight = 0)
    /\ Becomes(s, [srv[s] EXCEPT !.comp[c] = "gone"])
    /\ UNCHANGED <<serverOnly, up, faults>>

\* Mutant: Shutdown without a deadline.
NoShutdownTimeout(s) == FALSE /\ UNCHANGED vars

\* shutdownTimeout: Close drops the connections that are left.
ShutdownTimeout(s) ==
    /\ srv[s].comp["public"] = "drain" /\ srv[s].inflight > 0
    /\ Becomes(s, [srv[s] EXCEPT !.comp["public"] = "gone", !.inflight = 0])
    /\ UNCHANGED <<serverOnly, up, faults>>

\* xrun.All returns once every component has.
Exit(s) ==
    /\ \A c \in Components : srv[s].comp[c] = "gone"
    /\ Becomes(s, Down(srv[s].release))
    /\ UNCHANGED <<serverOnly, up, faults>>

\* The store becomes unreachable, or returns.
Outage ==
    /\ up => faults < MaxFaults
    /\ up' = ~up /\ faults' = IF up THEN faults + 1 ELSE faults
    /\ UNCHANGED <<serverOnly, srv>>

\* What /readyz answers to whoever can reach the public listener.
Ready(s) == srv[s].comp["public"] = "up" /\ srv[s].ready /\ up

Serve(s) ==
    \/ Boot(s) \/ InitKeys(s) \/ Request(s) \/ Respond(s) \/ Stop(s) \/ ShutdownTimeout(s) \/ Exit(s)
    \/ \E c \in Components : Listen(s, c) \/ Fail(s, c) \/ Drain(s, c) \/ Drained(s, c)

Next ==
    \/ \E m \in Migrators : Migrate(m) \/ MigrateFails(m)
    \/ \E s \in Servers : Serve(s)
    \/ Outage

\* The steps a server takes by itself.
Proceed(s) ==
    \/ ShutdownTimeout(s) \/ Exit(s)
    \/ \E c \in Components : Listen(s, c) \/ Drain(s, c) \/ Drained(s, c)

\* A process that can take a step takes it; requests need never be answered.
Fairness ==
    /\ \A m \in Migrators : WF_vars(Migrate(m))
    /\ \A s \in Servers : WF_vars(Proceed(s))

Spec == Init /\ [][Next]_vars /\ Fairness

-----------------------------------------------------------------------------
\* Every run and server is in one of its states.
TypeOK ==
    /\ backend \in {"postgres", "sqlite"}
    /\ applied \subseteq Versions /\ lock \in Migrators \cup {Nobody}
    /\ mig \in [Migrators -> Run] /\ srv \in [Servers -> Server]
    /\ up \in BOOLEAN /\ faults \in 0..MaxFaults /\ refused \subseteq Migrators

\* Migrate on Postgres: "runs racing from several replicas apply each version
\* once": however many runs race or die part way, the schema is always what whole
\* releases make of it, and no run fails because another was first.
WholeReleases ==
    backend = "postgres" =>
        /\ \E S \in SUBSET Releases : applied = UNION {Embeds[r] : r \in S}
        /\ refused = {}

\* serve: while a listener is bound the schema has every migration of the
\* server's release and its signing keys are loaded, and /readyz says ready
\* only in that state.
ServesCurrentSchema ==
    \A s \in Servers :
        /\ Ready(s) => srv[s].keys
        /\ (\E c \in {"public", "admin"} : srv[s].comp[c] = "up") =>
               srv[s].keys /\ Embeds[srv[s].release] \subseteq applied

\* Migrate: every run ends, whoever dies holding the lock.
MigrateEnds == <>(\A m \in Migrators : mig[m].pc = "done")

\* xrun.All and httpServer: once ctx is cancelled or any component has
\* returned the process exits, even if a request is never answered.
StoppingEnds ==
    \A s \in Servers :
        (srv[s].pc = "stopping" \/ \E c \in Components : srv[s].comp[c] = "gone") ~> srv[s].pc = "down"

-----------------------------------------------------------------------------
(* The inductive invariant the proofs rest on.                             *)

\* Migrations are numbered, and nobody is no run.
WellFormed ==
    /\ Embeds \in [Releases -> SUBSET Nat] /\ Nobody \notin Migrators
    /\ MaxInFlight \in Nat /\ MaxFaults \in Nat

\* On Postgres the run that applies holds the lock, what it read as pending is
\* pending still, and no other run has anything staged.
LockedRead ==
    backend = "postgres" =>
        \A m \in Migrators :
            /\ mig[m].pc = "apply" <=> lock = m
            /\ IF mig[m].pc = "apply" THEN mig[m].todo \cup mig[m].staged = Pending(mig[m].release)
                                      ELSE mig[m].staged = {}

\* A server past its check has its schema; it has its keys before anything else
\* runs, and until then every component is off.
ServersChecked ==
    \A s \in Servers :
        /\ srv[s].pc # "down" => Embeds[srv[s].release] \subseteq applied
        /\ srv[s].pc \in {"running", "stopping"} => srv[s].keys
        /\ srv[s].pc \in {"down", "keys"} => \A c \in Components : srv[s].comp[c] = "off"

IInv == TypeOK /\ LockedRead /\ WholeReleases /\ ServersChecked
=============================================================================
