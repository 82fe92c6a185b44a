---------------------------- MODULE MCOperations ----------------------------
(***************************************************************************)
(* Small instances of the modules about processes that must come to an end *)
(* or recover, in one run: a behaviour is one of Deployment, CliTokens,    *)
(* Discovery, Keyring or SignIn, and the other modules' variables stand    *)
(* still.                                                                  *)
(***************************************************************************)
EXTENDS Naturals

CONSTANTS m1, m2, s1, p1, p2, p3, f1, f2, t1, t2, t3, c1, c2, r1, o1, cli, l1, q1, h1, b1, a1, nobody

VARIABLES
    case,
    lock, up, now, failures, backend,                           \* shared names
    applied, mig, srv, faults, refused,                         \* Deployment
    file, proc, current, spent, ended, orphans,                 \* CliTokens
    outages, mu, cb, verifier, failed, backoff, wait, since,    \* Discovery
    store, cache, ring, gen, op, jwks, minted, stops, bootKeys, \* Keyring
    login, requests, trip, callback, codes, redirects, sweep, removed   \* SignIn

deploymentVars == <<applied, mig, srv, faults, refused>>
cliVars == <<file, proc, current, spent, ended, orphans>>
discoveryVars == <<outages, mu, cb, verifier, failed, backoff, wait, since>>
keysVars == <<store, cache, ring, gen, op, jwks, minted, stops, bootKeys>>
signInVars == <<login, requests, trip, callback, codes, redirects, sweep, removed>>

vars == <<case, lock, up, now, failures, backend, deploymentVars, cliVars, discoveryVars, keysVars,
          signInVars>>

\* A release that merged migration 2 after 3, two runs and a server.
Deployment ==
    INSTANCE Deployment
    WITH Releases <- {"old", "new"}, Embeds <- [old |-> {1, 3}, new |-> {1, 2, 3}],
         Migrators <- {m1, m2}, Servers <- {s1}, Nobody <- nobody, MaxInFlight <- 1, MaxFaults <- 1

ASSUME DeploymentAssumption == Deployment!WellFormed

\* Two `tempogate token` and a `tempogate login`.
CliTokens ==
    INSTANCE CliTokens
    WITH Tokeners <- {p1, p2}, Logins <- {p3}, Families <- {f1, f2}, Tokens <- {t1, t2, t3},
         Nobody <- nobody, NoFamily <- "no family", NoToken <- "no token",
         AccessTTL <- 2, Skew <- 1, Latency <- 1, LockTimeout <- 1, MaxTime <- 3, MaxFailures <- 1

ASSUME CliAssumption == CliTokens!WellFormed

\* Two callbacks; the backoff doubles twice, and a dial may outlast it.
Discovery ==
    INSTANCE Discovery
    WITH Callbacks <- {c1, c2}, Nobody <- nobody, InitialBackoff <- 1, MaxBackoff <- 4,
         CallTimeout <- 2, CompleteTimeout <- 4, MaxOutages <- 1, Horizon <- 5

ASSUME DiscoveryAssumption == Discovery!WellFormed

\* A replica, its reload loop and an operator, while no time passes.
Keys ==
    INSTANCE Keyring
    WITH Kids <- {1, 2}, Replicas <- {r1}, Cli <- cli, Operators <- {o1}, Parties <- {},
         PublishDelay <- 1, Grace <- 0, Reload <- 1, Refresh <- 1, Latency <- 0, TokenTTL <- 0,
         MaxTime <- 0, MaxFailures <- 1, MaxStops <- 1, MaxTokens <- 0

\* One `tempogate login`, its sign-in and whoever answers it.
SignIn ==
    INSTANCE SignIn
    WITH Logins <- {l1}, States <- {q1}, Browsers <- {b1}, Openers <- {b1}, Handlers <- {h1},
         Admitted <- {a1}, Ungranted <- {}, Outsiders <- {}, Answers <- {a1, "denied"},
         RequestTTL <- 1, CodeTTL <- 1, CallbackTimeout <- 1, Batch <- 1, Backends <- {"sqlite"},
         MaxTime <- 3, MaxFailures <- 1

\* What a liveness property reads is idle rather than 0.
DeploymentOff ==
    /\ applied = 0 /\ faults = 0 /\ refused = 0
    /\ mig = [m \in {m1, m2} |-> [pc |-> "new"]] /\ srv = [s \in {s1} |-> Deployment!Down("old")]

CliOff ==
    /\ file = 0 /\ proc = [p \in {p1, p2} |-> CliTokens!Idle] /\ current = 0 /\ spent = 0 /\ ended = 0
    /\ orphans = 0

DiscoveryOff ==
    /\ outages = 0 /\ mu = 0 /\ cb = 0 /\ verifier = FALSE /\ failed = 0 /\ backoff = 0 /\ wait = 0
    /\ since = 0

KeysOff ==
    /\ store = Keys!Empty /\ cache = [r \in {r1} |-> Keys!Empty] /\ ring = 0 /\ gen = 0 /\ op = 0
    /\ jwks = 0 /\ minted = 0 /\ stops = 0 /\ bootKeys = 0

SignInOff ==
    /\ login = [f \in {l1} |-> [pc |-> "idle"]] /\ requests = 0 /\ trip = 0 /\ callback = 0
    /\ codes = 0 /\ redirects = 0 /\ sweep = 0 /\ removed = 0

\* The runs are interchangeable, and the newer server has more to refuse.
Distinct ==
    /\ mig[m1].release = "new" => mig[m2].release = "new"
    /\ srv[s1].release = "new"

Init ==
    \/ /\ case = "deployment" /\ Deployment!Init /\ Distinct
       /\ now = 0 /\ failures = 0 /\ CliOff /\ DiscoveryOff /\ KeysOff /\ SignInOff
    \/ /\ case = "cli" /\ CliTokens!Init
       /\ up = 0 /\ backend = 0 /\ DeploymentOff /\ DiscoveryOff /\ KeysOff /\ SignInOff
    \/ /\ case = "discovery" /\ Discovery!Init
       /\ lock = 0 /\ now = 0 /\ failures = 0 /\ backend = 0
       /\ DeploymentOff /\ CliOff /\ KeysOff /\ SignInOff
    \/ /\ case = "keys" /\ Keys!Init
       /\ lock = 0 /\ up = 0 /\ backend = 0 /\ DeploymentOff /\ CliOff /\ DiscoveryOff /\ SignInOff
    \/ /\ case = "login" /\ SignIn!Init
       /\ lock = 0 /\ up = 0 /\ DeploymentOff /\ CliOff /\ DiscoveryOff /\ KeysOff

Next ==
    /\ \/ /\ case = "deployment" /\ Deployment!Next
          /\ UNCHANGED <<now, failures, cliVars, discoveryVars, keysVars, signInVars>>
       \/ /\ case = "cli" /\ CliTokens!Next
          /\ UNCHANGED <<up, backend, deploymentVars, discoveryVars, keysVars, signInVars>>
       \/ /\ case = "discovery" /\ Discovery!Next
          /\ UNCHANGED <<lock, now, failures, backend, deploymentVars, cliVars, keysVars, signInVars>>
       \/ /\ case = "keys" /\ Keys!Next
          /\ UNCHANGED <<lock, up, backend, deploymentVars, cliVars, discoveryVars, signInVars>>
       \/ /\ case = "login" /\ SignIn!Next
          /\ UNCHANGED <<lock, up, deploymentVars, cliVars, discoveryVars, keysVars>>
    /\ UNCHANGED case

\* A step of one case, and the variables that are its module's.
In(c) == case = c /\ UNCHANGED case

own ==
    CASE case = "deployment" -> <<lock, up, backend, deploymentVars>>
      [] case = "cli" -> <<lock, now, failures, cliVars>>
      [] case = "discovery" -> <<up, discoveryVars>>
      [] case = "keys" -> <<now, failures, keysVars>>
      [] case = "login" -> <<now, failures, backend, signInVars>>

\* Each module's fairness, of the behaviours that are its own.  A behaviour
\* keeps its case, so one condition serves an action of each module.
Fairness ==
    /\ WF_own(\/ In("deployment") /\ Deployment!Migrate(m1)
              \/ In("cli") /\ CliTokens!TokenStep(p1)
              \/ In("discovery") /\ ~up /\ Discovery!Flip
              \/ In("keys") /\ (Keys!WatchLoad(r1) \/ Keys!WatchSwap(r1))
              \/ In("login") /\ SignIn!Proceed(l1))
    /\ WF_own(\/ In("deployment") /\ Deployment!Migrate(m2)
              \/ In("cli") /\ CliTokens!TokenStep(p2)
              \/ In("discovery") /\ (\E c \in {c1, c2} : Discovery!Arrive(c))
              \/ In("keys") /\ Keys!RetireStep(o1))
    /\ WF_own(\/ In("deployment") /\ Deployment!Proceed(s1)
              \/ In("cli") /\ CliTokens!Tick
              \/ In("login") /\ SignIn!Tick)
    /\ SF_own(In("discovery") /\ Discovery!Tick)
    /\ \A c \in {c1, c2} : SF_own(In("discovery") /\ Discovery!Step(c))

Spec == Init /\ [][Next]_vars /\ Fairness

-----------------------------------------------------------------------------
\* Deployment: a Postgres schema is that of whole releases, and racing runs
\* succeed.
WholeReleases == case = "deployment" => Deployment!WholeReleases

\* Deployment: listeners are bound over a current schema and loaded keys.
ServesCurrentSchema == case = "deployment" => Deployment!ServesCurrentSchema

\* Deployment and CliTokens: every `migrate` run ends, a stopping server exits
\* although a request is never answered, and `tempogate token` ends whoever
\* holds its lock.
ProcessesEnd ==
    /\ case = "deployment" => Deployment!MigrateEnds /\ Deployment!StoppingEnds
    /\ case = "cli" => CliTokens!TokenCommandEnds

\* CliTokens: the command line replays a token only after a failure.
ReplaysComeOfFailures == case = "cli" => CliTokens!ReplaysComeOfFailures

\* CliTokens: what is kept in the file or printed is accepted.
KeptTokensUsable == case = "cli" => CliTokens!KeptTokensUsable

\* Discovery: the provider is dialled once per backoff window.
DialsSpaced == [][case = "discovery" => Discovery!DialStep]_vars

\* Discovery: an outage heals.
Heals == case = "discovery" => Discovery!Heals

\* Keyring: a retired key falls out of use on every replica, for good.
RetiredKeyFallsIdle == case = "keys" => Keys!RetiredKeyFallsIdle

\* SignIn: `tempogate login` ends, whatever the person and the upstream do.
LoginEnds == case = "login" => SignIn!LoginEnds
=============================================================================
