# tempogate in TLA+

tempogate is an OIDC provider and OAuth2 authorization server for self-hosted
Temporal. Any number of replicas serve it from one Postgres database, or one
process serves it from SQLite. This directory holds TLA+ models of its stateful
parts, the TLC configurations that check them on small instances, and TLAPS
proofs of what matters most for instances of any size.

## The system and its modules

| part | module | what makes it hard |
|---|---|---|
| token endpoint, authorization codes, refresh tokens and their reaper (`oidc/token.go`, `state/*/authcode.go`, `state/*/refresh.go`, `state/*/reaper.go`) | `TokenSessions`, which implements `SessionContract` | several store statements per request, any of which another request, an operator or the reaper may fall between; a request may die between any two |
| sign-in (`oidc/authorize.go`, `oidc/callback.go`, `oidc/upstreambinding.go`, `cli/loopback.go`) | `SignIn` | URLs opened twice, late, in another browser, or on a port that another run listens on by now; rowid reuse under the SQLite reaper |
| device flow and browser sessions (`oidc/device_*.go`, `oidc/session.go`, `state/*/device_codes.go`, `cli/device.go`) | `DeviceFlow` | approve, deny, poll, expiry and redemption race one another; both ends keep a pace |
| signing keys (`keys/`, `state/*/keypair.go`) | `Keyring` | replicas see a new or retired key at different times; relying parties cache the key set |
| keys encrypted at rest (`keys/encryption.go`) | `KeyWrapping` | a command that rewrites the table row by row and stops part way |
| verifier (`keys/verifier.go`, `oidc/userinfo.go`) | `VerifierKeys` | a memo that concurrent calls replace in any order |
| integration keys, denylist, change feed (`admin/keys.go`, `keys/denylist_cache.go`, `state/postgres/changes.go`) | `Revocation` | a cache against a concurrent revocation; lost notifications |
| command line's token file (`cli/refresh.go`, `cli/tokenfile.go`, `cmd/login.go`) | `CliTokens`, over `SessionContract` | several processes renew one token; a lost answer |
| migrations and server lifecycle (`state/*/migrate.go`, `cmd/servercmd/serve.go`) | `Deployment` | two runs at once, a crash half way; requests that never end |
| Google discovery (`oidc/connector/google/client.go`) | `Discovery` | callbacks share one attempt, its outcome and its backoff |
| state copy (`state/postgres/import.go`, `state/sqlite/dump.go`) | `StateCopy` | replicas left running on either side |
| client registry (`oidc/client.go`) | `Clients` | a loopback port is free and nothing else of a URI is; secrets change |
| authorization rules (`authz/`, `perms/`) | `Policy` | two policies serve one session during a rolling restart; two readings of one claim |
| attempt budgets (`ratelimit/`) | `Attempts` | eviction forgets; a refund after eviction |
| per-address budgets (`oidc/ratelimit.go`) | `ClientAddress` | which entry of a list anybody may have begun is the client |
| redaction (`redact/redact.go`) | `Redaction` | a cached replacer of two sets with a mutex each |

`SessionContract` is what the token endpoint promises of refresh tokens:
`TokenSessions` is shown to implement it, and `CliTokens` uses its actions as
the server. So what is checked of the command line rests on what is proved of
the token endpoint. The other links are by assumption, stated where it is made:
`SignIn` ends in the code that `TokenSessions` begins with, `VerifierKeys` takes
the published keys as `Keyring` changes them, `DeviceFlow` leaves its budgets to
`Attempts`.

`PROJECT.json` has every part with its source files, the source lines of every
definition, and every hazard at the line where it bites.

## Runs

| run | shows |
|---|---|
| `sessions_postgres`, `sessions_sqlite` | sessions in every interleaving, on either store; the contract; dead rows are reclaimed |
| `keys_boot` | one bootstrap key, a serving replica can sign |
| `keys_times` | the documented publish delay and grace are enough; retirement is a kill switch |
| `device` | one redemption for the first decision; pace; the decision arrives |
| `revocation` | a revoked key is refused within the TTL; the feed misses nothing |
| `signin` | one code per sign-in, a login gets its own |
| `operations` | `Deployment`, `CliTokens` and `Discovery`; that retired keys fall idle (`Keyring`) and logins end (`SignIn`) |
| `rules` | `StateCopy`, `Clients`, `Attempts`, `Policy`, `Redaction`, `KeyWrapping`, `ClientAddress` and `VerifierKeys` |
| `sessions_code_replay`, `signin_reused_row`, `keys_encrypt_mismatch` | three statements of the code's comments that it does not keep |

`MCOperations` and `MCRules` check several modules in one run. The variable
`case` says which module a behaviour is of; that module's actions are taken and
the other modules' variables stand still. Nothing interacts, and each property
speaks of its own case. The liveness of `Keyring` and of `SignIn` is checked
there, on instances smaller than those of their own runs, for a liveness check
of the larger ones takes too long.

## TokenSessions

`/token` handlers over the two tables they share. One step is one store
statement or transaction; between two steps of a handler anything else may
happen.

| model | code |
|---|---|
| `codes[c]` | the `auth_codes` row: live, consumed (a tombstone naming the family it opened), gone |
| `tokens[t]` | the `refresh_tokens` row: live or consumed, revoked or not, its lineage and expiry |
| `families[f]` | the `refresh_families` row (Postgres); on SQLite `FamilyRevoked` and `FamilyKnown` read the tokens |
| `doomed` | the `families` slice of a SQLite sweep between scan and delete |
| `req[p]` | one request: which statement is next and the values it carries |
| `now` | `clock.Now`; a handler keeps the instant it read when it began, as the code does |

Code grant: `BeginCodeGrant`, `ConsumeAuthCode` (the conditional UPDATE, with
the checks made on the row it returns), `ProbeAuthCode` (the SELECT that looks
for a tombstone). Refresh grant: `BeginRefreshGrant`, `ConsumeRefresh`,
`ProbeRefresh`. Both end in `Issue` and `SaveRefresh`, or in `RevokeFamily`.
Around them: `SaveAuthCode` (the callback's last step), `OperatorRevokeFamily`,
`OperatorRevokePerson`, the reaper (`ReapAuthCode`, `PostgresReapFamily`,
`SqliteScan`, `SqliteDeleteFamily`), `Tick`, and `Abandon` / `AbandonSweep`, a
handler or sweep that stops after any statement.

History variables (`openedBy`, `everRevoked`, `everReaped`, `reapedUnder`,
`replayAnswered`) record what happened and guard nothing but the freshness of a
drawn family id.

Abstractions:

- Whether a request's redirect_uri and verifier match, whether its connector is
  still configured and its domain allowed, and whether the rules still grant
  the person anything are free choices at the statement that looks.
- Email and subject selectors are one selector, the person.
- A Postgres transaction is one step: `lockFamily`'s FOR SHARE and the
  revocation's UPDATE of the same row make save and revoke serial per family.
- The reaper decides by the current clock. The code reads it once per sweep;
  an earlier instant judges fewer rows dead.
- The SQLite scan is one step although it is paged. A row added during the scan
  is either seen, or added after it, which the model has.
- Rows written before sessions had a subject (`errLegacyGrant`) are left out.

Properties: `SingleLineage`, `RevokedStaysDead`, `SessionNeverExtended`,
`OneFamilyPerCode`, `ReapedStaysDead`, `EverySessionRevocable`,
`ReaperSparesUsable` (an action property), `KeepsContract` (refinement) and
`DeadRowsReclaimed` (liveness), each in words above its definition.
`EverySessionRevocable` is checked on Postgres only: on SQLite a family is known
because its tokens are, and the statement is true by definition. So is
`ReaperSparesUsable`, for the reason below.

Refinement mapping: `current` is the live tokens with their families
(`Accepted`), `spent` the consumed, revoked or deleted ones (`Used`), `ended`
the families recorded as revoked. Consuming maps to `Spend`, storing to `Grant`,
every revocation to `End`, deleting a family to `Forget`; all else stutters.

Bounds: 1 code, 2 family ids, 3 token values, 2 handlers, clock to 3
(`sessions_postgres`); 2 clients, 1 family, 2 tokens, 1 handler, clock to 4
(`sessions_sqlite`, which also checks liveness and so takes no symmetry). Two
handlers are enough for every race between two statements of a pair; a third
token value is needed for a fork to show. With RefreshTTL 1 and MaxLifetime 2 a
token expires before its session ends, and a session ends while a token is
unexpired. A handler that stops for good is in every run, for nothing obliges
it to go on; `MaxFailures` only bounds how many give their place to another
request. One handler on SQLite leaves out races of two handlers there; the
theorems below are about any number of handlers on either store.

Fairness (`FairSpec`): each handler takes its next statement (a request's
goroutine runs to its end), the reaper keeps sweeping (`Run` retries at every
tick), time passes. New requests, operators and failures are owed nothing.

## Keyring

One `keypairs` table, the set of keys each replica holds in memory, the steps
that change either, and relying parties that verify by a copy of the JWKS they
fetched some time ago.

| model | code |
|---|---|
| `store[k]` | the `keypairs` row: none, active since `created`, retired `at` |
| `cache[r]` | `Keys.keypairs` of replica `r` |
| `ring[r]` | the replica: down, in `Init` under the bootstrap lock, or serving; and its `Watch` goroutine: when it last polled, and what it has loaded and not yet swapped in |
| `gen` | a `keys generate` between stamping its key and saving it |
| `op[o]` | a `Retire` or a listing in flight, in a replica (admin API) or in a CLI process, whose ring nobody sees |
| `jwks[p]` | what a relying party (Temporal) fetched last, and when |
| `minted` | unexpired tokens |

`Boot`, `BootLoad`, `BootSave` are `Init`; `WatchLoad`, `WatchSwap`, `WatchFail`
are `Watch`; `Generate`, `GenerateSave` are `Generate`; `RetireBegin`,
`RetireLoad`, `RetireCheck`, `RetireCommit`, `RetireLoad`, `RetireSwap` are the
course of one `Retire`; `ListBegin` is `Statuses`, which reloads. `Stop`,
`GenerateDies`, `RetireDies` end a process or a command anywhere.

Time. `Tick` is held back by deadlines: a serving replica polls within `Reload`,
a statement ends within `Latency`, a relying party refreshes within `Refresh`.
These are the assumptions `docs/operations.md:73-79` makes when it derives the
publish delay. While every replica is down, a relying party that is due cannot
refresh and the clock waits: the model says nothing of outages longer than the
refresh interval.

Abstractions: a change notification is a `WatchLoad` at any time. The check in
`Retire` and the swap before it are one step, for both only touch memory.
`Generate` without `--force` on a table with keys is a refusal and changes
nothing.

Properties: `ServingCanSign`, `OneBootstrapKey`, `MintedTokensAccepted`,
`RetiredKeyLeavesJWKS`, `RetiredKeyFallsIdle` (liveness). `MintedTokensAccepted`
speaks of tokens signed while there is a key past its publish delay: without one
(a fresh install, a forced retirement) the code signs with an immature key. It
leaves out a token that a replica which has not reloaded signs with a key already
retired in the table. `Propagation` is the model's form of the documented sum,
with failed reloads and statement latency added.

Bounds: `keys_boot` has 2 replicas, an operator, a stop and a failure, and a
clock to 1. `keys_times` has a replica, an operator and a relying party, grace
and token lifetime 2, publish delay 3 (one above the bound and no more) and a
clock to 5. Two keys are enough: the properties compare a key with one that
replaces it. One observed token is enough, for the property is about each token
alone. Several replicas with latency and failures under a clock are beyond a run
of a few minutes; the theorems cover any number of them.

Fairness (of `RetiredKeyFallsIdle`, in `operations`): `Watch` keeps loading and
swapping, a retirement once begun runs on (a goroutine is scheduled); no
fairness for operators, `Generate`, relying parties or time.

## DeviceFlow

| model | code |
|---|---|
| `codes[d]` | the `device_codes` row: pending, approved, denied or gone, with its approver, expiry, `last_polled_at` and interval |
| `poll[h]` | `deviceCodeGrant`: look the row up, pace the poll, consume the row, issue |
| `ui[q]` | a decision on its way: `ApproveDeviceCode` or `DenyDeviceCode` |
| `sessions`, `cookie`, `bounce`, `page` | `browser_sessions`; per browser its cookie, the signed state of its sign-in bounce, and the confirm page it displays |
| `cli` | `pollLoop`: its interval, backoff, deadline and the poll it waits for |

`PollDeviceCode` is one step on Postgres and a read, a compare-and-swap and a
slow-down statement on SQLite (`SqlitePollDeviceCode`, `ClaimPoll`, `SlowDown`);
deciding is one statement on Postgres and two on SQLite (`PgFlip`;
`SqliteFlip`, `SqliteUpdate`). A failed statement answers 500, a lost answer
leaves the handler running.

The clock counts intervals of five seconds. A handler stalls for less than two
of them, and the command line wakes on time (`Prompt`); `PollsPaced` and
`DecisionReachesDevice` depend on it, the other properties do not. The reaper's
delete is one action here, its paging is in `SignIn`.

The only client that polls is the command line, whose polls in flight began at
different times. The SQLite store compares stamps of a nanosecond clock, so that
two polls never leave the same one; a clock of intervals would let two polls of
one instant do so, and a client that polls in parallel is left out for that.

`TokensFollowTheDecision`, `ApprovedAsShown`, `PollsPaced`,
`DecisionReachesDevice`. One code, two polls, two people in one browser, one
decision in flight, one failure, clock to 5 with a code lifetime of 3: a lost
answer leaves a poll behind that races the next, an account is changed under an
open page, and codes expire and are reaped in mid-poll.

## Revocation

| model | code |
|---|---|
| `keys`, `denied` | `integration_keys` and `jti_denylist` |
| `cache[r]`, `nextSweep[r]` | the replica's `DenylistCache` |
| `verify[r]` | a verification between its miss, the store's answer and its own insert |
| `hydrate[r]` | a revocation's handler that has committed and has yet to hydrate the cache |
| `feed[r]`, `wire[r]`, `chan[r]` | the LISTEN connection, notifications on it, the subscriber's buffered channel |

`Create`, `MarkIntegrationKeyRevoked` (by the verifying process or another, on a
clock that may lag by `ResyncSkew`), `Hydrate`; `Verify`, `Lookup`, `Memoize`;
`Listen`, `Resync`, `Relay`, `Disconnect`, `Follow`; `Restart`; `ReapDenylist`.

`StalenessBounded`, `FeedMissesNothing`. Two keys that live for 2, one replica,
one revocation, clock to 5; a key is created only if it can expire within the
clock. Two keys and a cache with room for one answer make
every insert of the other key an eviction. With one revocation a full hub drops
only repeats of it; that a change is lost altogether is in the instance as a
resync that fails, and `StalenessBounded` does not depend on the feed. Two
revocations are beyond a run of a few minutes and within the theorems. A verification takes at most
`Stall`, which the denylist's grace is no shorter than.

Left out: a connection that dies without an error being seen, and notifications
left unread for longer than the resync skew; both end in the TTL's bound. A
resync that fails moves `since` on, so what was missed before is reported by no
later one; `FeedMissesNothing` excepts it (`gap`), `StalenessBounded` covers it.

## SignIn

| model | code |
|---|---|
| `login[f]` | a `tempogate login`: listening on its port, exchanging, ended; `handled` and `result` are the callback handler's |
| `requests[s]` | the `auth_requests` row under state `s`, with its rowid |
| `trip[s]` | the browser that was sent to the upstream with `s`, its binding cookie and the upstream's answer |
| `callback[h]` | `/callback` between its statements |
| `codes[s]`, `redirects` | the authorization code of the sign-in; redirects that were sent and may be opened any number of times |
| `sweep` | a SQLite sweep: cursor, cut-off and the rowids of expired rows it has read |

`OneCodePerSignIn`, `LoginGetsItsOwn`, `LoginEnds` (liveness, in `operations`).
Two runs that share a port, two states, two callbacks, one failure, clock to 3,
both stores. One browser opens the authorize URLs and a second may open what it
was sent. Two states are two sign-ins, which is what a rowid needs to be reused.
The upstream answers (`Answers`) with a person the rules admit or one they grant
nothing. A person whom a gate refuses, a `denied` and an empty answer are in the
model and not in this run (`denied` is in `operations`); the theorems cover all
of them.
Fairness: time passes and a run takes its own steps; nothing is owed by person,
browser or upstream.

## The modules of MCOperations

**Deployment.** `mig[m]` is a `migrate` run, `srv[s]` a `serve` process with the
state of its worker and its two listeners. On Postgres a run takes the lock,
stages its release's pending versions and commits them together; on SQLite it
applies version by version. `WholeReleases`, `ServesCurrentSchema`,
`MigrateEnds` and `StoppingEnds` (both in `ProcessesEnd`). Two releases, of which
the new one merged a migration below the old one's highest; two runs, one server
of the new release, one fault. Fairness: a process that can take a step takes it. A request need
never be answered, which is what the shutdown timeout is for.

**CliTokens.** `file` and `lock` are the token file and its lock, `proc[p]` a
command, `orphans` renewals that were sent by commands since killed. The server
is `SessionContract`. `ReplaysComeOfFailures`, `KeptTokensUsable`,
`TokenCommandEnds` (in `ProcessesEnd`). Two `token` commands and a `login`, one
failure, clock to 3. Fairness: a command goes on and time passes.

**Discovery.** `mu`, `verifier`, `failed`, `backoff` and `wait` are the lazy
verifier's fields, `cb[c]` a callback with what is left of its deadline.
`DialsSpaced` (an action property), `Heals` (liveness). The clock is relative
(`since` stops at `Horizon`), so the instance is finite without a bound on time.
Fairness: time passes, callbacks keep coming and get the mutex again and again,
and an outage ends.

## The modules of MCRules

**StateCopy.** Databases are functions from tables to rows; the copy is one
transaction, table by table. Writers on either side take their steps in between,
as far as `LOCK TABLE` lets them. `CopiesOneSnapshot` (an
action property, which also keeps the target's own rows).

**Clients.** Redirect URIs are records of their parts. `TokensNeedProof`
(and codes go where a client is registered; over a restart with another secret).

**Attempts.** The device page's two limiters; an attempt spends one token of
each, looks up, refunds. `FailuresWithinBudget`, which bounds the
limiters' memory as well.

**Policy.** Six configurations, of which a server refuses three; replicas restart
one by one after an edit. Temporal's reading of the claim is external: the OR of
its source and the override of its documentation. `TokenMeansRules` (a token
grants what the rules say, and what they say works), `ChangedRulesTakeEffect`.

**Redaction.** A request's set under its process's, `Scrub` in its lock-by-lock
steps. `ScrubMasksDeclared`.

**KeyWrapping.** Each row is plaintext or sealed under a KEK; `keys encrypt`
walks the rows, `keys generate` adds one, servers start and reload under a KEK.
One `keys` command runs at a time. `KeysStayInService`, an action
property.

**ClientAddress.** A request goes over any chain of hops, and may begin the list
of addresses itself. The limiter has no bound on keys here, `Attempts` has it;
each replica's budget is its own. `EachPaysForItself`.

**VerifierKeys.** `parsed` is the memo, `call[c]` a `Verify` from reading the
published keys to its answer. No reload is held up as long as the grace, so a
key that left does not return. `AnswersByPublished`: a kid that has left is
refused and a published one is found.

## Where the code and its documentation part

Three statements are runs that TLC refutes:

- `sessions_code_replay`: a replayed code "revokes the session that the first
  redemption started" (`docs/operations.md:48`, `oidc/token.go:466-468`). Not when
  the replay arrives before the first redemption has saved: there is no family
  to revoke yet, the replay answers 500, and the session is then saved.
- `signin_reused_row`: deleting an expired row "changes no answer"
  (`state/sqlite/reaper.go:25-26`). The sweep deletes by rowids it read before,
  and a new request may have one of them by then.
- `keys_encrypt_mismatch`: "a mismatched key fails here rather than at the next
  boot" (`keys/encryption.go:94-96`). It fails after the plaintext rows before
  the mismatch were sealed, and no KEK opens the table from then on.

Others were met while modelling and have no run of their own; the properties are
stated so as to allow what the code does:

- `state/doc.go:86-89` says no live token survives in a revoked family. One does
  when the reaper deletes the revoked family while a rotation is between its
  consume and its save (`state/postgres/refresh.go:75`). `RevokedStaysDead` makes
  that exception.
- `state/sqlite/reaper.go:193-195` calls the later delete race-free. A rotation
  in flight at the scan may add a usable token that the delete takes.
- `keys/retire.go:94-95` and `docs/configuration.md:194`: a retirement's swap may
  install a snapshot older than one `Watch` has installed since
  (`keys/retire.go:192`). The next poll repairs it.
- `docs/operations.md:92` and `keys/retire.go:97-99` on a pending replacement:
  `Retire` judges by the snapshot it loaded, not by the table it commits to.
- `oidc/device_token.go:26-27`: a device that lost a `slow_down` answer polls at
  its old pace and is slowed down again.
- `cmd/login.go:84-85`: `login` saves without the file's lock (`cmd/login.go:139`),
  and a renewal already running overwrites what it saved.
- `oidc/connector/google/client.go:49-51`: callbacks in an outage "share one
  attempt". Not when a dial outlasts the backoff. A callback whose own context
  ends also opens the backoff for everyone.
- Of two SQLite `migrate` runs at once one may fail on a version that the other
  applied; `WholeReleases` is about Postgres.

## Proofs

All theorems hold for every value of the constants under the named assumptions
beside them, or the hypothesis they state, which TLC evaluates in every run of
the module. Bounds such as `MaxTime` are arbitrary naturals in the proofs.

**TokenSessions.** `SingleLineage` and its like are not inductive. `IInv` adds:
whatever names a family, some code opened it (`FamiliesOpened`), and that code is
spent (`OpeningSpends`); a token about to be saved has no row and no second
handler (`TokensDrawnOnce`); a revoked family and all its rows stay marked until
it is deleted (`RevokedForGood`); rows and handlers of one family share its
lineage and none outlives it (`LineageInherited`); nothing is left of a family
reaped while no handler held it (`ReapedForGood`). `TokenSessionsProofs` proves
`TypeCorrect` and what a revocation does to rows, then the steps that consume
and draw, then those that store and delete, and puts them together as
`Invariance`, from which follow `OneLineOfDescent`, `RevocationIsFinal`, `LifetimeIsAbsolute`,
`CodesAreSingleUse`, `ReapingIsFinal` and `SessionsAreRevocable`.
`PostgresReaperSpares` needs only that Postgres never dooms a family ahead of
its delete. Assumed: `LifetimesAssumption`, which `ValidateTokenLifetimes`
enforces at boot, `BackendAssumption`, `BoundsAssumption`.

**Refinement.** `SessionsKeepContract`, at the end of the same module, is `Spec => KeepsContract`. One lemma per
kind of step (`ConsumeSpends`, `StoreGrants`, `RevocationEnds`,
`DeletionForgets`) shows the contract's step, from `IInv`; everything else leaves
the mapped variables alone.

**Keyring.** `KeyringProofs` has `TypeCorrect`, `Invariance`,
`ServingReplicaSigns` and `BootGeneratesOneKey`. A replica can sign because the
table never loses its last active key (`TableAlive`), so neither does any
snapshot under way (`OpsAlive`, `RingsAlive`). Boot generates once because two
replicas never hold the bootstrap lock (`BootsApart`). `SigningIsActive` rests on
`Least` and `Greatest`: the oldest mature and the youngest key exist because
creation times are naturals. Assumed: `KidsAssumption`, `DurationsAssumption`.

**Keyring and time.** The same module has `TokensAccepted` and
`RetirementKills`, from `TimeInvariance` (`Spec => []TimeInv`), for any number of
replicas, operators and relying parties and any durations. The argument follows
one change of a row (a key saved, a key retired), stamped `c`:

1. It is committed by `c + Latency`, so a snapshot that misses it was read by
   then (`SnapshotsOld`; snapshots show a row as it is or as it was).
2. A load that misses it began by `c + Latency`, and what an operator or `Watch`
   loaded before the commit is installed by `c + 2 * Latency`. From there every
   failed poll costs a `Reload` and the one that succeeds a `Latency`. So a
   replica that misses the change after `c + Propagation`, where `Propagation`
   is `3 * Latency + (1 + MaxFailures) * Reload`, is overdue, which `Tick`
   forbids (`RingsCatchUp`). The disjunct `now <= c + 2 * Latency` is needed
   when `Latency` exceeds `Reload`: an old snapshot may then undo what a poll
   has brought, and the next poll is not due yet.
3. A relying party that fetched after `c + Propagation` has seen the change
   (`PartiesCurrent`), and it refreshes within `Refresh`.
4. So under the documented rule (`Configured`) a key past its publish delay is
   held by everybody, and tokens are signed by such a key when there is one
   (`SignedMature`). A retired key stays published for the grace, which no
   token outlives.

`MintedTokensAccepted` needs all four, `RetiredKeyLeavesJWKS` the first three.

**DeviceFlow.** `OnePayoutToTheApprover` and `ApproversAreShown`, from
`FlowSound` (`Spec => []IInv`): a row that is decided agrees with the first
decision, an approval a poll has read was that decision, at most one poll has
taken a code's row and then the row is gone, a page names the person of the
session it was rendered for. Timing plays no part in these.

`AcceptedPollsApart` is `Spec => []PollsPaced`, from `PaceInv`. A poll is
accepted against the row's stamp, which is the clock the last poll read and not
when it was applied, so a poll that stalls may put an older stamp over a newer
one. What saves the pace is that at most two polls are in flight and began at
different times (`PollsTimely`, `CliPaces`). An older poll that has not stamped
yet either is not older than the last accepted one, or no third poll begins
before it is over (`NotOvertaken`), and the later of two is past every accepted
one (`LaterIsAhead`). `ClaimsSound` is the SQLite compare-and-swap: while the
stamp is the one the poll read, nobody was accepted in between.

`DecisionsArrive` is `Spec => []DecisionReachesDevice`, from `TurnInv`. While no
call fails the loop has one poll in flight, each is well-paced, and the next
begins within two intervals of the last (`KeepsPace`, `TurnOfPoll`). So after a
decision a poll that reads it begins within two intervals, and ends within
another, unless the code expires first (`Late`). It rests on `IInv` and
`PaceInv`. Assumed: `TTLAssumption`, `NullAssumption`, `CodesAssumption`,
`DeviceBoundsAssumption`.

**Revocation.** `RevocationTakesEffect` (`StalenessBounded`) and `FeedComplete`
(`FeedMissesNothing`), from `Invariance`, for any number of keys, replicas and
revocations. A verification that read no denylist row began before the
revocation committed, or after the row was reaped, when its token had expired
(`VerificationsTimely`, `RowsKept`; this is where `Stall <= Grace` is used). So a
cached answer that admits a revoked key ends by `committedAt + TTL + Stall`
(`EntriesBounded`), however evictions, hydrations and resyncs fall. For the feed:
what nobody has reported is either behind the point a resync will read from, or
was committed after the LISTEN and waits on the connection (`FeedHolds`).
Assumed: `RevocationAssumption`.

**SignIn.** `SignInYieldsOneCode` (`OneCodePerSignIn`) and `RunsEndOnTheirOwn`
(`LoginGetsItsOwn`), from `Invariance`, on either store and for every kind of
answer. A sign-in's turn is in one place: its row, the one handler that took the
row, or its code (`OneTurn`). A handler's copy of the request, its browser and
its person are those of the sign-in (`CallbacksBound`); a redirect names the run
its code was minted for (`RedirectsMinted`); a run exchanges only what it was
sent (`LoginsDecided`). The rowid reuse of `signin_reused_row` only loses
requests, and so disturbs none of these. Assumed: `SignInAssumption`.

The modules of `MCOperations` and `MCRules` share proof modules:
`OperationsProofs` has `CliTokens`, `Deployment` and `Discovery`, `RulesProofs`
has `ClientAddress`, `Clients` and `Policy`, and `SharedStateProofs` has
`Attempts`, `Redaction`, `StateCopy`, `KeyWrapping` and `VerifierKeys`. Each
theorem has its module's `WellFormed` as hypothesis (`VerifierKeys` needs none),
and the two MC modules assume it, so that TLC evaluates it for their instances.

**CliTokens.** `FailuresEndSessions` (`ReplaysComeOfFailures`) and
`KeptAndPrintedAccepted` (`KeptTokensUsable`), from `CliInvariant`, for any number
of `token` and `login` commands at once. A command renews if and only if it
holds the lock (`RenewsLocked`), and a login's new session is nobody else's until
it is saved (`LoginsApart`). There is a set of sessions, no larger than the number
of failures, outside of which whatever the file or a command holds is the
session's current token or is being renewed (`FailuresCount`, `InOrder`): a count
of ended sessions alone would not be inductive, for a failure ends its session
only when the old token is presented again. An expiry is recorded at most
`Latency` late (`DatesKept`), which the skew absorbs. The server in these proofs
is `SessionContract`, which `SessionsKeepContract` shows the token endpoint to
implement.

**Deployment.** `MigrationsWhole` (`WholeReleases`) and `ListenersServe`
(`ServesCurrentSchema`), from `DeploymentInvariant`, for any releases however
their migrations were numbered and merged, any number of runs and servers, any
outages and failures. On Postgres the run that applies holds the lock, and since
only a commit under the lock adds versions, what it read as pending is pending
still and is staged whole when it commits (`LockedRead`); so a commit adds a
release, and no version is met twice. A server past `storeReady` keeps its schema
because versions are only added, and has its keys before a component leaves
"off" (`ServersChecked`). `Lowest` exists because versions are naturals.

**Discovery.** `DialsAreSpaced` (`DialsSpaced`), from `DiscoveryInvariant`. The
callback that dials holds the mutex (`DiallerHolds`). The window of a failure
ends no sooner than its backoff after the failed dial began (`WindowCovers`):
the code counts it from an instant it read before the dial.

**ClientAddress.** `OwnBudgets` (`EachPaysForItself`), from `AddressInvariant`, for
any proxies, addresses, limits and lists. The lemmas say what the right-to-left
walk over the list finds: behind trusted hops, the address the last of them saw,
whatever stands in front of it. `Accounted` bounds what a bucket has let pass
from both sides: by its limit and refills, and from below by what is missing in
it, less the requests a trusted proxy made itself.

**Clients.** `GrantsAreProven` (`TokensNeedProof`), from `ClientsInvariant`, for any
registry, over restarts with other secrets. A serving process has an accepted
registry, so that a redirect URI that matches up to its port is a registered
loopback one.

**Policy.** `RulesTakeEffect` (`ChangedRulesTakeEffect`), from `PolicyInvariant`, for
any configurations: while all replicas run the written one, a token minted from
another has at most `AccessTTL` less the time since they all do left. It holds
for whatever `Resolve` and `ToClaim` compute.

**Attempts.** `FailuresBounded` (`FailuresWithinBudget`), from `AttemptsInvariant`,
for any number of attempts in parallel, any bursts and any bound on tracked
keys. `Paid` is each key's account: the tokens it has left, the attempts that
hold one of its tokens and its failures are within the burst, the refills, and
one fresh burst for every eviction. It has a second case for an evicted key,
since a refund then finds no bucket. `Limiter` says the order lists the
tracked keys once, so that what `Back` evicts is tracked and the memory is
bounded.

**Redaction.** `DeclaredMasked` (`ScrubMasksDeclared`), from `RedactionInvariant`. The
version is no newer than the sets, and while it is theirs the cached replacer
covers both (`Current`); a `Scrub` between its locks has lost nothing declared
before it looked (`ScrubSound`).

**StateCopy.** `OneSnapshotCopied` (`CopiesOneSnapshot`, an action property), from
`CopyInvariant`. From its lock on the copy keeps other writers off the target, so
what `clearForImport` saw of it is so at the commit (`HoldsTarget`); what is staged
so far is of one state the source was in since the copy began
(`StagesSnapshot`).

**KeyWrapping.** `RotationsAndReloadsKeep` (`KeysStayInService`, an action
property), from `WrappingInvariant`: a command about to save has opened every row
there is, and no step forgets a row.

**VerifierKeys.** `KeysAnswerByPublished` (`AnswersByPublished`), from `MemoSound`:
the memo's set was parsed for its kids, a call's set for the kids it read, and
those are disjoint from the kids that had left when it began.

Only model-checked: all liveness (`DeadRowsReclaimed`, `RetiredKeyFallsIdle`,
`LoginEnds`, `ProcessesEnd`, `Heals`), which the prover does not reach; and
`TokenMeansRules`, which is about what folds over the rules compute and takes an
induction over data.

Type correctness is proved for every module but `SessionContract`, whose
variables `TokenSessions` and `CliTokens` give their types, as part of the
invariants; for `Clients` and `Policy` as far as their invariants speak of the
variables.

## Not modelled

- The admin guard: checks of one request against the configuration, with no
  state of their own.
- The HTTP surface, rendering, form parsing, and the claims of the JWTs other
  than `permissions`: conversions of single values.
- Configuration and wiring: read once at start. The limits it enforces are the
  assumptions on the constants.
- Logging and telemetry, listings and the explain command: output only.
- Cryptography: signatures, MACs, hashes and sealing are what they promise (a
  sealed row opens under its KEK and under no other).
- Rows written before sessions had a subject, and the conversion of single
  values by the state copy.
- The deletion of expired browser sessions: an expired one is refused whether
  its row is there or not.
- Two `keys` commands at once. A `keys generate` without a KEK beside a
  `keys encrypt` may leave a plaintext row, and a server running without a KEK
  fails every reload after an encryption; neither is covered by a property.
