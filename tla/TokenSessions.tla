--------------------------- MODULE TokenSessions ---------------------------
(***************************************************************************)
(* Sessions as the token endpoint runs them: POST /token handlers (the     *)
(* authorization-code and refresh-token grants of oidc/token.go), the two  *)
(* tables they share with every other replica (auth_codes and              *)
(* refresh_tokens, plus refresh_families on Postgres), operator            *)
(* revocation, and the reaper of expired rows.                             *)
(*                                                                         *)
(* One step is one store statement or transaction.  Between two of them    *)
(* any other handler, an operator, the reaper or the clock may move, and a *)
(* handler may die.  A handler reads the clock once when it begins and     *)
(* once more when it issues, as the code does, and compares and stores     *)
(* those values however late the statement runs.                           *)
(***************************************************************************)
EXTENDS Naturals

CONSTANTS
    Codes,        \* authorization codes the callback may mint
    Families,     \* family ids randomFamilyID may draw
    Tokens,       \* refresh-token values newRefresh may draw
    Procs,        \* /token requests in flight, over every replica
    Clients,      \* registered clients
    People,       \* identities: a connector and an upstream subject
    CodeTTL, RefreshTTL, MaxLifetime,
    Backend,      \* which store: "postgres" or "sqlite"
    MaxTime,      \* bound on the clock
    MaxFailures   \* bound on handlers and sweeps that die half way

ASSUME LifetimesAssumption ==
    /\ CodeTTL \in Nat /\ RefreshTTL \in Nat /\ MaxLifetime \in Nat
    /\ 0 < RefreshTTL /\ RefreshTTL <= MaxLifetime

ASSUME BackendAssumption == Backend \in {"postgres", "sqlite"}

ASSUME BoundsAssumption == MaxTime \in Nat /\ MaxFailures \in Nat

VARIABLES
    now,             \* the application clock
    codes,           \* auth_codes
    tokens,          \* refresh_tokens
    families,        \* refresh_families (Postgres only)
    doomed,          \* families a SQLite sweep has judged dead and not yet deleted
    req,             \* the handlers
    failures,        \* how many handlers and sweeps have died
    openedBy,        \* history: <<f, c>> once redeeming code c has drawn family f
    everRevoked,     \* history: families some revocation has covered
    everReaped,      \* history: families the reaper has deleted
    reapedUnder,     \* history: those deleted under a handler about to add to them
    replayAnswered   \* history: families whose code's replay has been answered

vars == <<now, codes, tokens, families, doomed, req, failures,
          openedBy, everRevoked, everReaped, reapedUnder, replayAnswered>>

-----------------------------------------------------------------------------
(* Rows.  An id not yet drawn is "unborn", one whose row was deleted "gone".*)

SignIn == [family : Families, client : Clients, owner : People]

Lineage == [family : Families, client : Clients, owner : People, authTime : Nat]

Absent == [st : {"unborn", "gone"}]

CodeRow ==
    Absent
      \cup [st : {"live"}, client : Clients, owner : People, expires : Nat]
      \cup [st : {"consumed"}, client : Clients, owner : People, expires : Nat,
            family : Families]

TokenRow ==
    Absent \cup [st : {"live", "consumed"}, revoked : BOOLEAN, lin : Lineage, expires : Nat]

Idle == [pc |-> "idle"]

Request ==
    {Idle}
      \cup [pc : {"consume_code"}, now : Nat, code : Codes, client : Clients]
      \cup [pc : {"probe_code"}, code : Codes]
      \cup [pc : {"consume_refresh"}, now : Nat, token : Tokens, client : Clients]
      \cup [pc : {"probe_refresh"}, token : Tokens, client : Clients]
      \cup [pc : {"issue_code"}, lin : SignIn]
      \cup [pc : {"issue_refresh"}, lin : Lineage]
      \cup [pc : {"save"}, token : Tokens, lin : Lineage, expires : Nat]
      \cup [pc : {"revoke_code", "revoke_refresh"}, family : Families]

Opened(f) == \E c \in Codes : <<f, c>> \in openedBy

\* Mutants: the UPDATE returns the row and forgets consumed_at; the tombstone
\* loses its expiry.
TombstoneForgotten(row) == row

TombstoneUndated(row) == [st |-> "consumed", revoked |-> row.revoked, lin |-> row.lin]

Tombstone(row) ==
    [st |-> "consumed", revoked |-> row.revoked, lin |-> row.lin, expires |-> row.expires]

Revoked(row) ==
    [st |-> row.st, revoked |-> TRUE, lin |-> row.lin, expires |-> row.expires]

Row(t) == tokens[t].st \in {"live", "consumed"}

Live(t) == tokens[t].st = "live" /\ ~tokens[t].revoked

InFamily(t, f) == Row(t) /\ tokens[t].lin.family = f

\* Mutant: SaveRefresh inserts without looking at the family.
FamilyRevokedUnread(f) == FALSE

\* The family's revocation as SaveRefresh reads it, and whether
\* RevokeRefreshFamily finds the family at all: Postgres keeps a row per
\* family, SQLite reads both off the tokens.
FamilyRevoked(f) ==
    IF Backend = "postgres"
      THEN families[f] = "revoked"
      ELSE \E t \in Tokens : InFamily(t, f) /\ tokens[t].revoked

FamilyKnown(f) ==
    IF Backend = "postgres"
      THEN families[f] # "none"
      ELSE \E t \in Tokens : InFamily(t, f)

Init ==
    /\ now = 0
    /\ codes = [c \in Codes |-> [st |-> "unborn"]]
    /\ tokens = [t \in Tokens |-> [st |-> "unborn"]]
    /\ families = [f \in Families |-> "none"]
    /\ doomed = {}
    /\ req = [p \in Procs |-> Idle]
    /\ failures = 0
    /\ openedBy = {} /\ everRevoked = {} /\ everReaped = {} /\ reapedUnder = {}
    /\ replayAnswered = {}

-----------------------------------------------------------------------------
(* The authorization-code grant.                                           *)

\* The callback's last step: a fresh code for the person who signed in.
SaveAuthCode(c, u, cl) ==
    /\ codes[c].st = "unborn"
    /\ codes' = [codes EXCEPT ![c] = [st |-> "live", client |-> cl, owner |-> u,
                                      expires |-> now + CodeTTL]]
    /\ UNCHANGED <<now, tokens, families, doomed, req, failures,
                   openedBy, everRevoked, everReaped, reapedUnder, replayAnswered>>

\* A request that passed client authentication and the form checks.
BeginCodeGrant(p, c, cl) ==
    /\ req[p] = Idle
    /\ req' = [req EXCEPT ![p] = [pc |-> "consume_code", now |-> now, code |-> c,
                                  client |-> cl]]
    /\ UNCHANGED <<now, codes, tokens, families, doomed, failures,
                   openedBy, everRevoked, everReaped, reapedUnder, replayAnswered>>

\* What RedeemAuthorizationCode still checks once the code is spent.  valid:
\* the request's redirect_uri and code_verifier are the code's.
Redeemable(r, row, valid) == r.now <= row.expires /\ r.client = row.client /\ valid

\* Mutant: the UPDATE lacks "consumed_at IS NULL".
CodeStored(c) == codes[c].st \in {"live", "consumed"}

CodeLive(c) == codes[c].st = "live"

\* The conditional UPDATE: a live code is spent on the family id this
\* request drew; anything else sends the handler to look for a tombstone.
ConsumeAuthCode(p, valid) ==
    LET r == req[p]  row == codes[r.code] IN
    /\ r.pc = "consume_code"
    /\ \/ /\ CodeLive(r.code)
          /\ \E f \in Families :
               /\ ~Opened(f)
               /\ codes' = [codes EXCEPT ![r.code] =
                              [st |-> "consumed", client |-> row.client, owner |-> row.owner,
                               expires |-> row.expires, family |-> f]]
               /\ openedBy' = openedBy \cup {<<f, r.code>>}
               /\ req' = [req EXCEPT ![p] =
                            IF Redeemable(r, row, valid)
                              THEN [pc |-> "issue_code",
                                    lin |-> [family |-> f, client |-> row.client,
                                             owner |-> row.owner]]
                              ELSE Idle]
       \/ /\ ~CodeLive(r.code)
          /\ req' = [req EXCEPT ![p] = [pc |-> "probe_code", code |-> r.code]]
          /\ UNCHANGED <<codes, openedBy>>
    /\ UNCHANGED <<now, tokens, families, doomed, failures,
                   everRevoked, everReaped, reapedUnder, replayAnswered>>

\* The second statement: a tombstone means a replay, and its family goes.
ProbeAuthCode(p) ==
    LET r == req[p]  row == codes[r.code] IN
    /\ r.pc = "probe_code"
    /\ req' = [req EXCEPT ![p] =
                 IF row.st = "consumed"
                   THEN [pc |-> "revoke_code", family |-> row.family]
                   ELSE Idle]
    /\ UNCHANGED <<now, codes, tokens, families, doomed, failures,
                   openedBy, everRevoked, everReaped, reapedUnder, replayAnswered>>

-----------------------------------------------------------------------------
(* The refresh-token grant.                                                *)

\* A client presents a token it was once given.
BeginRefreshGrant(p, t, cl) ==
    /\ req[p] = Idle
    /\ tokens[t].st # "unborn"
    /\ req' = [req EXCEPT ![p] = [pc |-> "consume_refresh", now |-> now, token |-> t,
                                  client |-> cl]]
    /\ UNCHANGED <<now, codes, tokens, families, doomed, failures,
                   openedBy, everRevoked, everReaped, reapedUnder, replayAnswered>>

\* The absolute end of a session, judged by the instant a handler holds.
Ended(at, lin) == lin.authTime + MaxLifetime <= at

\* The conditional UPDATE, and the checks the grant makes on the row it got.
\* admitted: the session's connector is configured and its email's domain
\* allowed, by the configuration of whichever replica runs this handler.
ConsumeRefresh(p, admitted) ==
    LET r == req[p]  row == tokens[r.token] IN
    /\ r.pc = "consume_refresh"
    /\ \/ /\ Live(r.token) /\ row.lin.client = r.client
          /\ tokens' = [tokens EXCEPT ![r.token] = Tombstone(row)]
          /\ req' = [req EXCEPT ![p] =
                       IF row.expires < r.now \/ Ended(r.now, row.lin) THEN Idle
                       ELSE IF admitted THEN [pc |-> "issue_refresh", lin |-> row.lin]
                       ELSE [pc |-> "revoke_refresh", family |-> row.lin.family]]
       \/ /\ ~(Live(r.token) /\ row.lin.client = r.client)
          /\ req' = [req EXCEPT ![p] = [pc |-> "probe_refresh", token |-> r.token,
                                        client |-> r.client]]
          /\ UNCHANGED tokens
    /\ UNCHANGED <<now, codes, families, doomed, failures,
                   openedBy, everRevoked, everReaped, reapedUnder, replayAnswered>>

ProbeRefresh(p) ==
    LET r == req[p]  row == tokens[r.token] IN
    /\ r.pc = "probe_refresh"
    /\ req' = [req EXCEPT ![p] =
                 IF row.st = "consumed" /\ row.lin.client = r.client
                   THEN [pc |-> "revoke_refresh", family |-> row.lin.family]
                   ELSE Idle]
    /\ UNCHANGED <<now, codes, tokens, families, doomed, failures,
                   openedBy, everRevoked, everReaped, reapedUnder, replayAnswered>>

-----------------------------------------------------------------------------
(* What both grants end in: issue, SaveRefresh, or revokeFamily.           *)

Drawn(t) == \E p \in Procs : req[p].pc = "save" /\ req[p].token = t

IssueExpiry(at, lin) ==
    IF lin.authTime + MaxLifetime < at + RefreshTTL
      THEN lin.authTime + MaxLifetime
      ELSE at + RefreshTTL

\* Mutant: every rotation dates the sign-in afresh.
IssueLineageRedated(r) ==
    [family |-> r.lin.family, client |-> r.lin.client, owner |-> r.lin.owner, authTime |-> now]

\* The session a grant continues: a redeemed code's sign-in is dated by the
\* clock as it is issued, a rotation keeps the date it inherited.
IssueLineage(r) ==
    IF r.pc = "issue_refresh" THEN r.lin
    ELSE [family |-> r.lin.family, client |-> r.lin.client, owner |-> r.lin.owner,
          authTime |-> now]

\* granted: the authorization rules give this person some permission.
Issue(p, granted) ==
    LET r == req[p]  lin == IssueLineage(r) IN
    /\ r.pc \in {"issue_code", "issue_refresh"}
    /\ \/ /\ granted
          /\ \E t \in Tokens :
               /\ tokens[t].st = "unborn" /\ ~Drawn(t)
               /\ req' = [req EXCEPT ![p] = [pc |-> "save", token |-> t, lin |-> lin,
                                             expires |-> IssueExpiry(now, lin)]]
       \/ /\ ~granted
          /\ req' = [req EXCEPT ![p] =
                       IF r.pc = "issue_code" THEN Idle
                       ELSE [pc |-> "revoke_refresh", family |-> lin.family]]
    /\ UNCHANGED <<now, codes, tokens, families, doomed, failures,
                   openedBy, everRevoked, everReaped, reapedUnder, replayAnswered>>

\* The child is stored unless its family is revoked.  Postgres creates the
\* family's row in the same transaction when there is none.
SaveRefresh(p) ==
    LET r == req[p]  f == r.lin.family IN
    /\ r.pc = "save"
    /\ IF FamilyRevoked(f)
         THEN UNCHANGED <<tokens, families>>
         ELSE /\ tokens' = [tokens EXCEPT ![r.token] =
                              [st |-> "live", revoked |-> FALSE, lin |-> r.lin,
                               expires |-> r.expires]]
              /\ families' = IF Backend = "postgres"
                               THEN [families EXCEPT ![f] = "live"] ELSE families
    /\ req' = [req EXCEPT ![p] = Idle]
    /\ UNCHANGED <<now, codes, doomed, failures,
                   openedBy, everRevoked, everReaped, reapedUnder, replayAnswered>>

\* Every row of the families in F is stamped revoked, tombstones included.
RevokeRows(F) ==
    /\ tokens' = [t \in Tokens |->
                    IF \E f \in F : InFamily(t, f)
                      THEN Revoked(tokens[t]) ELSE tokens[t]]
    /\ families' = IF Backend = "postgres"
                     THEN [f \in Families |-> IF f \in F THEN "revoked" ELSE families[f]]
                     ELSE families
    /\ everRevoked' = everRevoked \cup F

\* The handler's own revocation.  A family the store does not know is
\* ErrSessionNotFound, which the grant answers with a 500.
RevokeFamily(p) ==
    LET r == req[p] IN
    /\ r.pc \in {"revoke_code", "revoke_refresh"}
    /\ RevokeRows(IF FamilyKnown(r.family) THEN {r.family} ELSE {})
    /\ replayAnswered' = IF r.pc = "revoke_code" THEN replayAnswered \cup {r.family}
                         ELSE replayAnswered
    /\ req' = [req EXCEPT ![p] = Idle]
    /\ UNCHANGED <<now, codes, doomed, failures, openedBy, everReaped, reapedUnder>>

-----------------------------------------------------------------------------
(* Operators, the reaper, the clock, and failures.                         *)

OperatorRevokeFamily(f) ==
    /\ FamilyKnown(f)
    /\ RevokeRows({f})
    /\ UNCHANGED <<now, codes, doomed, req, failures, openedBy, everReaped, reapedUnder, replayAnswered>>

\* By email or by subject: the families with a row of that person.
FamiliesOf(u) ==
    {f \in Families : FamilyKnown(f) /\ \E t \in Tokens : InFamily(t, f) /\ tokens[t].lin.owner = u}

OperatorRevokePerson(u) ==
    /\ RevokeRows(FamiliesOf(u))
    /\ UNCHANGED <<now, codes, doomed, req, failures, openedBy, everReaped, reapedUnder, replayAnswered>>

ReapAuthCode(c) ==
    /\ codes[c].st \in {"live", "consumed"}
    /\ codes[c].expires < now
    /\ codes' = [codes EXCEPT ![c] = [st |-> "gone"]]
    /\ UNCHANGED <<now, tokens, families, doomed, req, failures,
                   openedBy, everRevoked, everReaped, reapedUnder, replayAnswered>>

\* Mutants: rows go as soon as they expire, used or not; rows never used stay.
SpentAtExpiry(t) == Ended(now, tokens[t].lin) \/ tokens[t].expires <= now

SpentOnceUsed(t) ==
    (tokens[t].st = "consumed" \/ tokens[t].revoked) /\ tokens[t].expires < now

\* A row no presentation could turn into a session any more.
Spent(t) ==
    \/ Ended(now, tokens[t].lin)
    \/ (tokens[t].st = "consumed" \/ tokens[t].revoked) /\ tokens[t].expires < now

FamilySpent(f) == FamilyKnown(f) /\ \A t \in Tokens : InFamily(t, f) => Spent(t)

\* A handler between consuming this family's code or token and saving the
\* next one.
Holds(p, f) ==
    req[p].pc \in {"issue_code", "issue_refresh", "save"} /\ req[p].lin.family = f

\* Mutant: the DELETE takes the tombstones and leaves a token never used.
DeleteTombstones(f) ==
    /\ tokens' = [t \in Tokens |-> IF InFamily(t, f) /\ tokens[t].st = "consumed"
                                     THEN [st |-> "gone"] ELSE tokens[t]]
    /\ families' = [families EXCEPT ![f] = "none"]
    /\ everReaped' = everReaped \cup {f}
    /\ UNCHANGED <<now, codes, req, failures, openedBy, everRevoked, reapedUnder, replayAnswered>>

DeleteFamily(f) ==
    /\ tokens' = [t \in Tokens |-> IF InFamily(t, f) THEN [st |-> "gone"] ELSE tokens[t]]
    /\ families' = [families EXCEPT ![f] = "none"]
    /\ everReaped' = everReaped \cup {f}
    /\ reapedUnder' = IF \E p \in Procs : Holds(p, f) THEN reapedUnder \cup {f} ELSE reapedUnder
    /\ UNCHANGED <<now, codes, req, failures, openedBy, everRevoked, replayAnswered>>

\* Postgres picks and deletes a dead family in one statement.
PostgresReapFamily(f) ==
    /\ Backend = "postgres"
    /\ FamilySpent(f)
    /\ DeleteFamily(f)
    /\ UNCHANGED doomed

\* SQLite first reads every row, then deletes the families it judged dead.
SqliteScan ==
    /\ Backend = "sqlite" /\ doomed = {}
    /\ doomed' = {f \in Families : FamilySpent(f)}
    /\ UNCHANGED <<now, codes, tokens, families, req, failures,
                   openedBy, everRevoked, everReaped, reapedUnder, replayAnswered>>

SqliteDeleteFamily(f) ==
    /\ f \in doomed
    /\ doomed' = doomed \ {f}
    /\ DeleteFamily(f)

Tick ==
    /\ now < MaxTime
    /\ now' = now + 1
    /\ UNCHANGED <<codes, tokens, families, doomed, req, failures,
                   openedBy, everRevoked, everReaped, reapedUnder, replayAnswered>>

\* A statement fails, the client hangs up, or the replica stops: the handler
\* returns without its remaining steps.
Abandon(p) ==
    /\ req[p] # Idle /\ failures < MaxFailures
    /\ req' = [req EXCEPT ![p] = Idle]
    /\ failures' = failures + 1
    /\ UNCHANGED <<now, codes, tokens, families, doomed,
                   openedBy, everRevoked, everReaped, reapedUnder, replayAnswered>>

\* A failed sweep forgets what it had judged; the next one starts over.
AbandonSweep ==
    /\ doomed # {} /\ failures < MaxFailures
    /\ doomed' = {}
    /\ failures' = failures + 1
    /\ UNCHANGED <<now, codes, tokens, families, req,
                   openedBy, everRevoked, everReaped, reapedUnder, replayAnswered>>

HandlerStep(p) ==
    \/ \E ok \in BOOLEAN : ConsumeAuthCode(p, ok) \/ ConsumeRefresh(p, ok) \/ Issue(p, ok)
    \/ ProbeAuthCode(p) \/ ProbeRefresh(p) \/ SaveRefresh(p) \/ RevokeFamily(p)

ReaperStep ==
    \/ \E c \in Codes : ReapAuthCode(c)
    \/ \E f \in Families : PostgresReapFamily(f) \/ SqliteDeleteFamily(f)
    \/ SqliteScan

Next ==
    \/ \E c \in Codes, u \in People, cl \in Clients : SaveAuthCode(c, u, cl)
    \/ \E p \in Procs, c \in Codes, cl \in Clients : BeginCodeGrant(p, c, cl)
    \/ \E p \in Procs, t \in Tokens, cl \in Clients : BeginRefreshGrant(p, t, cl)
    \/ \E p \in Procs : HandlerStep(p) \/ Abandon(p)
    \/ \E f \in Families : OperatorRevokeFamily(f)
    \/ \E u \in People : OperatorRevokePerson(u)
    \/ ReaperStep
    \/ AbandonSweep
    \/ Tick

Spec == Init /\ [][Next]_vars

\* The server's own work goes on: a handler takes its next step, the reaper
\* sweeps, time passes.  Sign-ins, presentations, operators and failures owe
\* nothing.
Fairness ==
    /\ \A p \in Procs : WF_vars(HandlerStep(p))
    /\ WF_vars(ReaperStep)
    /\ WF_vars(Tick)

FairSpec == Spec /\ Fairness

-----------------------------------------------------------------------------
(* Properties.                                                             *)

\* Every row, handler and history value has its type.
TypeOK ==
    /\ now \in 0..MaxTime /\ failures \in 0..MaxFailures
    /\ codes \in [Codes -> CodeRow]
    /\ tokens \in [Tokens -> TokenRow]
    /\ families \in [Families -> {"none", "live", "revoked"}]
    /\ req \in [Procs -> Request]
    /\ openedBy \subseteq Families \X Codes
    /\ doomed \subseteq Families /\ everRevoked \subseteq Families
    /\ everReaped \subseteq Families /\ reapedUnder \subseteq Families
    /\ replayAnswered \subseteq Families

\* A session is one line of descent: whatever the interleaving of concurrent
\* presentations, a family has at most one token that ConsumeRefresh would
\* accept or one handler about to save the next, never two of either kind nor
\* one of each.
SingleLineage ==
    \A f \in Families :
      /\ \A t, u \in Tokens : Live(t) /\ Live(u) /\ InFamily(t, f) /\ InFamily(u, f) => t = u
      /\ \A p \in Procs, t \in Tokens : Holds(p, f) /\ InFamily(t, f) => ~Live(t)
      /\ \A p, q \in Procs : Holds(p, f) /\ Holds(q, f) => p = q

\* A revocation is final: however a rotation interleaves with it, no token of
\* the family is accepted afterwards, until the reaper forgets the family.
RevokedStaysDead ==
    \A f \in everRevoked \ everReaped : \A t \in Tokens : InFamily(t, f) => ~Live(t)

\* Rotation renews the idle window and nothing else: every row of a family
\* carries the client, the person and the sign-in time of the first one, and
\* none outlives that sign-in by more than the maximum lifetime.
SessionNeverExtended ==
    \A t, u \in Tokens :
      Row(t) /\ Row(u) /\ tokens[t].lin.family = tokens[u].lin.family =>
        /\ tokens[t].lin = tokens[u].lin
        /\ tokens[t].expires <= tokens[u].lin.authTime + MaxLifetime

\* An authorization code starts one session at most, however many requests
\* present it at once.
OneFamilyPerCode ==
    \A f, g \in Families, c \in Codes :
      <<f, c>> \in openedBy /\ <<g, c>> \in openedBy => f = g

\* A reaped family comes back only through a handler that was already between
\* its consume and its save when the rows went.
ReapedStaysDead ==
    \A f \in everReaped \ reapedUnder : \A t \in Tokens : InFamily(t, f) => ~Live(t)

\* Every stored token can be revoked: the family it names is one that
\* RevokeRefreshFamily and revocation by person find.
EverySessionRevocable ==
    \A t \in Tokens : Row(t) => FamilyKnown(tokens[t].lin.family)

Usable(t) == Live(t) /\ ~(tokens[t].expires < now) /\ ~Ended(now, tokens[t].lin)

\* The reaper never takes a token the refresh grant would still accept.
ReaperSparesUsable ==
    [][\A t \in Tokens : Usable(t) => tokens'[t].st # "gone"]_vars

\* Nothing is kept for ever: once a session is past its maximum lifetime each
\* of its rows is deleted, used or not, and so is every expired code.
DeadRowsReclaimed ==
    /\ \A t \in Tokens : Row(t) /\ Ended(now, tokens[t].lin) ~> ~Row(t)
    /\ \A c \in Codes :
         codes[c].st \in {"live", "consumed"} /\ codes[c].expires < now ~> codes[c].st = "gone"

-----------------------------------------------------------------------------
(* The contract this module implements.                                    *)

\* The token each session would accept, the tokens no session would accept
\* again, and the sessions recorded as revoked, read off the rows.
Accepted == {x \in Families \X Tokens : InFamily(x[2], x[1]) /\ Live(x[2])}

Used == {t \in Tokens : tokens[t].st \in {"consumed", "gone"} \/ (Row(t) /\ tokens[t].revoked)}

Contract ==
    INSTANCE SessionContract
    WITH current <- Accepted, spent <- Used, ended <- {f \in Families : FamilyRevoked(f)}

\* Either store, behind any interleaving of the grants, the operators and the
\* reaper, keeps the contract of module SessionContract: one accepted token per
\* session, each accepted once, none given out by a session recorded as revoked.
KeepsContract == Contract!Spec

-----------------------------------------------------------------------------
(* The inductive invariant the proofs rest on.                             *)

\* Whatever row, handler or sweep names a family, some code opened it.
FamiliesOpened ==
    /\ \A t \in Tokens : Row(t) => Opened(tokens[t].lin.family)
    /\ \A p \in Procs, f \in Families : Holds(p, f) => Opened(f)
    /\ \A f \in Families : families[f] # "none" \/ f \in doomed \/ f \in everReaped => Opened(f)

\* A code that opened a family is spent.
OpeningSpends ==
    \A f \in Families, c \in Codes : <<f, c>> \in openedBy => codes[c].st \in {"consumed", "gone"}

\* A token about to be saved has no row and no second handler.
TokensDrawnOnce ==
    /\ \A p \in Procs : req[p].pc = "save" => tokens[req[p].token].st = "unborn"
    /\ \A p, q \in Procs :
         req[p].pc = "save" /\ req[q].pc = "save" /\ req[p].token = req[q].token => p = q

\* A revoked family is refused by SaveRefresh as well as by ConsumeRefresh.
RevokedForGood ==
    \A f \in everRevoked \ everReaped :
      /\ FamilyRevoked(f)
      /\ \A t \in Tokens : InFamily(t, f) => tokens[t].revoked

\* No token stored or about to be outlives its session.
ExpiryCapped ==
    /\ \A t \in Tokens : Row(t) => tokens[t].expires <= tokens[t].lin.authTime + MaxLifetime
    /\ \A p \in Procs :
         req[p].pc = "save" => req[p].expires <= req[p].lin.authTime + MaxLifetime

\* The rows of a family tell of one sign-in.
LineageShared ==
    \A t, u \in Tokens :
      Row(t) /\ Row(u) /\ tokens[t].lin.family = tokens[u].lin.family
        => tokens[t].lin = tokens[u].lin

\* A handler carries the lineage of the rows it adds to.
HolderInherits ==
    \A p \in Procs, t \in Tokens :
      Row(t) /\ Holds(p, tokens[t].lin.family)
        => req[p].pc \in {"issue_refresh", "save"} /\ req[p].lin = tokens[t].lin

LineageInherited == ExpiryCapped /\ LineageShared /\ HolderInherits

\* Nothing is left of a family reaped while no handler held it.
ReapedForGood ==
    \A f \in everReaped \ reapedUnder :
      /\ \A t \in Tokens : InFamily(t, f) => ~Live(t)
      /\ \A p \in Procs : ~Holds(p, f)

IInv ==
    /\ TypeOK /\ FamiliesOpened /\ OpeningSpends /\ TokensDrawnOnce
    /\ SingleLineage /\ RevokedForGood /\ LineageInherited /\ OneFamilyPerCode /\ ReapedForGood
    /\ EverySessionRevocable

-----------------------------------------------------------------------------
(* What the repository's comments promise, to compare with what is checked. *)

\* oidc/token.go on a replayed authorization code: "what the first redemption
\* issued is revoked".
CodeReplayEndsSession ==
    \A f \in replayAnswered : \A t \in Tokens : InFamily(t, f) => ~Live(t)
=============================================================================
