----------------------------- MODULE DeviceFlow -----------------------------
(***************************************************************************)
(* The device authorization flow: the device_codes table of either store,  *)
(* the POST /token handlers that poll it, the verification pages on which  *)
(* a signed-in person approves or denies a code, and the command line that *)
(* asked for the code and polls until it is told the outcome.              *)
(*                                                                         *)
(* One step is one store statement or transaction, one answer, or one turn *)
(* of the command line's loop.  The clock counts intervals of five seconds *)
(* (the poll interval, and the amount each slow_down adds to it); it       *)
(* starts at 1, and 0 stands for a NULL time.                              *)
(***************************************************************************)
EXTENDS Naturals, Sequences

CONSTANTS
    Codes,        \* device codes, each with its user code
    Sids,         \* browser-session ids IssueCookie may draw
    Browsers,     \* browsers that open the verification pages
    Requests,     \* decisions in flight from the verification pages
    Handlers,     \* /token polls in flight, over every replica
    People,       \* identities the sign-in may establish
    CodeTTL, SessionTTL, StateTTL,
    NoSid,        \* a browser without a session cookie
    Nobody,       \* a code without an approver
    MaxTime,      \* bound on the clock
    MaxFailures   \* bound on lost calls and failed statements

ASSUME TTLAssumption ==
    CodeTTL \in Nat \ {0} /\ SessionTTL \in Nat \ {0} /\ StateTTL \in Nat

ASSUME NullAssumption == NoSid \notin Sids /\ Nobody \notin People

ASSUME CodesAssumption == Codes # {}

ASSUME DeviceBoundsAssumption == MaxTime \in Nat /\ MaxFailures \in Nat

VARIABLES
    backend,      \* the configured store
    now,
    codes,        \* device_codes
    sessions,     \* browser_sessions
    cookie,       \* per browser, the session id of its cookie
    bounce,       \* per browser, the signed state of its sign-in bounce
    page,         \* per browser, the confirm page it displays
    ui,           \* the verification-page handlers about to decide a code
    poll,         \* the /token handlers
    cli,          \* the command line's loop
    failures,
    decided,      \* history: per code, the first decision and who was shown it
    tokens,       \* history: per code, whom tokens were issued to
    paced,        \* history: per code, the clock of the last poll not slowed down
    rushed        \* history: codes with two such polls less than an interval apart

vars == <<backend, now, codes, sessions, cookie, bounce, page, ui, poll, cli,
          failures, decided, tokens, paced, rushed>>

browserVars == <<sessions, cookie, bounce, page, ui>>

\* oidc.defaultPollInterval, the slow_down bump and cli.slowDownBump: five
\* seconds each, and cli.transientBackoffCap.
DefaultInterval == 1

Bump == 1

BackoffCap == 4

Least(a, b) == IF a < b THEN a ELSE b

-----------------------------------------------------------------------------
(* Rows and requests.                                                      *)

CodeStatus == {"unborn", "pending", "approved", "denied", "gone"}

CodeRow ==
    [st : CodeStatus, who : People \cup {Nobody}, expires : Nat, last : Nat, interval : Nat]

Outcome == {"none", "pending", "slow_down", "token", "denied", "expired", "invalid", "error"}

PollRequest ==
    [pc : {"idle", "lookup", "poll", "claim", "slow", "consume", "issue", "answer"},
     code : Codes, since : Nat, at : Nat, seen : CodeStatus, expires : Nat, last : Nat,
     who : People \cup {Nobody}, out : Outcome]

UIRequest ==
    [pc : {"idle", "flip", "update"}, code : Codes,
     verdict : {"approved", "denied"}, who : People \cup {Nobody}, shown : People \cup {Nobody}]

Decision == [verdict : {"none", "approved", "denied"}, who : People \cup {Nobody},
             shown : People \cup {Nobody}, at : Nat]

AnyCode == CHOOSE d \in Codes : TRUE

IdlePoll ==
    [pc |-> "idle", code |-> AnyCode, since |-> 0, at |-> 0, seen |-> "unborn", expires |-> 0,
     last |-> 0, who |-> Nobody, out |-> "none"]

IdleUI ==
    [pc |-> "idle", code |-> AnyCode, verdict |-> "denied", who |-> Nobody, shown |-> Nobody]

NoPage == [code |-> AnyCode, sid |-> NoSid, who |-> Nobody]

\* Slots and session ids are interchangeable: the first free one is taken.
IsFirst(x, S) == x \in S /\ x = CHOOSE y \in S : TRUE

FreeHandlers == {h \in Handlers : poll[h].pc = "idle"}

FreeRequests == {q \in Requests : ui[q].pc = "idle"}

FreshSids == {s \in Sids : sessions[s].who = Nobody}

Row(d) == codes[d].st \in {"pending", "approved", "denied"}

Init ==
    /\ backend \in {"postgres", "sqlite"}
    /\ now = 1
    /\ codes = [d \in Codes |->
                  [st |-> "unborn", who |-> Nobody, expires |-> 0, last |-> 0, interval |-> 0]]
    /\ sessions = [s \in Sids |-> [who |-> Nobody, expires |-> 0]]
    /\ cookie = [b \in Browsers |-> NoSid]
    /\ bounce = [b \in Browsers |-> [code |-> AnyCode, expires |-> 0]]
    /\ page = [b \in Browsers |-> NoPage]
    /\ ui = [q \in Requests |-> IdleUI]
    /\ poll = [h \in Handlers |-> IdlePoll]
    /\ cli = [pc |-> "start", code |-> AnyCode, interval |-> 0, backoff |-> 0, start |-> 0,
              wake |-> 0, on |-> {}, out |-> "none"]
    /\ failures = 0
    /\ decided = [d \in Codes |-> [verdict |-> "none", who |-> Nobody, shown |-> Nobody, at |-> 0]]
    /\ tokens = [d \in Codes |-> <<>>]
    /\ paced = [d \in Codes |-> 0] /\ rushed = {}

-----------------------------------------------------------------------------
(* POST /device_authorization, and the loop the command line then enters.  *)

\* mint's row, and SaveDeviceCode: neither half of the code is in use.
NewCode ==
    [st |-> "pending", who |-> Nobody, expires |-> now + CodeTTL, last |-> 0,
     interval |-> DefaultInterval]

SaveDeviceCode(d) == codes[d].st = "unborn" /\ codes' = [codes EXCEPT ![d] = NewCode]

\* Run: the loop starts at once with the interval and the lifetime it was told.
CliStarts(d) ==
    [pc |-> "sleep", code |-> d, interval |-> DefaultInterval, backoff |-> DefaultInterval,
     start |-> now, wake |-> now, on |-> {}, out |-> "none"]

\* handle.  The command line gives up when the answer is lost.
DeviceAuthorization(d) ==
    /\ cli.pc = "start" /\ now + CodeTTL < MaxTime
    /\ SaveDeviceCode(d)
    /\ \/ cli' = CliStarts(d) /\ UNCHANGED failures
       \/ /\ failures < MaxFailures /\ failures' = failures + 1
          /\ cli' = [cli EXCEPT !.pc = "end", !.out = "error"]
    /\ UNCHANGED <<backend, now, browserVars, poll, decided, tokens, paced, rushed>>

CliEnds(out) == cli' = [cli EXCEPT !.pc = "end", !.out = out, !.on = {}]

\* The top of pollLoop: give up past the deadline, else POST /token.
CliTurn(h) ==
    /\ cli.pc = "sleep" /\ cli.wake <= now
    /\ IF now - cli.start >= CodeTTL
         THEN CliEnds("expired") /\ UNCHANGED poll
         ELSE /\ IsFirst(h, FreeHandlers)
              /\ poll' = [poll EXCEPT ![h] = [IdlePoll EXCEPT !.pc = "lookup", !.code = cli.code,
                                                              !.since = now]]
              /\ cli' = [cli EXCEPT !.pc = "await", !.on = {h}]
    /\ UNCHANGED <<backend, now, codes, browserVars, failures, decided, tokens, paced, rushed>>

CliSleeps(interval, sleep, backoff) ==
    cli' = [cli EXCEPT !.pc = "sleep", !.on = {}, !.interval = interval, !.wake = now + sleep,
                       !.backoff = backoff]

\* actionTransient: sleep the backoff and double it, at most BackoffCap intervals.
CliTransient ==
    CliSleeps(cli.interval, cli.backoff, Least(2 * cli.backoff, BackoffCap * cli.interval))

\* pollOnce's reading of an answer, and the turn's end.
CliHears(out) ==
    CASE out = "pending" -> CliSleeps(cli.interval, cli.interval, cli.interval)
      [] out = "slow_down" ->
           CliSleeps(cli.interval + Bump, cli.interval + Bump, cli.interval + Bump)
      [] out = "error" -> CliTransient
      [] OTHER -> CliEnds(out)

\* The connection fails before the answer: the loop goes on, and so may the
\* handler it gave up on.
CliLosesAnswer ==
    /\ cli.pc = "await" /\ failures < MaxFailures
    /\ failures' = failures + 1
    /\ CliTransient
    /\ UNCHANGED <<backend, now, codes, browserVars, poll, decided, tokens, paced, rushed>>

-----------------------------------------------------------------------------
(* deviceCodeGrant, statement by statement.                                *)

Reply(h, out) == poll' = [poll EXCEPT ![h].pc = "answer", ![h].out = out]

\* LookupDeviceCodeByDeviceCode, and the clock read after it.  The command
\* line presents the client id the code was issued to.
Lookup(h) ==
    /\ poll[h].pc = "lookup"
    /\ LET row == codes[poll[h].code] IN
         IF Row(poll[h].code)
           THEN poll' = [poll EXCEPT ![h].pc = "poll", ![h].at = now, ![h].seen = row.st,
                                     ![h].expires = row.expires]
           ELSE Reply(h, "invalid")
    /\ UNCHANGED <<backend, now, codes, browserVars, cli, failures, decided, tokens, paced, rushed>>

\* Mutant: a poll exactly one interval after the last is early.
WellPacedStrictly(at, last, interval) == last = 0 \/ at > last + interval

WellPaced(at, last, interval) == last = 0 \/ at >= last + interval

\* Where a well-paced poll goes on, from the row Lookup read: an expired, a
\* denied and an approved code are consumed, a pending one is answered.
Onward(r) ==
    CASE r.at > r.expires -> [r EXCEPT !.pc = "consume", !.out = "expired"]
      [] r.at <= r.expires /\ r.seen = "denied" -> [r EXCEPT !.pc = "consume", !.out = "denied"]
      [] r.at <= r.expires /\ r.seen = "approved" -> [r EXCEPT !.pc = "consume", !.out = "token"]
      [] OTHER -> [r EXCEPT !.pc = "answer", !.out = "pending"]

Accepted(h, d) ==
    /\ codes' = [codes EXCEPT ![d].last = poll[h].at]
    /\ poll' = [poll EXCEPT ![h] = Onward(@)]
    /\ paced' = [paced EXCEPT ![d] = poll[h].at]
    /\ rushed' = IF paced[d] # 0 /\ poll[h].at < paced[d] + DefaultInterval
                   THEN rushed \cup {d} ELSE rushed

SlowedDown(h, d) ==
    /\ codes' = IF Row(d)
                  THEN [codes EXCEPT ![d].last = poll[h].at, ![d].interval = @ + Bump]
                  ELSE codes
    /\ Reply(h, "slow_down")
    /\ UNCHANGED <<paced, rushed>>

Stored(h, p) == poll[h].pc = p /\ Row(poll[h].code)

PacedNow(h) ==
    WellPaced(poll[h].at, codes[poll[h].code].last, codes[poll[h].code].interval)

\* The row is gone since Lookup.
PollNotFound(h) ==
    /\ poll[h].pc = "poll" /\ ~Row(poll[h].code)
    /\ Reply(h, "invalid")
    /\ UNCHANGED <<backend, now, codes, browserVars, cli, failures, decided, tokens, paced, rushed>>

\* Postgres: the row is read and stamped in one transaction, under its lock.
PgPollDeviceCode(h) ==
    /\ Stored(h, "poll") /\ backend = "postgres"
    /\ IF PacedNow(h) THEN Accepted(h, poll[h].code) ELSE SlowedDown(h, poll[h].code)
    /\ UNCHANGED <<backend, now, browserVars, cli, failures, decided, tokens>>

\* SQLite: a read decides between claiming the stamp and reporting slow_down.
SqlitePollDeviceCode(h) ==
    /\ Stored(h, "poll") /\ backend = "sqlite"
    /\ poll' = [poll EXCEPT ![h].pc = IF PacedNow(h) THEN "claim" ELSE "slow",
                            ![h].last = codes[poll[h].code].last]
    /\ UNCHANGED <<backend, now, codes, browserVars, cli, failures, decided, tokens, paced, rushed>>

\* Mutant: the claim does not compare last_polled_at with the value read.
ClaimPollUnconditionally(h) ==
    /\ poll[h].pc = "claim"
    /\ Accepted(h, poll[h].code)
    /\ UNCHANGED <<backend, now, browserVars, cli, failures, decided, tokens>>

\* SQLite's compare-and-swap on last_polled_at.
ClaimPoll(h) ==
    /\ poll[h].pc = "claim"
    /\ LET d == poll[h].code IN
         IF Row(d) /\ codes[d].last = poll[h].last
           THEN Accepted(h, d)
           ELSE poll' = [poll EXCEPT ![h].pc = "slow"] /\ UNCHANGED <<codes, paced, rushed>>
    /\ UNCHANGED <<backend, now, browserVars, cli, failures, decided, tokens>>

SlowDown(h) ==
    /\ poll[h].pc = "slow"
    /\ SlowedDown(h, poll[h].code)
    /\ UNCHANGED <<backend, now, browserVars, cli, failures, decided, tokens>>

\* Mutant: the row is read and stays.
ConsumedRowKept(row) == row

\* DELETE ... RETURNING: the row is gone for every other poll.
ConsumedRow(row) == [row EXCEPT !.st = "gone"]

ConsumeDeviceCode(h) ==
    /\ poll[h].pc = "consume"
    /\ LET d == poll[h].code IN
         /\ codes' = IF Row(d) THEN [codes EXCEPT ![d] = ConsumedRow(@)] ELSE codes
         /\ CASE poll[h].out # "token" -> poll' = [poll EXCEPT ![h].pc = "answer"]
              [] poll[h].out = "token" /\ ~Row(d) -> Reply(h, "invalid")
              [] poll[h].out = "token" /\ Row(d) ->
                   poll' = [poll EXCEPT ![h].pc = "issue", ![h].who = codes[d].who]
    /\ UNCHANGED <<backend, now, browserVars, cli, failures, decided, tokens, paced, rushed>>

\* issue, or access_denied to a person whose last rule is gone.
Issue(h) ==
    /\ poll[h].pc = "issue"
    /\ \/ /\ tokens' = [tokens EXCEPT ![poll[h].code] = Append(@, poll[h].who)]
          /\ Reply(h, "token")
       \/ /\ UNCHANGED tokens
          /\ Reply(h, "denied")
    /\ UNCHANGED <<backend, now, codes, browserVars, cli, failures, decided, paced, rushed>>

\* A statement fails and the handler answers 500.  A failed consume of an
\* expired or a denied row is ignored.
PollFails(h) ==
    /\ poll[h].pc \in {"lookup", "poll", "claim", "slow", "consume", "issue"}
    /\ failures < MaxFailures
    /\ failures' = failures + 1
    /\ Reply(h, IF poll[h].pc = "consume" /\ poll[h].out # "token" THEN poll[h].out ELSE "error")
    /\ UNCHANGED <<backend, now, codes, browserVars, cli, decided, tokens, paced, rushed>>

\* The answer arrives, or nobody waits for it any more.
Answer(h) ==
    /\ poll[h].pc = "answer"
    /\ poll' = [poll EXCEPT ![h] = IdlePoll]
    /\ IF cli.on = {h} THEN CliHears(poll[h].out) ELSE UNCHANGED cli
    /\ UNCHANGED <<backend, now, codes, browserVars, failures, decided, tokens, paced, rushed>>

-----------------------------------------------------------------------------
(* The verification pages.  Every handler that looks a user code up first  *)
(* spends an attempt (module Attempts), which may refuse it at any time.   *)

\* LookupBrowserSession finds the row, and it has not expired.
LiveSession(s) == sessions[s].who # Nobody /\ now < sessions[s].expires

\* SessionManager.Get: the session of the browser's signed cookie.
SessionOf(b) == IF cookie[b] # NoSid /\ LiveSession(cookie[b]) THEN cookie[b] ELSE NoSid

userCodeUsable(d) == codes[d].st = "pending" /\ now <= codes[d].expires

uiRest == <<backend, now, poll, cli, failures, tokens, paced, rushed>>

\* handleEnterPost reads and answers: a browser without a session is bounced
\* to the sign-in with a usable code in a signed state; any other is shown an
\* error or sent to the confirm page.
EnterPost(b, d) ==
    /\ SessionOf(b) = NoSid /\ userCodeUsable(d)
    /\ bounce' = [bounce EXCEPT ![b] = [code |-> d, expires |-> now + StateTTL]]
    /\ UNCHANGED <<uiRest, codes, sessions, cookie, page, ui, decided>>

\* verifyBounceState: a state is good until it expires, for every tab that
\* was sent to sign in with it.
Bounced(b) == now <= bounce[b].expires

\* IssueCookie.
NewSession(p) == [who |-> p, expires |-> now + SessionTTL]

\* handleSSOCallback with a code: a session for the person who signed in.
SSOCallback(b, p, s) ==
    /\ Bounced(b)
    /\ IsFirst(s, FreshSids)
    /\ sessions' = [sessions EXCEPT ![s] = NewSession(p)]
    /\ cookie' = [cookie EXCEPT ![b] = s]
    /\ UNCHANGED <<uiRest, codes, bounce, page, ui, decided>>

\* denyForNoAccess, from handleSSODenied and from refuseIfNoAccess.
DenyNext(q, d) ==
    ui' = [ui EXCEPT ![q] = [IdleUI EXCEPT !.pc = "flip", !.code = d, !.verdict = "denied"]]

SSODenied(b, q) ==
    /\ IsFirst(q, FreeRequests) /\ Bounced(b)
    /\ DenyNext(q, bounce[b].code)
    /\ UNCHANGED <<uiRest, codes, sessions, cookie, bounce, page, decided>>

\* handleConfirm: a session and a usable code, then the person's permissions:
\* the page names the session's person, or the code is denied.
Confirm(b, d, q) ==
    /\ IsFirst(q, FreeRequests) /\ SessionOf(b) # NoSid /\ userCodeUsable(d)
    /\ \/ /\ page' = [page EXCEPT ![b] = [code |-> d, sid |-> SessionOf(b),
                                            who |-> sessions[SessionOf(b)].who]]
          /\ UNCHANGED ui
       \/ DenyNext(q, d) /\ UNCHANGED page
    /\ UNCHANGED <<uiRest, codes, sessions, cookie, bounce, decided>>

\* Mutant: the form's token is not compared with the session.
Genuine(b) == TRUE

\* The csrf_token of the page is the id of the session that was shown it.
CSRFChecked(b) == page[b].sid = SessionOf(b)

\* handleDecision up to its statement: approving asks for the person's
\* permissions once more, and denies the code of one who has none.
Decide(b, verdict, q) ==
    /\ IsFirst(q, FreeRequests) /\ page[b] # NoPage
    /\ SessionOf(b) # NoSid /\ CSRFChecked(b)
    /\ \/ ui' = [ui EXCEPT ![q] = [IdleUI EXCEPT !.pc = "flip", !.code = page[b].code,
                                     !.verdict = verdict,
                                     !.who = sessions[SessionOf(b)].who, !.shown = page[b].who]]
       \/ verdict = "approved" /\ DenyNext(q, page[b].code)
    /\ UNCHANGED <<uiRest, codes, sessions, cookie, bounce, page, decided>>

-----------------------------------------------------------------------------
(* ApproveDeviceCode and DenyDeviceCode.                                   *)

\* WHERE approved_at IS NULL AND denied_at IS NULL.
Flippable(d) == codes[d].st = "pending"

Flipped(q) ==
    /\ LET r == ui[q]
           who == IF r.verdict = "approved" THEN r.who ELSE Nobody IN
         IF Flippable(r.code)
           THEN /\ codes' = [codes EXCEPT ![r.code].st = r.verdict, ![r.code].who = who]
                /\ decided' = IF decided[r.code].verdict = "none"
                                THEN [decided EXCEPT ![r.code] =
                                        [verdict |-> r.verdict, who |-> who, shown |-> r.shown,
                                         at |-> now]]
                                ELSE decided
           ELSE UNCHANGED <<codes, decided>>
    /\ ui' = [ui EXCEPT ![q] = IdleUI]

Undecidable(q) ==
    Row(ui[q].code) => now >= codes[ui[q].code].expires

\* ErrDeviceCodeNotPending or ErrDeviceCodeNotFound.
FlipRefused(q) ==
    /\ ui[q].pc = "flip" /\ Undecidable(q)
    /\ ui' = [ui EXCEPT ![q] = IdleUI]
    /\ UNCHANGED <<uiRest, codes, sessions, cookie, bounce, page, decided>>

\* Postgres decides in the UPDATE; SQLite reads expires_at first and updates
\* without it.
PgFlip(q) ==
    /\ ui[q].pc = "flip" /\ ~Undecidable(q) /\ backend = "postgres"
    /\ Flipped(q)
    /\ UNCHANGED <<uiRest, sessions, cookie, bounce, page>>

SqliteFlip(q) ==
    /\ ui[q].pc = "flip" /\ ~Undecidable(q) /\ backend = "sqlite"
    /\ ui' = [ui EXCEPT ![q].pc = "update"]
    /\ UNCHANGED <<uiRest, codes, sessions, cookie, bounce, page, decided>>

SqliteUpdate(q) ==
    /\ ui[q].pc = "update"
    /\ Flipped(q)
    /\ UNCHANGED <<uiRest, sessions, cookie, bounce, page>>

-----------------------------------------------------------------------------
\* The reaper's DELETE of expired device codes.
Reap(d) ==
    /\ Row(d) /\ codes[d].expires < now
    /\ codes' = [codes EXCEPT ![d].st = "gone"]
    /\ UNCHANGED <<backend, now, browserVars, poll, cli, failures, decided, tokens, paced, rushed>>

\* A handler stalls for less than two intervals between its arrival and its
\* answer, and the command line's sleep ends on time.
Prompt ==
    /\ \A h \in Handlers : poll[h].pc # "idle" => now <= poll[h].since
    /\ cli.pc = "sleep" => now < cli.wake

Tick ==
    /\ now < MaxTime /\ Prompt
    /\ now' = now + 1
    /\ UNCHANGED <<backend, codes, browserVars, poll, cli, failures, decided, tokens, paced, rushed>>

PollStep(h) ==
    Lookup(h) \/ PollNotFound(h) \/ PgPollDeviceCode(h) \/ SqlitePollDeviceCode(h)
      \/ ClaimPoll(h) \/ SlowDown(h) \/ ConsumeDeviceCode(h) \/ Issue(h) \/ Answer(h)

UIStep(q) == FlipRefused(q) \/ PgFlip(q) \/ SqliteFlip(q) \/ SqliteUpdate(q)

\* The routes of the verification pages.
Pages(b) ==
    \/ \E d \in Codes : EnterPost(b, d)
    \/ \E p \in People, s \in Sids : SSOCallback(b, p, s)
    \/ \E q \in Requests :
         \/ SSODenied(b, q)
         \/ \E d \in Codes : Confirm(b, d, q)
         \/ \E v \in {"approved", "denied"} : Decide(b, v, q)

Next ==
    \/ \E d \in Codes : DeviceAuthorization(d) \/ Reap(d)
    \/ \E h \in Handlers : CliTurn(h) \/ PollStep(h) \/ PollFails(h)
    \/ CliLosesAnswer
    \/ \E b \in Browsers : Pages(b)
    \/ \E q \in Requests : UIStep(q)
    \/ Tick

Spec == Init /\ [][Next]_vars

-----------------------------------------------------------------------------
(* Properties.                                                             *)

CliState ==
    [pc : {"start", "sleep", "await", "end"}, code : Codes, interval : Nat, backoff : Nat,
     start : Nat, wake : Nat, on : SUBSET Handlers, out : Outcome]

\* Every row, request and history value has its type.
TypeOK ==
    /\ backend \in {"postgres", "sqlite"} /\ now \in Nat \ {0} /\ failures \in Nat
    /\ codes \in [Codes -> CodeRow]
    /\ sessions \in [Sids -> [who : People \cup {Nobody}, expires : Nat]]
    /\ cookie \in [Browsers -> Sids \cup {NoSid}]
    /\ bounce \in [Browsers -> [code : Codes, expires : Nat]]
    /\ page \in [Browsers -> [code : Codes, sid : Sids \cup {NoSid}, who : People \cup {Nobody}]]
    /\ ui \in [Requests -> UIRequest]
    /\ poll \in [Handlers -> PollRequest]
    /\ cli \in CliState
    /\ decided \in [Codes -> Decision]
    /\ tokens \in [Codes -> Seq(People)]
    /\ paced \in [Codes -> Nat] /\ rushed \subseteq Codes

\* A device code is worth one set of tokens, and they are those of the person
\* whose approval was the first decision on it: however many polls race, and
\* however an approval and a denial race (deviceCodeGrant's single-use claim).
TokensFollowTheDecision ==
    \A d \in Codes :
      /\ Len(tokens[d]) <= 1
      /\ \A i \in 1..Len(tokens[d]) :
           decided[d].verdict = "approved" /\ tokens[d][i] = decided[d].who

\* A person approves only as the account the confirm page named: signing in
\* again in the same browser does not let the old page act for the new
\* account (handleDecision's csrf_token).
ApprovedAsShown ==
    \A d \in Codes : decided[d].verdict = "approved" => decided[d].who = decided[d].shown

\* "parallel polls cannot all pass as well-paced": two polls of a code that
\* were not slowed down read clocks at least the default interval apart
\* (PollDeviceCode of either store), also when a handler stalls between
\* reading the clock and its statement, for less than two intervals.
PollsPaced == rushed = {}

\* When no call fails, a decision taken at least three intervals before the
\* device code expires reaches the command line: its loop does not end with
\* the code expired (pollLoop against deviceCodeGrant).
DecisionReachesDevice ==
    failures = 0 /\ cli.out = "expired" /\ decided[cli.code].verdict # "none"
      => codes[cli.code].expires < decided[cli.code].at + 3

-----------------------------------------------------------------------------
(* The inductive invariant.                                                *)

\* A row agrees with the first decision, and has paid out only once it is gone.
RowSound(d) ==
    /\ codes[d].st \in {"unborn", "pending"} => decided[d].verdict = "none"
    /\ codes[d].st \in {"approved", "denied"} =>
         decided[d].verdict = codes[d].st /\ codes[d].who = decided[d].who
    /\ codes[d].st # "gone" => tokens[d] = <<>>

\* An approval that a poll has read was the first decision; a poll about to
\* issue has the row's last copy.
PollSound(h) ==
    LET r == poll[h] IN
    /\ r.pc \in {"poll", "claim", "slow", "consume"} /\ r.seen = "approved" =>
         decided[r.code].verdict = "approved"
    /\ r.pc = "consume" /\ r.out = "token" => r.seen = "approved"
    /\ r.pc = "issue" =>
         /\ codes[r.code].st = "gone" /\ tokens[r.code] = <<>>
         /\ decided[r.code].verdict = "approved" /\ decided[r.code].who = r.who

OneIssuer ==
    \A g, h \in Handlers : poll[g].pc = "issue" /\ poll[h].pc = "issue" /\ g # h =>
      poll[g].code # poll[h].code

\* A page names the person of the session it was shown to.
PageSound(b) ==
    page[b] # NoPage =>
      page[b].sid \in Sids /\ page[b].who = sessions[page[b].sid].who /\ page[b].who # Nobody

Informed(r) == r.verdict = "approved" => r.who \in People /\ r.who = r.shown

IInv ==
    /\ TypeOK
    /\ \A d \in Codes : RowSound(d) /\ Informed(decided[d])
    /\ \A h \in Handlers : PollSound(h)
    /\ OneIssuer
    /\ \A b \in Browsers : PageSound(b)
    /\ \A q \in Requests : Informed(ui[q])
    /\ TokensFollowTheDecision

-----------------------------------------------------------------------------
(* The inductive invariant of PollsPaced.                                  *)

\* A poll that has not stamped the row yet.
Unstamped(r) == r.pc \in {"lookup", "poll", "claim", "slow"}

\* Polls in flight are young, began at different times, and have read the clock.
PollsTimely ==
    /\ \A h \in Handlers : poll[h].pc # "idle" =>
         0 < poll[h].since /\ poll[h].since <= now /\ now <= poll[h].since + 1
    /\ \A h \in Handlers : poll[h].pc \in {"poll", "claim", "slow"} =>
         poll[h].since <= poll[h].at /\ poll[h].at <= now
    /\ \A g, h \in Handlers : poll[g].pc # "idle" /\ poll[h].pc # "idle" /\ g # h =>
         poll[g].since # poll[h].since

\* The command line sleeps between two polls, also after it lost an answer.
CliPaces ==
    /\ cli.pc = "start" => \A h \in Handlers : poll[h].pc = "idle"
    /\ cli.pc \in {"sleep", "await"} => cli.interval > 0 /\ cli.backoff > 0
    /\ cli.pc # "await" => cli.on = {}
    /\ cli.pc = "sleep" => \A h \in Handlers : poll[h].pc # "idle" => poll[h].since < cli.wake

\* What the row demands of the next poll is past the last one accepted.
StampsAhead ==
    \A d \in Codes :
      /\ paced[d] <= now
      /\ codes[d].st = "unborn" => paced[d] = 0
      /\ Row(d) =>
           /\ codes[d].interval > 0
           /\ paced[d] # 0 => codes[d].last # 0 /\ paced[d] < codes[d].last + codes[d].interval

\* While the swap of a claim would succeed, no poll was accepted since its read.
ClaimsSound ==
    \A h \in Handlers : poll[h].pc = "claim" =>
      /\ poll[h].last < poll[h].at
      /\ Row(poll[h].code) /\ codes[poll[h].code].last = poll[h].last =>
           paced[poll[h].code] < poll[h].at

\* A later poll was accepted before this one stamped the row only if no third
\* one can begin while this one is in flight.
NotOvertaken ==
    \A g \in Handlers : Unstamped(poll[g]) =>
      \/ paced[poll[g].code] <= poll[g].since
      \/ cli.pc = "sleep" => poll[g].since + 1 < cli.wake

\* Of two polls that have yet to stamp, the later is past every accepted one.
LaterIsAhead ==
    \A g, h \in Handlers :
      /\ Unstamped(poll[g]) /\ Unstamped(poll[h]) /\ poll[g].code = poll[h].code
      /\ poll[g].since < poll[h].since
      => paced[poll[h].code] < poll[h].since

PaceInv ==
    /\ PollsTimely /\ CliPaces /\ StampsAhead /\ ClaimsSound /\ NotOvertaken /\ LaterIsAhead
    /\ PollsPaced

-----------------------------------------------------------------------------
(* The inductive invariant of DecisionReachesDevice.                       *)

Decided(dec) == dec.verdict # "none"

Live(row) == row.st \in {"pending", "approved", "denied"}

\* At n the code has expired, and no decision was three intervals before that.
Late(row, dec, n) ==
    /\ row.expires <= n
    /\ Decided(dec) => row.expires < dec.at + 3

\* The one poll in flight has seen the decision, or was early enough for the
\* next one to see it in time.
TurnOfPoll(r, row, dec, n) ==
    /\ r.pc \notin {"idle", "slow"} /\ r.out \notin {"slow_down", "error", "expired"}
    /\ Decided(dec) => r.since <= dec.at + 2
    /\ r.pc \in {"lookup", "poll", "claim"} => Live(row) /\ row.last < r.since
    /\ r.pc \in {"poll", "claim"} =>
         /\ r.expires = row.expires
         /\ Decided(dec) => r.seen \in {"approved", "denied"} \/ r.at <= dec.at
    /\ r.pc = "claim" => r.last = row.last
    /\ r.pc \in {"consume", "issue", "answer"} => row.last <= n
    /\ r.pc = "consume" => r.out # "pending"
    /\ r.pc = "answer" /\ r.out = "pending" =>
         Live(row) /\ (Decided(dec) => r.since <= dec.at)

\* While no call fails the loop k keeps its pace: one poll p[h] at a time, each
\* well-paced, two intervals apart at most.
KeepsPace(k, row, dec, n, p) ==
    /\ k.interval = DefaultInterval /\ k.out = "none"
    /\ row.interval = DefaultInterval /\ row.expires = k.start + CodeTTL
    /\ k.pc = "sleep" =>
         /\ \A h \in Handlers : p[h].pc = "idle"
         /\ Live(row) /\ row.last < k.wake
         /\ n <= k.wake /\ k.wake <= n + 1
         /\ Decided(dec) => k.wake <= dec.at + 2
    /\ k.pc = "await" =>
         \E h \in Handlers :
           /\ k.on = {h} /\ p[h].code = k.code /\ TurnOfPoll(p[h], row, dec, n)
           /\ \A g \in Handlers \ {h} : p[g].pc = "idle"

TurnInv ==
    /\ cli.pc = "start" => cli.out = "none" /\ \A d \in Codes : codes[d].st = "unborn"
    /\ failures = 0 /\ cli.pc # "start" =>
         LET row == codes[cli.code]
             dec == decided[cli.code] IN
         /\ row.st # "unborn"
         /\ cli.out = "expired" => Late(row, dec, now)
         /\ cli.pc \in {"sleep", "await"} => Late(row, dec, now) \/ KeepsPace(cli, row, dec, now, poll)
=============================================================================
