------------------------------- MODULE SignIn -------------------------------
(***************************************************************************)
(* The browser sign-in: `tempogate login` with its loopback listener, GET  *)
(* /authorize, the trip to the upstream identity provider, the callback    *)
(* that turns the upstream's answer into an authorization code, and the    *)
(* sweep that removes pending requests nobody completed, in either store.  *)
(*                                                                         *)
(* A login, a pending request (by its internal state) and a callback       *)
(* request are model values.  What the upstream and the client are told is *)
(* reduced to who signed in and which request it is about.  One step is    *)
(* one store statement, one upstream call, or one answer.                  *)
(***************************************************************************)
EXTENDS Naturals, FiniteSetsExt

CONSTANTS
    Logins,       \* runs of `tempogate login`, all on one loopback port
    States,       \* internal states /authorize may draw
    Browsers,
    Openers,      \* the browsers a login's URL is opened in
    Handlers,     \* callbacks in flight, over every replica
    Admitted,     \* people every gate admits and a rule grants something
    Ungranted,    \* people every gate admits and no rule grants anything
    Outsiders,    \* people a gate refuses
    Answers,      \* what the upstream may answer
    RequestTTL, CodeTTL, CallbackTimeout,
    Batch,        \* the sweep's page size
    Backends,     \* the stores the instance ranges over
    MaxTime,      \* bound on the clock
    MaxFailures   \* bound on failed calls and statements

People == Admitted \cup Ungranted \cup Outsiders

\* What the upstream redirects the browser back with: an account, an `error`,
\* or neither.
Answer == People \cup {"none", "denied", "empty"}

ASSUME SignInAssumption ==
    /\ RequestTTL \in Nat \ {0} /\ CodeTTL \in Nat \ {0} /\ CallbackTimeout \in Nat \ {0}
    /\ Batch \in Nat \ {0} /\ Backends \subseteq {"postgres", "sqlite"}
    /\ Answers \subseteq Answer \ {"none"} /\ Openers \subseteq Browsers
    /\ MaxTime \in Nat \ {0} /\ MaxFailures \in Nat
    /\ Logins # {} /\ Browsers # {} /\ States # {} /\ IsFiniteSet(States)
    /\ {"none", "error"} \cap States = {}

VARIABLES
    backend,      \* the configured store
    now,
    login,        \* the command lines
    requests,     \* auth_requests
    trip,         \* per state, the browser's trip to the upstream and back
    callback,     \* the callback handlers
    codes,        \* auth_codes, by the state each was minted from
    redirects,    \* the loopback URLs browsers were sent to
    sweep,        \* the reaper's pass over auth_requests
    failures,
    removed       \* history: states whose row a sweep removed before it expired

vars == <<backend, now, login, requests, trip, callback, codes, redirects, sweep, failures, removed>>

-----------------------------------------------------------------------------
(* Rows, requests and answers.                                             *)

AnyLogin == CHOOSE f \in Logins : TRUE

AnyState == CHOOSE s \in States : TRUE

AnyBrowser == CHOOSE b \in Browsers : TRUE

\* A login's callbackResult, and how it ended.
Result == States \cup {"none", "error"}

Login ==
    [pc : {"idle", "await", "exchange", "done", "failed"}, deadline : Nat,
     handled : BOOLEAN, result : Result, who : People \cup {"none"}]

\* A pending request; row is its rowid, 0 when there is no row.
Request == [row : Nat, login : Logins, expires : Nat]

\* cookie is when the browser drops the binding cookie of the state, 0 when
\* it holds none.
Trip == [pc : {"new", "begun", "back"}, browser : Browsers, cookie : Nat, answer : Answer]

Callback ==
    [pc : {"idle", "consume", "complete", "save"}, state : States, browser : Browsers,
     login : Logins, who : Answer]

\* minted counts the codes saved for the state; the rest is its latest row.
Code ==
    [minted : Nat, login : Logins, who : Answer, browser : Browsers, expires : Nat, used : BOOLEAN]

IdleCallback ==
    [pc |-> "idle", state |-> AnyState, browser |-> AnyBrowser, login |-> AnyLogin, who |-> "none"]

IdleSweep == [pc |-> "idle", cursor |-> 0, at |-> 0, expired |-> {}]

Init ==
    /\ backend \in Backends
    /\ now = 1
    /\ login = [f \in Logins |->
                  [pc |-> "idle", deadline |-> 0,
                   handled |-> FALSE, result |-> "none", who |-> "none"]]
    /\ requests = [s \in States |-> [row |-> 0, login |-> AnyLogin, expires |-> 0]]
    /\ trip = [s \in States |->
                 [pc |-> "new", browser |-> AnyBrowser, cookie |-> 0, answer |-> "none"]]
    /\ callback = [h \in Handlers |-> IdleCallback]
    /\ codes = [s \in States |->
                  [minted |-> 0, login |-> AnyLogin, who |-> "none", browser |-> AnyBrowser,
                   expires |-> 0, used |-> FALSE]]
    /\ redirects = {}
    /\ sweep = IdleSweep
    /\ failures = 0
    /\ removed = {}

\* Slots and states are interchangeable: the first free one is taken.
IsFirst(x, S) == x \in S /\ x = CHOOSE y \in S : TRUE

Fails == failures < MaxFailures /\ failures' = failures + 1

-----------------------------------------------------------------------------
(* `tempogate login`: Flow.Run and its one-shot loopback handler.          *)

Listening(f) == login[f].pc \in {"await", "exchange"}

\* Run binds the loopback port, prints the authorize URL and waits.
Start(f) ==
    /\ login[f].pc = "idle" /\ \A g \in Logins : ~Listening(g)
    /\ IsFirst(f, {g \in Logins : login[g].pc = "idle"})
    /\ now + CallbackTimeout <= MaxTime
    /\ login' = [login EXCEPT ![f].pc = "await", ![f].deadline = now + CallbackTimeout]
    /\ UNCHANGED <<backend, now, requests, trip, callback, codes, redirects, sweep, failures, removed>>

\* Mutant: the handler does not compare the state.
EchoesAnyState(f, r) == TRUE

\* The request carries the state this run drew.
EchoesState(f, r) == r.login = f

\* once.Do: only the first request with the right state decides the outcome.
FirstTime(f) == ~login[f].handled

\* callbackHandler: a browser opens a loopback URL, again perhaps, or one that
\* an earlier run on this port was meant to get.  deliver never blocks and
\* keeps the result already there.
LoopbackCallback(f, r) ==
    /\ Listening(f) /\ EchoesState(f, r) /\ FirstTime(f)
    /\ login' = [login EXCEPT
                   ![f].handled = TRUE,
                   ![f].result = IF @ = "none" THEN (IF r.error THEN "error" ELSE r.state) ELSE @]
    /\ UNCHANGED <<backend, now, requests, trip, callback, codes, redirects, sweep, failures, removed>>

\* awaitCode receives the result.
ReceiveResult(f) ==
    /\ login[f].pc = "await" /\ login[f].result # "none"
    /\ login' = [login EXCEPT ![f].pc = IF login[f].result = "error" THEN "failed" ELSE "exchange"]
    /\ UNCHANGED <<backend, now, requests, trip, callback, codes, redirects, sweep, failures, removed>>

\* Mutant: awaitCode has no timer.
WaitForever(f) == FALSE /\ UNCHANGED vars

\* awaitCode's timer: it may win over a result that has just arrived.
GiveUp(f) ==
    /\ login[f].pc = "await" /\ now >= login[f].deadline
    /\ login' = [login EXCEPT ![f].pc = "failed"]
    /\ UNCHANGED <<backend, now, requests, trip, callback, codes, redirects, sweep, failures, removed>>

\* The person interrupts the command.
Cancel(f) ==
    /\ Listening(f) /\ Fails
    /\ login' = [login EXCEPT ![f].pc = "failed"]
    /\ UNCHANGED <<backend, now, requests, trip, callback, codes, redirects, sweep, removed>>

\* The authorization-code grant: a code not redeemed and not expired, and the
\* verifier of the run whose challenge it was minted with.
Redeemable(f, s) ==
    /\ codes[s].minted > 0 /\ ~codes[s].used /\ now <= codes[s].expires
    /\ codes[s].login = f

\* exchange: POST /token consumes the code, whatever it then finds; the request
\* or its answer may be lost.
Exchange(f) ==
    LET s == login[f].result
        consumed == [codes EXCEPT ![s].used = TRUE]
    IN  /\ login[f].pc = "exchange"
        /\ \/ /\ Redeemable(f, s)
              /\ login' = [login EXCEPT ![f].pc = "done", ![f].who = codes[s].who]
              /\ codes' = consumed
              /\ UNCHANGED failures
           \/ /\ ~Redeemable(f, s)
              /\ login' = [login EXCEPT ![f].pc = "failed"]
              /\ codes' = consumed
              /\ UNCHANGED failures
           \/ /\ Fails
              /\ login' = [login EXCEPT ![f].pc = "failed"]
              /\ codes' \in {codes, consumed}
        /\ UNCHANGED <<backend, now, requests, trip, callback, redirects, sweep, removed>>

-----------------------------------------------------------------------------
(* GET /authorize and the upstream.                                        *)

Rows == {s \in States : requests[s].row # 0}

\* now.After(expires_at).
Expired(s, t) == t > requests[s].expires

\* The rowid an INSERT takes: one more than the largest in the table.
NextRowid == Max({requests[s].row : s \in Rows} \cup {0}) + 1

\* The URL of a run is opened in a browser, more than once perhaps:
\* the request is saved under a fresh state.  One that Validate or check refuses
\* (module Clients) leaves nothing behind.
Authorize(f, b, s) ==
    /\ login[f].pc # "idle"
    /\ IsFirst(s, {t \in States : trip[t].pc = "new"})
    /\ requests' = [requests EXCEPT ![s] = [row |-> NextRowid, login |-> f, expires |-> now + RequestTTL]]
    /\ trip' = [trip EXCEPT ![s].pc = "begun", ![s].browser = b]
    /\ UNCHANGED <<backend, now, login, callback, codes, redirects, sweep, failures, removed>>

\* The browser stores the binding cookie, which lives RequestTTL from then,
\* follows the redirect to the upstream and is sent back with an answer, whose
\* callback URL it then opens at once or later.
VisitUpstream(s) ==
    /\ trip[s].pc = "begun"
    /\ \E a \in Answers :
         trip' = [trip EXCEPT ![s].pc = "back", ![s].cookie = now + RequestTTL, ![s].answer = a]
    /\ UNCHANGED <<backend, now, login, requests, callback, codes, redirects, sweep, failures, removed>>

-----------------------------------------------------------------------------
(* GET /callback/{connector}.                                              *)

\* The request carries the cookie /authorize set for this state.
BoundToBrowser(b, s) == trip[s].browser = b /\ now < trip[s].cookie

\* The callback URL is opened, in any browser and any number of times.  Where
\* the state is not bound, or its row is gone for good, the answer is a 400 and
\* nothing else happens.
OpenCallback(h, b, s) ==
    /\ IsFirst(h, {g \in Handlers : callback[g].pc = "idle"})
    /\ trip[s].pc = "back" /\ s \in Rows /\ BoundToBrowser(b, s)
    /\ callback' = [callback EXCEPT ![h] = [IdleCallback EXCEPT !.pc = "consume", !.state = s, !.browser = b]]
    /\ UNCHANGED <<backend, now, login, requests, trip, codes, redirects, sweep, failures, removed>>

\* Mutant: the pending request is read, not taken.
Peek(s) == requests

\* DELETE ... RETURNING.
Taken(s) == [requests EXCEPT ![s].row = 0]

\* ConsumeAuthRequest: no row is a 400, and so is an expired one, which is
\* gone all the same.
ConsumeAuthRequest(h) ==
    LET s == callback[h].state
    IN  /\ callback[h].pc = "consume"
        /\ \/ /\ s \in Rows
              /\ requests' = Taken(s)
              /\ callback' = [callback EXCEPT
                                ![h] = IF Expired(s, now) THEN IdleCallback
                                       ELSE [@ EXCEPT !.pc = "complete", !.login = requests[s].login]]
              /\ UNCHANGED failures
           \/ /\ s \notin Rows => UNCHANGED failures
              /\ s \in Rows => Fails
              /\ callback' = [callback EXCEPT ![h] = IdleCallback]
              /\ UNCHANGED requests
        /\ UNCHANGED <<backend, now, login, trip, codes, redirects, sweep, removed>>

\* refusal and permitted: every gate admits the person and a rule grants them
\* something.
Permitted(p) == p \in Admitted

\* completeUpstream and the gates.  `denied` and a person without a grant are
\* sent back to the client with an error, a person a gate refuses gets a page;
\* each drops the cookie.  A missing code or a failed upstream call is an error
\* answer that drops nothing.
Complete(h) ==
    LET s == callback[h].state
        a == trip[s].answer
        dropped == [trip EXCEPT ![s].cookie = 0]
        refuse == callback' = [callback EXCEPT ![h] = IdleCallback]
        tell == [login |-> callback[h].login, state |-> s, error |-> TRUE]
    IN  /\ callback[h].pc = "complete"
        /\ \/ /\ Permitted(a)
              /\ callback' = [callback EXCEPT ![h].pc = "save", ![h].who = a]
              /\ UNCHANGED <<trip, redirects, failures>>
           \/ /\ ~Permitted(a) /\ a # "empty"
              /\ refuse /\ trip' = dropped
              /\ redirects' = redirects \cup (IF a \in Outsiders THEN {} ELSE {tell})
              /\ UNCHANGED failures
           \/ /\ IF a = "empty" THEN UNCHANGED failures ELSE a \in People /\ Fails
              /\ refuse
              /\ UNCHANGED <<trip, redirects>>
        /\ UNCHANGED <<backend, now, login, requests, codes, sweep, removed>>

\* SaveAuthCode, and the redirect to the client that also drops the cookie; or
\* the INSERT fails and the answer is a 500.
SaveAuthCode(h) ==
    LET c == callback[h]
    IN  /\ c.pc = "save"
        /\ callback' = [callback EXCEPT ![h] = IdleCallback]
        /\ \/ /\ codes' = [codes EXCEPT
                             ![c.state] = [minted |-> @.minted + 1, login |-> c.login, who |-> c.who,
                                           browser |-> c.browser, expires |-> now + CodeTTL, used |-> FALSE]]
              /\ trip' = [trip EXCEPT ![c.state].cookie = 0]
              /\ redirects' = redirects \cup {[login |-> c.login, state |-> c.state, error |-> FALSE]}
              /\ UNCHANGED failures
           \/ /\ Fails
              /\ UNCHANGED <<codes, trip, redirects>>
        /\ UNCHANGED <<backend, now, login, requests, sweep, removed>>

-----------------------------------------------------------------------------
(* The reaper, over auth_requests.                                         *)

Delete(S) ==
    /\ requests' = [s \in States |-> IF s \in S THEN [requests[s] EXCEPT !.row = 0] ELSE requests[s]]
    /\ removed' = removed \cup {s \in S : ~Expired(s, now)}

PgExpired(s) == Expired(s, now)

\* Postgres: one DELETE under its own snapshot.
PgReap ==
    /\ backend = "postgres" /\ \E s \in Rows : PgExpired(s)
    /\ Delete({s \in Rows : PgExpired(s)})
    /\ UNCHANGED <<backend, now, login, trip, callback, codes, redirects, sweep, failures>>

\* SQLite: a pass, one over rows of which some have expired, fixes its time, then reads a page of rows above its cursor
\* and remembers the rowids of the expired ones ...
Page(cursor) ==
    LET above == {requests[s].row : s \in Rows} \ 0..cursor
    IN  {i \in above : Cardinality({j \in above : j < i}) < Batch}

SqlitePage ==
    LET at == IF sweep.pc = "idle" THEN now ELSE sweep.at
        page == Page(sweep.cursor)
    IN  /\ backend = "sqlite" /\ sweep.pc \in {"idle", "page"}
        /\ sweep.pc = "idle" => \E s \in Rows : Expired(s, now)
        /\ sweep' = [pc |-> IF Cardinality(page) = Batch THEN "flush" ELSE "last",
                     cursor |-> Max(page \cup {sweep.cursor}), at |-> at,
                     expired |-> {i \in page : \E s \in Rows : requests[s].row = i /\ Expired(s, at)}]
        /\ UNCHANGED <<backend, now, login, requests, trip, callback, codes, redirects, failures, removed>>

\* ... and, with the connection released in between, deletes those rowids.
SqliteFlush ==
    /\ sweep.pc \in {"flush", "last"}
    /\ Delete({s \in Rows : requests[s].row \in sweep.expired})
    /\ sweep' = IF sweep.pc = "last" THEN IdleSweep ELSE [sweep EXCEPT !.pc = "page", !.expired = {}]
    /\ UNCHANGED <<backend, now, login, trip, callback, codes, redirects, failures>>

Tick ==
    /\ now < MaxTime
    /\ now' = now + 1
    /\ UNCHANGED <<backend, login, requests, trip, callback, codes, redirects, sweep, failures, removed>>

LoginStep(f) ==
    \/ Start(f)
    \/ \E r \in redirects : LoopbackCallback(f, r)
    \/ ReceiveResult(f)
    \/ GiveUp(f)
    \/ Cancel(f)
    \/ Exchange(f)

CallbackStep(h) ==
    \/ \E b \in Browsers, s \in States : OpenCallback(h, b, s)
    \/ ConsumeAuthRequest(h)
    \/ Complete(h)
    \/ SaveAuthCode(h)

Next ==
    \/ \E f \in Logins : LoginStep(f)
    \/ \E f \in Logins, b \in Openers, s \in States : Authorize(f, b, s)
    \/ \E s \in States : VisitUpstream(s)
    \/ \E h \in Handlers : CallbackStep(h)
    \/ PgReap \/ SqlitePage \/ SqliteFlush
    \/ Tick

Spec == Init /\ [][Next]_vars

\* The steps of a run that wait for nobody.
Proceed(f) == ReceiveResult(f) \/ GiveUp(f) \/ Exchange(f)

\* A run's timer fires and its own steps are taken; nothing is assumed of the
\* person, the browser or the upstream.
Fairness ==
    /\ WF_vars(Tick)
    /\ \A f \in Logins : WF_vars(Proceed(f))

-----------------------------------------------------------------------------
(* Properties.                                                             *)

\* Every run, request, trip, callback, code and sweep has its type.
TypeOK ==
    /\ backend \in Backends /\ now \in 1..MaxTime
    /\ login \in [Logins -> Login]
    /\ requests \in [States -> Request]
    /\ trip \in [States -> Trip]
    /\ callback \in [Handlers -> Callback]
    /\ codes \in [States -> Code]
    /\ redirects \subseteq [login : Logins, state : States, error : BOOLEAN]
    /\ sweep \in [pc : {"idle", "page", "flush", "last"}, cursor : Nat, at : Nat, expired : SUBSET Nat]
    /\ failures \in 0..MaxFailures /\ removed \subseteq States

\* However often and wherever its callback URL is opened, and whatever fails in
\* between, one sign-in yields at most one authorization code: for the person the
\* upstream named, whom every gate admitted, in the browser /authorize bound the
\* state to, and for the run whose request it was (callback.go, complete).
OneCodePerSignIn ==
    \A s \in States : codes[s].minted > 0 =>
        /\ codes[s].minted = 1
        /\ codes[s].who = trip[s].answer /\ codes[s].who \in Admitted
        /\ codes[s].browser = trip[s].browser
        /\ codes[s].login = requests[s].login

\* A run of `tempogate login` is decided by a redirect of its own, also when the
\* port it listens on is one an earlier run gave up and the late redirects of
\* that run still arrive there.  Its tokens are those of a sign-in its own URL
\* began, and no two runs end on one code (loopback.go, callbackHandler and
\* exchange).
LoginGetsItsOwn ==
    \A f \in Logins :
        /\ login[f].handled =>
             \E r \in redirects :
                /\ r.login = f
                /\ login[f].result = IF r.error THEN "error" ELSE r.state
        /\ login[f].pc = "done" =>
             /\ login[f].who = trip[login[f].result].answer
             /\ \A g \in Logins \ {f} : login[g].pc = "done" => login[g].result # login[f].result

\* "Every reader already refuses an expired row, so deleting it changes no
\* answer" (sqlite/reaper.go:25-27): what a sweep removes had expired.
SweepChangesNoAnswer == removed = {}

\* A run of `tempogate login` ends, with tokens or with an error, whatever the
\* person, the browser and the upstream do (loopback.go, awaitCode).
LoginEnds == \A f \in Logins : Listening(f) ~> ~Listening(f)

-----------------------------------------------------------------------------
(* The inductive invariant the proofs rest on.                             *)

\* The handler has taken the pending request and may yet mint its code.
Holds(h, s) == callback[h].pc \in {"complete", "save"} /\ callback[h].state = s

\* A sign-in's turn is in one place: its row, the handler that took it, or its
\* code.
OneTurn ==
    \A s \in States :
        /\ s \in Rows => trip[s].pc # "new" /\ codes[s].minted = 0
        /\ codes[s].minted > 0 => trip[s].pc = "back"
        /\ \A h \in Handlers : Holds(h, s) =>
             /\ s \notin Rows /\ codes[s].minted = 0
             /\ \A g \in Handlers : Holds(g, s) => g = h

\* What a handler knows of the sign-in it serves is so.
CallbacksBound ==
    \A h \in Handlers : callback[h].pc # "idle" =>
        /\ trip[callback[h].state].pc = "back"
        /\ callback[h].browser = trip[callback[h].state].browser
        /\ callback[h].pc # "consume" => callback[h].login = requests[callback[h].state].login
        /\ callback[h].pc = "save" =>
             callback[h].who = trip[callback[h].state].answer /\ callback[h].who \in Admitted

\* A redirect that carries a code is the one its code was minted for.
RedirectsMinted ==
    \A r \in redirects : ~r.error => codes[r.state].minted > 0 /\ codes[r.state].login = r.login

\* A run has a result once it was handled, and exchanges a code it was sent.
LoginsDecided ==
    \A f \in Logins :
        /\ login[f].handled <=> login[f].result # "none"
        /\ login[f].pc \in {"exchange", "done"} => login[f].result \in States

IInv ==
    /\ TypeOK /\ OneTurn /\ CallbacksBound /\ RedirectsMinted /\ LoginsDecided
    /\ OneCodePerSignIn /\ LoginGetsItsOwn
=============================================================================
