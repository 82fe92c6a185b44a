------------------------------ MODULE CliTokens ------------------------------
(***************************************************************************)
(* The token file of the command line: `tempogate login` writes it,        *)
(* `tempogate token` reads it, renews it near expiry under a file lock and *)
(* writes it back.  Any number of either may run at once, may be killed,   *)
(* and may lose the answer to a renewal.                                   *)
(*                                                                         *)
(* The server is module SessionContract.  The clock is coarse: Skew stands *)
(* for the five minutes before expiry at which EnsureFresh renews, and     *)
(* Latency for the longest a /token answer may take to arrive.             *)
(***************************************************************************)
EXTENDS Naturals, FiniteSets

CONSTANTS
    Tokeners,     \* `tempogate token` commands running at once
    Logins,       \* `tempogate login` commands running at once
    Families, Tokens,
    Nobody, NoFamily, NoToken,
    AccessTTL, Skew, Latency, LockTimeout,   \* Latency <= Skew, Skew + Latency < AccessTTL
    MaxTime,      \* bound on the clock
    MaxFailures   \* bound on killed commands and lost answers

VARIABLES
    now,
    file,         \* token.json
    lock,         \* the process holding the flock on token.json.lock
    proc,         \* the commands
    current, spent, ended,   \* the server
    orphans,      \* renewals on their way whose command is gone
    failures

Procs == Tokeners \cup Logins

contractVars == <<current, spent, ended>>

vars == <<now, file, lock, proc, current, spent, ended, orphans, failures>>

Server == INSTANCE SessionContract

-----------------------------------------------------------------------------
\* A Token: expires is what the file records, valid when the access token
\* really stops being accepted; named is whether the file or the access token
\* tells which client it was issued to.
Token ==
    [family : Families \cup {NoFamily}, token : Tokens \cup {NoToken}, expires : Nat, valid : Nat,
     named : BOOLEAN]

NoFile == [family |-> NoFamily, token |-> NoToken, expires |-> 0, valid |-> 0, named |-> FALSE]

Command ==
    [pc : {"idle", "lock", "post", "rotate", "answer", "save", "print", "persist"},
     tok : Token, deadline : Nat]

Idle == [pc |-> "idle", tok |-> NoFile, deadline |-> 0]

\* No login yet, or one whose token is current; the file may predate the
\* recorded client.
Init ==
    /\ now = 0
    /\ \/ file = NoFile /\ current = {}
       \/ \E named \in BOOLEAN :
            LET f == CHOOSE g \in Families : TRUE
                t == CHOOSE u \in Tokens : TRUE
            IN  /\ file = [family |-> f, token |-> t, expires |-> AccessTTL, valid |-> AccessTTL,
                           named |-> named]
                /\ current = {<<f, t>>}
    /\ spent = {} /\ ended = {}
    /\ lock = Nobody
    /\ proc = [p \in Procs |-> Idle]
    /\ orphans = {} /\ failures = 0

Goes(p, c) == proc' = [proc EXCEPT ![p] = c]

\* A command's lock goes with its descriptor, however the command ends.
Released(p) == IF lock = p THEN Nobody ELSE lock

Unused == {t \in Tokens : t \notin spent /\ \A f \in Families : <<f, t>> \notin current}

\* The token the server draws next: which one is of no consequence.
Drawn == {t \in Unused : t = CHOOSE u \in Unused : TRUE}

\* The bound Tokens: a command starts only while a token is left for it.
Spare == Cardinality(Unused) > Cardinality({p \in Procs : proc[p].pc \in {"lock", "post", "rotate"}})

-----------------------------------------------------------------------------
(* `tempogate token`: EnsureFresh.                                         *)

\* now.Before(ExpiresAt.Add(-skew)).
Fresh(tok) == now + Skew < tok.expires

\* Load: no file is ErrNoToken; a fresh token is printed; else wait for the
\* lock.
Load(p) ==
    /\ proc[p].pc = "idle" /\ file # NoFile
    /\ now + LockTimeout <= MaxTime /\ Spare
    /\ Goes(p, IF Fresh(file) THEN [Idle EXCEPT !.pc = "print", !.tok = file]
               ELSE [Idle EXCEPT !.pc = "lock", !.deadline = now + LockTimeout])
    /\ UNCHANGED <<now, file, lock, contractVars, orphans, failures>>

\* Mutant: lock_other.go's tryLock, for systems without flock.
LockAlways == TRUE

\* flock with LOCK_NB.
LockFree == lock = Nobody

\* lockTokenFile succeeds and the file is read again: another command may have
\* renewed it, or it cannot be renewed.
Acquire(p) ==
    /\ proc[p].pc = "lock" /\ LockFree
    /\ IF Fresh(file)
         THEN Goes(p, [Idle EXCEPT !.pc = "print", !.tok = file]) /\ UNCHANGED lock
         ELSE IF file.token = NoToken \/ ~file.named
           THEN Goes(p, Idle) /\ UNCHANGED lock
           ELSE Goes(p, [Idle EXCEPT !.pc = "post", !.tok = file]) /\ lock' = p
    /\ UNCHANGED <<now, file, contractVars, orphans, failures>>

\* ErrRefreshLockTimeout.
GiveUp(p) ==
    /\ proc[p].pc = "lock" /\ now >= proc[p].deadline
    /\ Goes(p, Idle)
    /\ UNCHANGED <<now, file, lock, contractVars, orphans, failures>>

\* The refresh grant at the server: an accepted token is spent ...
Present(p) ==
    LET tok == proc[p].tok
    IN  /\ proc[p].pc = "post"
        /\ Server!Spend(tok.family, tok.token)
        /\ Goes(p, [proc[p] EXCEPT !.pc = "rotate"])
        /\ UNCHANGED <<now, file, lock, orphans, failures>>

\* ... and one spent before is a replay, which ends its session; the renewal is
\* rejected, and the file left as it is.
Rejected(p) ==
    LET tok == proc[p].tok
    IN  /\ proc[p].pc = "post" /\ <<tok.family, tok.token>> \notin current
        /\ Server!End({tok.family})
        /\ lock' = Released(p)
        /\ Goes(p, Idle)
        /\ UNCHANGED <<now, file, orphans, failures>>

Rotate(p) ==
    /\ proc[p].pc = "rotate"
    /\ \E t \in Drawn :
         /\ Server!Grant(proc[p].tok.family, t)
         /\ Goes(p, [proc[p] EXCEPT !.pc = "answer", !.tok.token = t, !.tok.valid = now + AccessTTL])
    /\ UNCHANGED <<now, file, lock, orphans, failures>>

\* The session was ended while its token was being renewed.
RotateRefused(p) ==
    /\ proc[p].pc = "rotate" /\ proc[p].tok.family \in ended
    /\ lock' = Released(p)
    /\ Goes(p, Idle)
    /\ UNCHANGED <<now, file, contractVars, orphans, failures>>

\* Mutant: the refresh token that was presented is kept.
AnswerKeepsOld(p) ==
    /\ proc[p].pc = "answer"
    /\ Goes(p, [proc[p] EXCEPT !.pc = "save", !.tok.token = file.token, !.tok.expires = now + AccessTTL])
    /\ UNCHANGED <<now, file, lock, contractVars, orphans, failures>>

\* The answer arrives and the new expiry is dated from then.
Answer(p) ==
    /\ proc[p].pc = "answer"
    /\ Goes(p, [proc[p] EXCEPT !.pc = "save", !.tok.expires = now + AccessTTL, !.tok.named = TRUE])
    /\ UNCHANGED <<now, file, lock, contractVars, orphans, failures>>

\* Save renames a complete file into place; the lock is released on return.
Save(p) ==
    /\ proc[p].pc = "save"
    /\ file' = proc[p].tok
    /\ lock' = Released(p)
    /\ Goes(p, [proc[p] EXCEPT !.pc = "print"])
    /\ UNCHANGED <<now, contractVars, orphans, failures>>

PrintToken(p) ==
    /\ proc[p].pc = "print"
    /\ Goes(p, Idle)
    /\ UNCHANGED <<now, file, lock, contractVars, orphans, failures>>

-----------------------------------------------------------------------------
(* `tempogate login`, whose sign-in is module SignIn or DeviceFlow.        *)

\* A session starts, in a family never used; its answer too took up to Latency.
SignedIn(p) ==
    /\ proc[p].pc = "idle" /\ Spare
    /\ \E f \in Families, t \in Drawn, late \in 0..Latency :
         /\ \A q \in Procs : proc[q].tok.family # f
         /\ f # file.family /\ \A o \in orphans : o.family # f
         /\ Server!Grant(f, t)
         /\ Goes(p, [Idle EXCEPT !.pc = "persist",
                       !.tok = [family |-> f, token |-> t, expires |-> now + AccessTTL,
                                valid |-> now + AccessTTL - late, named |-> TRUE]])
    /\ UNCHANGED <<now, file, lock, orphans, failures>>

\* login's Save takes no lock.
Persist(p) ==
    /\ proc[p].pc = "persist"
    /\ file' = proc[p].tok
    /\ Goes(p, Idle)
    /\ UNCHANGED <<now, lock, contractVars, orphans, failures>>

-----------------------------------------------------------------------------
\* A command is killed, its request or answer is lost, its Save fails: the
\* file is as it was and the kernel drops the lock.  A request already sent may
\* still reach the server.
Fail(p) ==
    /\ proc[p].pc # "idle" /\ failures < MaxFailures
    /\ failures' = failures + 1
    /\ lock' = Released(p)
    /\ Goes(p, Idle)
    /\ orphans' = orphans \cup {proc[q].tok : q \in {r \in {p} : proc[r].pc = "post"}}
    /\ UNCHANGED <<now, file, contractVars>>

\* The answer to such a request goes nowhere.
OrphanArrives ==
    \E tok \in orphans :
        /\ IF <<tok.family, tok.token>> \in current THEN Server!Spend(tok.family, tok.token)
           ELSE Server!End({tok.family})
        /\ orphans' = orphans \ {tok}
        /\ UNCHANGED <<now, file, lock, proc, failures>>

\* Saving and printing take no time, and an answer at most Latency.
Prompt ==
    \A p \in Procs :
        /\ proc[p].pc \notin {"save", "print"}
        /\ proc[p].pc = "answer" => now + 1 <= proc[p].tok.valid - AccessTTL + Latency

Tick ==
    /\ now < MaxTime /\ Prompt
    /\ now' = now + 1
    /\ UNCHANGED <<file, lock, proc, contractVars, orphans, failures>>

TokenStep(p) ==
    \/ Acquire(p) \/ GiveUp(p) \/ Present(p) \/ Rejected(p) \/ Rotate(p) \/ RotateRefused(p)
    \/ Answer(p) \/ Save(p) \/ PrintToken(p)

Next ==
    \/ \E p \in Tokeners : Load(p) \/ TokenStep(p)
    \/ \E p \in Logins : SignedIn(p) \/ Persist(p)
    \/ \E p \in Procs : Fail(p)
    \/ OrphanArrives
    \/ Tick

Spec == Init /\ [][Next]_vars

\* A command that runs goes on, and time passes; nobody need sign in.
Fairness == WF_vars(Tick) /\ \A p \in Tokeners : WF_vars(TokenStep(p))

FairSpec == Spec /\ Fairness

-----------------------------------------------------------------------------
(* Properties.                                                             *)

\* Every command, and the file, hold whole tokens.
TypeOK ==
    /\ now \in 0..MaxTime /\ file \in Token /\ lock \in Procs \cup {Nobody}
    /\ proc \in [Procs -> Command]
    /\ current \subseteq Families \X Tokens /\ spent \subseteq Tokens /\ ended \subseteq Families
    /\ orphans \subseteq Token /\ failures \in 0..MaxFailures

\* The command line ends its own session only by losing what it was given: however
\* many `tempogate token` and `tempogate login` run at once, no refresh token is
\* presented twice unless a command was killed or its answer or save lost, and each
\* such failure costs one session at most (refresh.go, EnsureFresh under
\* lockTokenFile).
ReplaysComeOfFailures == Cardinality(ended) <= failures

\* What the command line keeps and hands out is good.  While nothing has failed
\* and nobody is renewing, the file holds a token the server would accept: no
\* interleaving of saves leaves a spent one on disk.  A token that is handed out
\* is still accepted, although its expiry was dated when the answer arrived and
\* not when the server minted it (refreshSkew).
KeptTokensUsable ==
    /\ failures = 0 /\ lock = Nobody /\ file.token # NoToken => <<file.family, file.token>> \in current
    /\ \A p \in Procs : proc[p].pc = "print" => now < proc[p].tok.valid

\* `tempogate token` ends, whoever holds the lock and whatever becomes of them.
TokenCommandEnds ==
    \A p \in Tokeners : proc[p].pc # "idle" ~> proc[p].pc = "idle"

-----------------------------------------------------------------------------
(* The inductive invariant the proofs rest on.                             *)

\* An access token outlives the delay of the answer that brought it, and is
\* renewed that much ahead.
WellFormed ==
    /\ Families # {} /\ Tokens # {} /\ Nobody \notin Procs /\ NoFamily \notin Families
    /\ {AccessTTL, Skew, Latency, LockTimeout, MaxTime, MaxFailures} \subseteq Nat
    /\ Latency <= Skew /\ Latency < AccessTTL

Renewing == {"post", "rotate", "answer", "save"}

\* A command renews while it holds the lock, and only then; it renews a session.
RenewsLocked ==
    /\ \A p \in Procs : proc[p].pc \in Renewing <=> lock = p
    /\ \A p \in Procs : proc[p].pc \in Renewing \cup {"persist"} =>
                          proc[p].tok.family \in Families /\ proc[p].tok.token \in Tokens
    /\ file # NoFile => file.family \in Families /\ file.token \in Tokens
    /\ \A o \in orphans : o.family \in Families /\ o.token \in Tokens

\* Until it is saved, a login's session is known to that login only.
LoginsApart ==
    \A p \in Procs : proc[p].pc = "persist" =>
        /\ file.family # proc[p].tok.family
        /\ \A q \in Procs \ {p} : proc[q].tok.family # proc[p].tok.family

\* Outside the sessions of L, what the file or a command holds is the session's
\* token, or is being renewed; no request of theirs is astray and none has ended.
InOrder(L) ==
    \A f \in Families \ L :
        /\ file.family = f => \/ <<f, file.token>> \in current
                              \/ \E p \in Procs : /\ proc[p].pc \in {"rotate", "answer", "save"}
                                                  /\ proc[p].tok.family = f
        /\ \A p \in Procs : proc[p].pc \in {"post", "answer", "save", "persist"} /\ proc[p].tok.family = f =>
                              <<f, proc[p].tok.token>> \in current
        /\ \A o \in orphans : o.family # f
        /\ f \notin ended

\* Each failure has put one session out of order at most.
FailuresCount ==
    \E L \in SUBSET (Families \cup {NoFamily}) :
        IsFiniteSet(L) /\ Cardinality(L) <= failures /\ InOrder(L)

\* Expiry is recorded at most Latency late.
Dated(tok) == tok.expires <= tok.valid + Latency

DatesKept ==
    /\ Dated(file)
    /\ \A p \in Procs :
        /\ proc[p].pc \in {"save", "persist"} => Dated(proc[p].tok)
        /\ proc[p].pc = "answer" => now + AccessTTL <= proc[p].tok.valid + Latency
        /\ proc[p].pc \in {"save", "print"} => now < proc[p].tok.valid

IInv == TypeOK /\ RenewsLocked /\ LoginsApart /\ FailuresCount /\ DatesKept
=============================================================================
