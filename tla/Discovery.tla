------------------------------ MODULE Discovery ------------------------------
(***************************************************************************)
(* The Google connector's lazy discovery: callbacks that need the          *)
(* verifier share one mutex, one cached success and one backoff window     *)
(* after a failure, while the provider answers, fails, or stalls until a   *)
(* call's timeout.  What follows for one callback (code exchange, id_token *)
(* checks, the hosted-domain gate) is a choice of its outcome.             *)
(***************************************************************************)
EXTENDS Naturals, FiniteSets

CONSTANTS
    Callbacks,
    Nobody,
    InitialBackoff, MaxBackoff,
    CallTimeout,       \* of one upstream call
    CompleteTimeout,   \* of a callback's whole Complete
    MaxOutages,        \* bound on the provider going down
    Horizon            \* how far back a past time is told apart

VARIABLES
    up,                \* whether the provider answers
    outages,
    mu,                \* who holds Client.mu
    cb,                \* the callbacks
    verifier,          \* Client.verifier # nil
    failed,            \* Client.lastErr # nil
    backoff,
    wait,              \* Client.retryAt, as time left; 0 once it has passed
    since              \* history: time since the last dial began

vars == <<up, outages, mu, cb, verifier, failed, backoff, wait, since>>

\* left: what remains of the callback's deadline.  dialling: for how long.
Callback == [pc : {"idle", "lock", "dial", "exchange", "ok", "error"}, left : 0..CompleteTimeout,
             dialling : 0..CallTimeout]

Idle == [pc |-> "idle", left |-> 0, dialling |-> 0]

Init ==
    /\ up \in BOOLEAN /\ outages = 0 /\ mu = Nobody
    /\ cb = [c \in Callbacks |-> Idle]
    /\ verifier = FALSE /\ failed = FALSE /\ backoff = 0 /\ wait = 0 /\ since = Horizon

Goes(c, pc) == cb' = [cb EXCEPT ![c].pc = pc, ![c].dialling = 0]

\* A browser returns from the provider: Complete with its deadline.
Arrive(c) ==
    /\ cb[c].pc \in {"idle", "ok", "error"}
    /\ cb' = [cb EXCEPT ![c] = [pc |-> "lock", left |-> CompleteTimeout, dialling |-> 0]]
    /\ UNCHANGED <<up, outages, mu, verifier, failed, backoff, wait, since>>

\* idVerifier finds a verifier, or a failure whose window has not passed.
Cached(c) ==
    /\ cb[c].pc = "lock" /\ mu = Nobody
    /\ \/ verifier /\ Goes(c, "exchange")
       \/ ~verifier /\ failed /\ wait > 0 /\ Goes(c, "error")
    /\ UNCHANGED <<up, outages, mu, verifier, failed, backoff, wait, since>>

\* Mutant: the window is not looked at.
DialsAgain == ~verifier

\* Mutant: a failure is kept for good.
DialsOnce == ~verifier /\ ~failed

MayDial == ~verifier /\ ~(failed /\ wait > 0)

\* It dials, holding the mutex.
Dial(c) ==
    /\ cb[c].pc = "lock" /\ mu = Nobody /\ MayDial
    /\ mu' = c /\ since' = 0
    /\ Goes(c, "dial")
    /\ UNCHANGED <<up, outages, verifier, failed, backoff, wait>>

Discovered(c) ==
    /\ cb[c].pc = "dial" /\ up /\ cb[c].left > 0
    /\ verifier' = TRUE /\ failed' = FALSE /\ backoff' = 0
    /\ mu' = Nobody /\ Goes(c, "exchange")
    /\ UNCHANGED <<up, outages, wait, since>>

AtLeast(x, y) == IF x >= y THEN x ELSE y
AtMost(x, y) == IF x <= y THEN x ELSE y

NextBackoff == AtMost(AtLeast(2 * backoff, InitialBackoff), MaxBackoff)

\* retryAt counts from when the dial began: what is left of the window once it
\* has taken elapsed.
Window(b, elapsed) == IF b > elapsed THEN b - elapsed ELSE 0

\* The provider is down, the call timed out, or the callback's own deadline
\* passed while it waited or dialled; the failure opens a window for all.
DiscoveryFailed(c) ==
    /\ cb[c].pc = "dial" /\ (~up \/ cb[c].left = 0)
    /\ failed' = TRUE /\ backoff' = NextBackoff /\ wait' = Window(NextBackoff, cb[c].dialling)
    /\ mu' = Nobody /\ Goes(c, "error")
    /\ UNCHANGED <<up, outages, verifier, since>>

\* The exchange and the checks of the id_token.
Finish(c) ==
    /\ cb[c].pc = "exchange"
    /\ \/ up /\ cb[c].left > 0 /\ Goes(c, "ok")
       \/ Goes(c, "error")
    /\ UNCHANGED <<up, outages, mu, verifier, failed, backoff, wait, since>>

\* The provider goes down, or comes back.
Flip ==
    /\ up => outages < MaxOutages
    /\ up' = ~up /\ outages' = IF up THEN outages + 1 ELSE outages
    /\ UNCHANGED <<mu, cb, verifier, failed, backoff, wait, since>>

Less(x) == IF x > 0 THEN x - 1 ELSE 0

\* Time passes.  A provider that is down keeps a call waiting to its timeout and
\* the callback's deadline; one that is up answers at once, and a callback that
\* waits for nobody gets the free mutex before its deadline.
Tick ==
    /\ \A c \in Callbacks :
         /\ cb[c].pc = "dial" => ~up /\ cb[c].dialling < CallTimeout /\ cb[c].left > 0
         /\ cb[c].pc = "lock" => mu # Nobody \/ cb[c].left > 1
         /\ cb[c].pc # "exchange"
    /\ cb' = [c \in Callbacks |->
         [cb[c] EXCEPT !.left = Less(@), !.dialling = IF cb[c].pc = "dial" THEN @ + 1 ELSE @]]
    /\ wait' = Less(wait) /\ since' = AtMost(since + 1, Horizon)
    /\ UNCHANGED <<up, outages, mu, verifier, failed, backoff>>

Step(c) == Cached(c) \/ Dial(c) \/ Discovered(c) \/ DiscoveryFailed(c) \/ Finish(c)

Next == (\E c \in Callbacks : Arrive(c) \/ Step(c)) \/ Flip \/ Tick

\* Time passes however many callbacks come, they keep coming and running, and an
\* outage ends.
Fairness ==
    /\ SF_vars(Tick) /\ WF_vars(~up /\ Flip)
    /\ WF_vars(\E c \in Callbacks : Arrive(c)) /\ \A c \in Callbacks : SF_vars(Step(c))

Spec == Init /\ [][Next]_vars /\ Fairness

-----------------------------------------------------------------------------
\* A callback that begins to dial is alone, and the last dial, if it failed, began
\* no less than its backoff ago.
DialStep ==
    \A c \in Callbacks :
      cb[c].pc # "dial" /\ cb'[c].pc = "dial" =>
        /\ failed => since >= backoff /\ backoff \in InitialBackoff..MaxBackoff
        /\ \A d \in Callbacks : cb[d].pc # "dial"

\* discoveryInitialBackoff and discoveryMaxBackoff: a provider that keeps
\* failing is dialled by one callback at a time and never sooner after the
\* last dial began than the window that dial's failure opened.
DialsSpaced == [][DialStep]_vars

\* Discovery: "a transient outage on the first callback after boot heals by
\* itself": with the provider back, a verifier is found.
Heals == <>verifier

-----------------------------------------------------------------------------
(* The inductive invariant the proofs rest on.                             *)

\* What is told apart of the past covers every backoff.
WellFormed ==
    /\ Nobody \notin Callbacks
    /\ {InitialBackoff, MaxBackoff, CallTimeout, CompleteTimeout, MaxOutages, Horizon} \subseteq Nat
    /\ 0 < InitialBackoff /\ InitialBackoff <= MaxBackoff /\ MaxBackoff <= Horizon

\* Every callback and field of the client has its type.
TypeOK ==
    /\ up \in BOOLEAN /\ outages \in 0..MaxOutages /\ mu \in Callbacks \cup {Nobody}
    /\ cb \in [Callbacks -> Callback] /\ verifier \in BOOLEAN /\ failed \in BOOLEAN
    /\ backoff \in 0..MaxBackoff /\ wait \in Nat /\ since \in 0..Horizon

\* The callback that dials holds the mutex, and began its dial when the last one
\* began.
DiallerHolds ==
    \A c \in Callbacks :
        /\ cb[c].pc = "dial" <=> mu = c
        /\ cb[c].pc = "dial" => cb[c].dialling <= since \/ since = Horizon

\* Between dials, a failure's window ends no sooner than its backoff after the
\* dial that failed began.
WindowCovers ==
    failed => /\ backoff \in InitialBackoff..MaxBackoff
              /\ mu = Nobody => wait + since >= backoff

IInv == TypeOK /\ DiallerHolds /\ WindowCovers
=============================================================================
