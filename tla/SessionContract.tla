-------------------------- MODULE SessionContract --------------------------
(***************************************************************************)
(* What the token endpoint promises of refresh tokens, whatever the store  *)
(* and however its handlers interleave: a session (a refresh-token family) *)
(* has at most one token that would still be accepted, a token is accepted *)
(* once, and a session that was ended gives out no further token.          *)
(*                                                                         *)
(* Module TokenSessions implements this contract; module CliTokens, the    *)
(* command line that keeps one token on disk, relies on it.                *)
(***************************************************************************)
CONSTANTS Families, Tokens

VARIABLES
    current,      \* <<f, t>> when t is the token session f would accept
    spent,        \* tokens that were accepted or withdrawn
    ended         \* sessions that were revoked

contractVars == <<current, spent, ended>>

Init == current = {} /\ spent = {} /\ ended = {}

TokensOf(F) == {t \in Tokens : \E f \in F : <<f, t>> \in current}

Without(F) == {x \in current : x[1] \notin F}

\* A token never seen before becomes the one session f accepts.
Grant(f, t) ==
    /\ f \notin ended /\ TokensOf({f}) = {}
    /\ t \notin spent /\ \A g \in Families : <<g, t>> \notin current
    /\ current' = current \cup {<<f, t>>}
    /\ UNCHANGED <<spent, ended>>

\* The token is presented and accepted.
Spend(f, t) ==
    /\ <<f, t>> \in current
    /\ current' = current \ {<<f, t>>}
    /\ spent' = spent \cup {t}
    /\ UNCHANGED ended

\* Sessions are revoked: by a replay, an operator or a changed admission.
End(F) ==
    /\ current' = Without(F)
    /\ spent' = spent \cup TokensOf(F)
    /\ ended' = ended \cup F

\* The reaper deletes what is left of a session.
Forget(f) ==
    /\ current' = Without({f})
    /\ spent' = spent \cup TokensOf({f})
    /\ ended' = ended \ {f}

Next ==
    \/ \E f \in Families, t \in Tokens : Grant(f, t) \/ Spend(f, t)
    \/ \E F \in SUBSET Families : End(F)
    \/ \E f \in Families : Forget(f)

Spec == Init /\ [][Next]_contractVars
=============================================================================
