------------------------------- MODULE Clients -------------------------------
(***************************************************************************)
(* The registered clients: OIDC_CLIENTS and OIDC_CLIENT_SECRETS, what      *)
(* /authorize accepts of a client, and how /token authenticates the client *)
(* that redeems the code, over a restart that may have changed a secret.   *)
(*                                                                         *)
(* A redirect URI is a record of its parts; odd stands for userinfo, a     *)
(* fragment or an encoding the parser would normalise.  A code is kept as  *)
(* what /token compares of it; its lifetime and single use are module      *)
(* TokenSessions's.                                                        *)
(***************************************************************************)
EXTENDS Naturals, Sequences, FiniteSets

CONSTANTS
    Ids,          \* client ids an entry or a request may name
    URIs,         \* the redirect URIs in play
    Verifiers,    \* PKCE verifiers; a challenge is its verifier
    MaxEntries,   \* bound on OIDC_CLIENTS entries
    MaxRestarts   \* bound on restarts with other secrets

VARIABLES entries, secrets, insecure, pc, code, granted, restarts

vars == <<entries, secrets, insecure, pc, code, granted, restarts>>

DeviceOnly == [scheme |-> "none"]
NoVerifier == "none"

URI == [scheme : {"http", "https", "app"}, host : {"127.0.0.1", "localhost", "web", ""},
        port : {"", "8080", ":"}, path : {"", "/cb", "/other"}, query : BOOLEAN, odd : BOOLEAN]

Entry == [id : Ids, uri : URIs \cup {DeviceOnly}]

NoCode == [client |-> "none", uri |-> DeviceOnly, challenge |-> NoVerifier]

Init ==
    /\ entries \in UNION {[1..n -> Entry] : n \in 1..MaxEntries}
    /\ secrets \in SUBSET Ids /\ insecure \in BOOLEAN
    /\ pc = "start" /\ code = NoCode /\ granted = {} /\ restarts = 0

-----------------------------------------------------------------------------
(* The registry.                                                           *)

\* Only literal addresses: "localhost" can be pointed elsewhere.
IsLoopback(u) == u.scheme = "http" /\ u.host = "127.0.0.1"

\* parseRedirectURI: absolute, a host, no userinfo, no fragment, no empty port.
Parses(u) == u.host # "" /\ u.port # ":" /\ ~u.odd

\* checkRegisteredRedirectURI.
Registrable(u) ==
    /\ Parses(u) /\ u.path # ""
    /\ IF IsLoopback(u) THEN u.port = "" /\ ~u.query
       ELSE u.scheme = "https" \/ (u.scheme = "http" /\ insecure)

EntriesOf(c) == {i \in DOMAIN entries : entries[i].id = c}
RedirectURIs(c) == {entries[i].uri : i \in EntriesOf(c)} \ {DeviceOnly}

\* ParseClientRegistry and WithSecrets: an entry registers one URI or, alone for
\* its id, a device-only client; a secret names a registered client.
Accepted ==
    /\ \A i \in DOMAIN entries : entries[i].uri # DeviceOnly => Registrable(entries[i].uri)
    /\ \A i, j \in DOMAIN entries :
         i # j /\ entries[i].id = entries[j].id =>
            DeviceOnly \notin {entries[i].uri, entries[j].uri} /\ entries[i].uri # entries[j].uri
    /\ \A c \in secrets : EntriesOf(c) # {}

Registered(c) == EntriesOf(c) # {}

\* Client.Allows: the grants follow from the shape of the registration.
AllowsCode(c) == RedirectURIs(c) # {}

\* matchRedirectURI: equal, or loopback and equal but for the port.
MatchRedirectURI(c, u) ==
    \/ u \in RedirectURIs(c)
    \/ /\ Parses(u) /\ IsLoopback(u) /\ ~u.query
       /\ \E r \in RedirectURIs(c) :
            IsLoopback(r) /\ r.scheme = u.scheme /\ r.host = u.host /\ r.path = u.path

IsConfidential(c) == c \in secrets

-----------------------------------------------------------------------------
(* Serving.                                                                *)

\* The graph is built, or startup fails on the first malformed entry.
Start ==
    /\ pc = "start"
    /\ pc' = IF Accepted THEN "serving" ELSE "refused"
    /\ UNCHANGED <<entries, secrets, insecure, code, granted, restarts>>

\* The operator sets or removes a client's secret and restarts.
Restart ==
    /\ pc = "serving" /\ restarts < MaxRestarts
    /\ \E c \in Ids : secrets' = IF c \in secrets THEN secrets \ {c} ELSE secrets \cup {c}
    /\ pc' = "start" /\ restarts' = restarts + 1
    /\ UNCHANGED <<entries, insecure, code, granted>>

\* Authorizer.check: only a confidential client may omit the challenge.
PkceChecked(c, challenge) == challenge = NoVerifier => IsConfidential(c)

\* Validate, then check; the callback mints the code from what was stored.  One
\* grant ends what is explored.
Authorize(c, u, challenge) ==
    /\ pc = "serving" /\ code = NoCode /\ granted = {}
    /\ Registered(c) /\ AllowsCode(c) /\ MatchRedirectURI(c, u)
    /\ PkceChecked(c, challenge)
    /\ code' = [client |-> c, uri |-> u, challenge |-> challenge]
    /\ UNCHANGED <<entries, secrets, insecure, pc, granted, restarts>>

\* ClientRegistry.Authenticate: a presented secret is right or wrong.
Authenticate(c, secret) == IsConfidential(c) /\ secret = "right"

\* authenticateClient: a confidential client proves its secret, and a secret a
\* public client presents is not ignored.
AuthenticateClient(c, secret) ==
    /\ Registered(c)
    /\ (IsConfidential(c) \/ secret # "none") => Authenticate(c, secret)
    /\ AllowsCode(c)

\* Mutant: a code without a challenge needs no further proof.
ProvenOnce(c, verifier) == code.challenge # NoVerifier => verifier = code.challenge

\* A code with a challenge needs its verifier, one without needs a client that
\* has proven a secret.
Proven(c, verifier) ==
    IF code.challenge # NoVerifier THEN verifier = code.challenge ELSE IsConfidential(c)

\* RedeemAuthorizationCode: what the request lacks refuses it, what the code shows
\* to be wrong refuses it too, with the code spent.
Redeem(c, u, verifier, secret) ==
    /\ pc = "serving" /\ code # NoCode
    /\ AuthenticateClient(c, secret)
    /\ ~IsConfidential(c) => verifier # NoVerifier
    /\ granted' = IF c = code.client /\ u = code.uri /\ Proven(c, verifier)
                  THEN {[challenge |-> code.challenge, verifier |-> verifier, secret |-> secret]}
                  ELSE granted
    /\ code' = NoCode
    /\ UNCHANGED <<entries, secrets, insecure, pc, restarts>>

Next ==
    \/ Start \/ Restart
    \/ \E c \in Ids, u \in URIs, v \in Verifiers \cup {NoVerifier} :
         \/ Authorize(c, u, v)
         \/ \E s \in {"none", "right", "wrong"} : Redeem(c, u, v, s)

Spec == Init /\ [][Next]_vars

-----------------------------------------------------------------------------
\* The code's URI has a path and is, but for a loopback port, registered.
SentAsRegistered(c) ==
    /\ c.uri.path # ""
    /\ c.uri.scheme = "https" \/ IsLoopback(c.uri) \/ insecure
    /\ [c.uri EXCEPT !.port = IF IsLoopback(c.uri) THEN "" ELSE @] \in RedirectURIs(c.client)

\* ParseClientRegistry, Validate and RedeemAuthorizationCode: a code is sent
\* only to a URI that is registered but for a loopback port, and over plain http
\* only to the browser's own machine unless the operator allowed it; and every
\* redemption has shown the verifier of the code's challenge or, for a code
\* without one, the client's secret, even when that secret was removed after the
\* code was minted.
TokensNeedProof ==
    /\ code # NoCode => SentAsRegistered(code)
    /\ \A g \in granted : IF g.challenge # NoVerifier THEN g.verifier = g.challenge ELSE g.secret = "right"

-----------------------------------------------------------------------------
(* The inductive invariant the proofs rest on.                             *)

WellFormed == URIs \subseteq URI /\ MaxEntries \in Nat

TypeOK ==
    /\ \A i \in DOMAIN entries : entries[i] \in Entry
    /\ pc \in {"start", "serving", "refused"} /\ insecure \in BOOLEAN

\* A serving process has accepted its registry.
IInv == TypeOK /\ (pc = "serving" => Accepted) /\ TokensNeedProof
=============================================================================
