-------------------------------- MODULE Policy --------------------------------
(***************************************************************************)
(* What a person's access token may do: the operator's rules are parsed    *)
(* when a replica starts, every token is minted from the rules of the      *)
(* replica that mints it, and Temporal reads the permissions claim.        *)
(* Replicas restart one by one after the configuration is edited, so two   *)
(* policies serve one session's refreshes in turn.                         *)
(***************************************************************************)
EXTENDS Naturals, Sequences, FiniteSets, FiniteSetsExt, SequencesExt

CONSTANTS
    Emails,            \* records [user, domain]
    Configs,           \* the configurations an operator writes
    RealNamespaces,
    Replicas,
    Sessions,
    AccessTTL,
    MaxEdits           \* bound on the edits of the configuration

VARIABLES
    config,            \* what the next start of a replica reads
    edits,
    policy,            \* per replica, what it parsed; Down while it does not run
    session,           \* per session, its person and how far it is
    tokens,            \* the access tokens that have not expired
    settled            \* time since the configuration or a replica last changed, up to AccessTTL

vars == <<config, edits, policy, session, tokens, settled>>

SystemNamespace == "temporal-system"
Wildcard == "*"
Namespaces == RealNamespaces \cup {SystemNamespace, Wildcard}

roleBits == [worker |-> 1, read |-> 2, write |-> 4, admin |-> 8]
Roles == DOMAIN roleBits

-----------------------------------------------------------------------------
(* A permission is [namespace, role]; a Grant is a function from the       *)
(* namespaces it names to their roles.                                     *)

Empty == [ns \in {} |-> "read"]

\* Mutant: the later entry overrides the earlier one.
AddLast(g, p) == [ns \in DOMAIN g \cup {p.namespace} |-> IF ns = p.namespace THEN p.role ELSE g[ns]]

add(g, p) ==
    IF p.namespace \in DOMAIN g /\ roleBits[p.role] <= roleBits[g[p.namespace]]
    THEN g
    ELSE [ns \in DOMAIN g \cup {p.namespace} |-> IF ns = p.namespace THEN p.role ELSE g[ns]]

\* ParseClaim: the entries of a permission list, one after the other.
Grant(ps) == FoldLeft(add, Empty, ps)

Merge(grants) ==
    FoldLeft(LAMBDA out, g :
               FoldLeft(add, out, SetToSeq({[namespace |-> ns, role |-> g[ns]] : ns \in DOMAIN g})),
             Empty, grants)

\* ToClaim: one entry per namespace, in some fixed order.
ToClaim(g) == SetToSeq({[namespace |-> ns, role |-> g[ns]] : ns \in DOMAIN g})

Grantable(p) == p.namespace # Wildcard /\ p.role # "worker"

\* ParseConfig accepts the list: known roles, and every entry grantable.
ParsesConfig(ps) == \A i \in DOMAIN ps : ps[i].role \in Roles /\ Grantable(ps[i])

-----------------------------------------------------------------------------
(* A rule is [kind, value, permissions]; a configuration is                *)
(* [rules, dflt, domains].                                                 *)

parseRule(r) == r.kind \in {"email", "domain"} /\ r.permissions # <<>> /\ ParsesConfig(r.permissions)

\* newPolicy and requireAuthz: the configuration a server starts with.
Served(c) ==
    /\ \A i \in DOMAIN c.rules : parseRule(c.rules[i])
    /\ ParsesConfig(c.dflt)
    /\ c.rules # <<>> \/ c.dflt # <<>>

Down == [rules |-> <<>>, dflt |-> <<>>, domains |-> {}]

matches(r, e) == (r.kind = "email" /\ r.value = e) \/ (r.kind = "domain" /\ r.value = e.domain)

\* Explain and Resolve.
Resolve(c, e) ==
    LET matched == SelectSeq(c.rules, LAMBDA r : matches(r, e))
    IN  IF matched = <<>>
        THEN Merge(<<Grant(c.dflt)>>)
        ELSE Merge([i \in DOMAIN matched |-> Grant(matched[i].permissions)])

permitted(c, e) == Resolve(c, e) # Empty

emailDomainAllowed(c, e) == e.domain \in c.domains

-----------------------------------------------------------------------------
NoClaim == <<>>

Init ==
    /\ config \in Configs /\ edits = 0 /\ settled = 0
    /\ policy = [r \in Replicas |-> Down]
    /\ session = [s \in Sessions |-> [pc |-> "none", email |-> CHOOSE e \in Emails : TRUE, claim |-> NoClaim]]
    /\ tokens = {}

Edit(c) ==
    /\ edits < MaxEdits /\ c # config
    /\ config' = c /\ edits' = edits + 1 /\ settled' = 0
    /\ UNCHANGED <<policy, session, tokens>>

\* A replica starts, or restarts, and refuses a configuration it cannot serve.
Restart(r) ==
    /\ policy[r] # config
    /\ policy' = [policy EXCEPT ![r] = IF Served(config) THEN config ELSE Down]
    /\ settled' = 0
    /\ UNCHANGED <<config, edits, session, tokens>>

\* The callback admits the person, somebody grants them something, and a code is
\* saved; otherwise they are told so and nothing is kept.
SignIn(r, s, e) ==
    /\ policy[r] # Down /\ session[s].pc = "none"
    /\ emailDomainAllowed(policy[r], e) /\ permitted(policy[r], e)
    /\ session' = [session EXCEPT ![s] = [pc |-> "code", email |-> e, claim |-> NoClaim]]
    /\ UNCHANGED <<config, edits, policy, tokens, settled>>

\* Mutant: a refresh carries the session's permissions over.
ClaimKept(r, s) ==
    IF session[s].claim # NoClaim THEN session[s].claim ELSE ToClaim(Resolve(policy[r], session[s].email))

ClaimAt(r, s) == ToClaim(Resolve(policy[r], session[s].email))

\* issue: the permissions are resolved afresh; granted nothing, the person gets
\* no token and the session is over.
issue(r, s) ==
    IF permitted(policy[r], session[s].email)
    THEN /\ session' = [session EXCEPT ![s].pc = "live", ![s].claim = ClaimAt(r, s)]
         /\ tokens' = tokens \cup {[email |-> session[s].email, claim |-> ClaimAt(r, s),
                                    policy |-> policy[r], left |-> AccessTTL]}
    ELSE /\ session' = [session EXCEPT ![s].pc = "over", ![s].claim = NoClaim]
         /\ UNCHANGED tokens

\* The code is redeemed, at any replica.
Exchange(r, s) ==
    /\ policy[r] # Down /\ session[s].pc = "code"
    /\ issue(r, s)
    /\ UNCHANGED <<config, edits, policy, settled>>

\* The refresh grant re-applies the allowlist first; a domain no longer allowed
\* loses the family.
Refresh(r, s) ==
    /\ policy[r] # Down /\ session[s].pc = "live"
    /\ \/ emailDomainAllowed(policy[r], session[s].email) /\ issue(r, s)
       \/ /\ ~emailDomainAllowed(policy[r], session[s].email)
          /\ session' = [session EXCEPT ![s].pc = "over", ![s].claim = NoClaim]
          /\ UNCHANGED tokens
    /\ UNCHANGED <<config, edits, policy, settled>>

Tick ==
    /\ tokens' = {[t EXCEPT !.left = @ - 1] : t \in {u \in tokens : u.left > 1}}
    /\ settled' = IF settled = AccessTTL THEN settled ELSE settled + 1
    /\ UNCHANGED <<config, edits, policy, session>>

Next ==
    \/ \E c \in Configs : Edit(c)
    \/ \E r \in Replicas : Restart(r)
    \/ \E r \in Replicas, s \in Sessions :
         (\E e \in Emails : SignIn(r, s, e)) \/ Exchange(r, s) \/ Refresh(r, s)
    \/ Tick

Spec == Init /\ [][Next]_vars

-----------------------------------------------------------------------------
(* How Temporal's default ClaimMapper and authorizer read a claim.  The    *)
(* mask of a namespace ORs the bits of its entries; the documentation says *)
(* the last entry overrides.                                               *)

MaskOf(claim, ns) ==
    MapThenSumSet(LAMBDA role : roleBits[role],
                  {claim[i].role : i \in {j \in DOMAIN claim : claim[j].namespace = ns}})

OverrideOf(claim, ns) ==
    LET at == {j \in DOMAIN claim : claim[j].namespace = ns}
    IN  IF at = {} THEN 0 ELSE roleBits[claim[Max(at)].role]

\* hasRole for a call on ns: the OR of two masks of one bit each passes a numeric
\* comparison with one bit exactly when the larger of them does.
HasRole(claim, ns) == Max({MaskOf(claim, ns), MaskOf(claim, SystemNamespace)})

\* What the operator wrote for e: the entries of every rule that selects e, or
\* the default's when none does.
Written(c, e) ==
    LET selecting == {i \in DOMAIN c.rules : matches(c.rules[i], e)}
    IN  IF selecting = {} THEN ToSet(c.dflt)
        ELSE UNION {ToSet(c.rules[i].permissions) : i \in selecting}

\* perms: "a claim means the same under either reading", and Grantable: "a grant
\* an operator writes never silently does nothing".  Whichever way Temporal reads
\* a token, it finds in every namespace the highest role any entry that selects
\* the person gives them there, and nothing where none does; and every such entry
\* lets the person call something, in that role at least.
TokenMeansRules ==
    \A t \in tokens :
      LET written == Written(t.policy, t.email)
      IN  /\ \A ns \in Namespaces :
               LET highest == Max({0} \cup {roleBits[p.role] : p \in {q \in written : q.namespace = ns}})
               IN  MaskOf(t.claim, ns) = highest /\ OverrideOf(t.claim, ns) = highest
          /\ \A p \in written : \E ns \in RealNamespaces :
               HasRole(t.claim, ns) >= roleBits[p.role] /\ roleBits[p.role] >= roleBits["read"]

\* refreshTokenGrant: "a changed rule takes effect at the next refresh (within
\* OIDC_ACCESS_TOKEN_TTL)": once every replica has run the written configuration
\* for that long, no token grants anything else than it does.
ChangedRulesTakeEffect ==
    settled = AccessTTL /\ (\A r \in Replicas : policy[r] \in {config, Down}) =>
      \A t \in tokens : t.claim = ToClaim(Resolve(config, t.email))

-----------------------------------------------------------------------------
(* The inductive invariant the proofs rest on.                             *)

WellFormed == AccessTTL \in Nat \ {0}

TypeOK ==
    /\ settled \in 0..AccessTTL /\ DOMAIN policy = Replicas
    /\ \A t \in tokens :
         /\ t = [email |-> t.email, claim |-> t.claim, policy |-> t.policy, left |-> t.left]
         /\ t.left \in 1..AccessTTL

\* A token carries what the policy of the replica that minted it says, and is as
\* old as that policy has been out of use.
IInv ==
    /\ TypeOK
    /\ \A t \in tokens : t.claim = ToClaim(Resolve(t.policy, t.email))
    /\ (\A r \in Replicas : policy[r] \in {config, Down}) =>
         \A t \in tokens : t.policy = config \/ t.left + settled <= AccessTTL
=============================================================================
