------------------------------- MODULE MCRules -------------------------------
(***************************************************************************)
(* Small instances of the modules about what is accepted, granted, copied  *)
(* or masked, in one run: a behaviour is one of StateCopy, Clients,        *)
(* Attempts, Policy, Redaction, KeyWrapping, ClientAddress or              *)
(* VerifierKeys, and the other modules' variables are 0 in it.             *)
(***************************************************************************)
EXTENDS Naturals

CONSTANTS k1, k2, t1, t2, c1, i1, i2, s1, s2, r1, r2, none

VARIABLES
    case,
    pc, now, buckets,                                           \* shared names
    source, target, srcCols, dstCols, force, known, snapshot, staged, locked, writes,
    sourcePast,                                                 \* StateCopy
    entries, secrets, insecure, code, granted, restarts,        \* Clients
    order, attempt, begun, failed, evicted,                     \* Attempts
    config, edits, policy, session, tokens, settled,            \* Policy
    values, version, cache, scrub,                              \* Redaction
    rows, cmd, kek, loaded, starts,                             \* KeyWrapping
    proxies, asked, passed, refused, inside,                    \* ClientAddress
    published, left, parsed, call                               \* VerifierKeys

copyVars == <<source, target, srcCols, dstCols, force, known, snapshot, staged, locked, writes, sourcePast>>
clientVars == <<entries, secrets, insecure, code, granted, restarts>>
attemptVars == <<order, attempt, begun, failed, evicted>>
policyVars == <<config, edits, policy, session, tokens, settled>>
redactionVars == <<values, version, cache, scrub>>
wrappingVars == <<rows, cmd, kek, loaded, starts>>
addressVars == <<proxies, asked, passed, refused, inside>>
verifierVars == <<published, left, parsed, call>>

vars ==
    <<case, pc, now, buckets, copyVars, clientVars, attemptVars, policyVars, redactionVars, wrappingVars,
      addressVars, verifierVars>>

Copy ==
    INSTANCE StateCopy
    WITH Kids <- {k1}, Tokens <- {t1, t2}, Columns <- {c1}, MaxWrites <- 2, MaxTime <- 2

ASSUME CopyAssumption == Copy!WellFormed

\* Loopback and web URIs that differ in port, path or scheme.
URIs ==
    [scheme : {"http"}, host : {"127.0.0.1"}, port : {"", "8080"}, path : {"", "/cb", "/other"},
     query : {FALSE}, odd : {FALSE}]
      \cup [scheme : {"http", "https"}, host : {"web"}, port : {""}, path : {"", "/cb"},
            query : {FALSE}, odd : {FALSE}]

Clients ==
    INSTANCE Clients
    WITH Ids <- {"ui", "cli"}, Verifiers <- {"v1", "v2"}, MaxEntries <- 2, MaxRestarts <- 1

ASSUME ClientsAssumption == Clients!WellFormed

Attempts ==
    INSTANCE Attempts
    WITH Addresses <- {i1, i2}, Sessions <- {s1, s2}, NoSession <- none, Requests <- {r1, r2},
         Burst <- [ip |-> 2, session |-> 1], MaxKeys <- 1, MaxTime <- 1, MaxAttempts <- 3

ASSUME AttemptsAssumption == Attempts!WellFormed

Permission(ns, role) == [namespace |-> ns, role |-> role]
Rule(kind, value, ps) == [kind |-> kind, value |-> value, permissions |-> ps]

ann == [user |-> "ann", domain |-> "x"]
ben == [user |-> "ben", domain |-> "y"]

\* Overlapping rules, repeated entries, a default, a dropped domain, a dropped
\* rule, and three configurations a server refuses.
Configs ==
    {[rules |-> <<Rule("email", ann, <<Permission("orders", "admin")>>),
                  Rule("domain", "x", <<Permission("orders", "read"), Permission("temporal-system", "read")>>)>>,
      dflt |-> <<>>, domains |-> {"x", "y"}],
     [rules |-> <<Rule("domain", "x", <<Permission("orders", "write"), Permission("orders", "read")>>)>>,
      dflt |-> <<Permission("temporal-system", "read")>>, domains |-> {"x"}],
     [rules |-> <<Rule("email", ben, <<Permission("orders", "write")>>)>>,
      dflt |-> <<>>, domains |-> {"x", "y"}],
     [rules |-> <<Rule("email", ben, <<Permission("orders", "worker"), Permission("*", "admin")>>)>>,
      dflt |-> <<Permission("orders", "read")>>, domains |-> {"y"}],
     [rules |-> <<Rule("group", "x", <<Permission("orders", "read")>>)>>, dflt |-> <<>>, domains |-> {"x"}],
     [rules |-> <<>>, dflt |-> <<>>, domains |-> {"x"}]}

Policy ==
    INSTANCE Policy
    WITH Emails <- {ann, ben}, RealNamespaces <- {"orders"}, Replicas <- {r1, r2}, Sessions <- {s1, s2},
         AccessTTL <- 2, MaxEdits <- 1

ASSUME PolicyAssumption == Policy!WellFormed

Redaction ==
    INSTANCE Redaction
    WITH Process <- "process", Requests <- {r1}, Values <- {"name", "token"},
         Length <- [name |-> 5, token |-> 9]

ASSUME RedactionAssumption == Redaction!WellFormed

Wrapping ==
    INSTANCE KeyWrapping
    WITH Kids <- {1, 2, 3}, Keks <- {k1, k2}, NoKek <- none, Replicas <- {r1, r2}, MaxStarts <- 3

ASSUME WrappingAssumption == Wrapping!WellFormed

Address(family, net, host) == [family |-> family, net |-> net, host |-> host]

\* A proxy whose address arrives in v6 form, a neighbour of it, and two addresses
\* of one client's network.
Addresses ==
    {Address("mapped", "lan", "1"), Address("v4", "lan", "2"), Address("v6", "wan", "1"),
     Address("v6", "wan", "2")}

\* No proxy, the one by its address, and its network.
ClientAddress ==
    INSTANCE ClientAddress
    WITH ProxyLists <- {{}, {[addr |-> Address("v4", "lan", "1"), bits |-> "host"]},
                        {[addr |-> Address("v4", "lan", "*"), bits |-> "net"]}},
         Garbage <- none, Endpoints <- {"authorize", "token"},
         Limit <- [authorize |-> 0, token |-> 2], MaxClaimed <- 1, MaxHops <- 2, MaxRequests <- 4, MaxTime <- 1

ASSUME AddressAssumption == ClientAddress!WellFormed

Verifier == INSTANCE VerifierKeys WITH Kids <- 1..3, Calls <- {r1, r2}

CopyOff ==
    /\ source = 0 /\ target = 0 /\ srcCols = 0 /\ dstCols = 0 /\ force = 0 /\ known = 0 /\ snapshot = 0
    /\ staged = 0 /\ locked = 0 /\ writes = 0 /\ sourcePast = 0

ClientsOff ==
    entries = 0 /\ secrets = 0 /\ insecure = 0 /\ code = 0 /\ granted = 0 /\ restarts = 0

AttemptsOff ==
    order = 0 /\ attempt = 0 /\ begun = 0 /\ failed = 0 /\ evicted = 0

PolicyOff == config = 0 /\ edits = 0 /\ policy = 0 /\ session = 0 /\ tokens = 0 /\ settled = 0

RedactionOff == values = 0 /\ version = 0 /\ cache = 0 /\ scrub = 0

WrappingOff == rows = 0 /\ cmd = 0 /\ kek = 0 /\ loaded = 0 /\ starts = 0

AddressOff == proxies = 0 /\ asked = 0 /\ passed = 0 /\ refused = 0 /\ inside = 0

VerifierOff == published = 0 /\ left = 0 /\ parsed = 0 /\ call = 0

Init ==
    \/ /\ case = "copy" /\ Copy!Init /\ now = 0 /\ buckets = 0
       /\ ClientsOff /\ AttemptsOff /\ PolicyOff /\ RedactionOff
       /\ WrappingOff /\ AddressOff /\ VerifierOff
    \/ /\ case = "clients" /\ Clients!Init /\ now = 0 /\ buckets = 0
       /\ CopyOff /\ AttemptsOff /\ PolicyOff /\ RedactionOff
       /\ WrappingOff /\ AddressOff /\ VerifierOff
    \/ /\ case = "attempts" /\ Attempts!Init /\ pc = 0
       /\ CopyOff /\ ClientsOff /\ PolicyOff /\ RedactionOff
       /\ WrappingOff /\ AddressOff /\ VerifierOff
    \/ /\ case = "policy" /\ Policy!Init /\ pc = 0 /\ now = 0 /\ buckets = 0
       /\ CopyOff /\ ClientsOff /\ AttemptsOff /\ RedactionOff
       /\ WrappingOff /\ AddressOff /\ VerifierOff
    \/ /\ case = "redaction" /\ Redaction!Init /\ pc = 0 /\ now = 0 /\ buckets = 0
       /\ CopyOff /\ ClientsOff /\ AttemptsOff /\ PolicyOff
       /\ WrappingOff /\ AddressOff /\ VerifierOff
    \/ /\ case = "wrapping" /\ Wrapping!Init /\ pc = 0 /\ now = 0 /\ buckets = 0
       /\ CopyOff /\ ClientsOff /\ AttemptsOff /\ PolicyOff
       /\ RedactionOff /\ AddressOff /\ VerifierOff
    \/ /\ case = "address" /\ ClientAddress!Init /\ pc = 0
       /\ CopyOff /\ ClientsOff /\ AttemptsOff /\ PolicyOff
       /\ RedactionOff /\ WrappingOff /\ VerifierOff
    \/ /\ case = "verifier" /\ Verifier!Init /\ pc = 0 /\ now = 0 /\ buckets = 0
       /\ CopyOff /\ ClientsOff /\ AttemptsOff /\ PolicyOff
       /\ RedactionOff /\ WrappingOff /\ AddressOff

Next ==
    /\ \/ /\ case = "copy" /\ Copy!Next
          /\ UNCHANGED <<now, buckets, clientVars, attemptVars, policyVars, redactionVars,
                       wrappingVars, addressVars, verifierVars>>
       \/ /\ case = "clients" /\ Clients!Next
          /\ UNCHANGED <<now, buckets, copyVars, attemptVars, policyVars, redactionVars,
                       wrappingVars, addressVars, verifierVars>>
       \/ /\ case = "attempts" /\ Attempts!Next
          /\ UNCHANGED <<pc, copyVars, clientVars, policyVars, redactionVars, wrappingVars,
                       addressVars, verifierVars>>
       \/ /\ case = "policy" /\ Policy!Next
          /\ UNCHANGED <<pc, now, buckets, copyVars, clientVars, attemptVars,
                       redactionVars, wrappingVars, addressVars, verifierVars>>
       \/ /\ case = "redaction" /\ Redaction!Next
          /\ UNCHANGED <<pc, now, buckets, copyVars, clientVars, attemptVars,
                       policyVars, wrappingVars, addressVars, verifierVars>>
       \/ /\ case = "wrapping" /\ Wrapping!Next
          /\ UNCHANGED <<pc, now, buckets, copyVars, clientVars, attemptVars,
                       policyVars, redactionVars, addressVars, verifierVars>>
       \/ /\ case = "address" /\ ClientAddress!Next
          /\ UNCHANGED <<pc, copyVars, clientVars, attemptVars, policyVars, redactionVars,
                       wrappingVars, verifierVars>>
       \/ /\ case = "verifier" /\ Verifier!Next
          /\ UNCHANGED <<pc, now, buckets, copyVars, clientVars, attemptVars,
                       policyVars, redactionVars, wrappingVars, addressVars>>
    /\ UNCHANGED case

Spec == Init /\ [][Next]_vars

-----------------------------------------------------------------------------
\* StateCopy: a copy leaves the source of one instant, and without --force loses
\* no row of the target.
CopiesOneSnapshot == [][case = "copy" => Copy!CopyStep]_vars

\* Clients: codes go to registered URIs only, and every redemption has shown a
\* verifier or a secret.
TokensNeedProof == case = "clients" => Clients!TokensNeedProof

\* Attempts: a limiter's memory and the failed attempts stay within their bounds.
FailuresWithinBudget == case = "attempts" => Attempts!FailuresWithinBudget

\* Policy: a token means what the rules say, however it is read.
TokenMeansRules == case = "policy" => Policy!TokenMeansRules

\* Policy: changed rules take effect within the access-token lifetime.
ChangedRulesTakeEffect == case = "policy" => Policy!ChangedRulesTakeEffect

\* Redaction: what was declared is masked.
ScrubMasksDeclared == case = "redaction" => Redaction!ScrubMasksDeclared

\* KeyWrapping: a rotation keeps to the table's KEK, and a reload takes no key
\* out of service.
KeysStayInService == [][case = "wrapping" => Wrapping!ServiceStep]_vars

\* ClientAddress: an address passes its budget and is refused for its own use.
EachPaysForItself == case = "address" => ClientAddress!EachPaysForItself

\* VerifierKeys: a key that has left verifies nothing, a published one is found.
AnswersByPublished == case = "verifier" => Verifier!AnswersByPublished
=============================================================================
