---------------------------- MODULE VerifierKeys ----------------------------
(***************************************************************************)
(* The key set a Verifier keeps parsed between calls, shared by all the    *)
(* calls of a process and replaced by whichever of them finds that the     *)
(* published keys have changed.  Published is that of module Keyring, in   *)
(* one replica: kids join in order and leave for good, for no reload is    *)
(* held up as long as the grace.                                           *)
(***************************************************************************)
EXTENDS Naturals, FiniteSets

CONSTANTS
    Kids,           \* naturals, in the order they are generated
    Calls           \* concurrent calls of Verify

VARIABLES
    published,      \* Keys.Published(): a set, for the store orders its rows
    left,           \* kids whose grace has elapsed
    parsed,         \* the memo: kids and the set parsed for them
    call            \* the calls; stale is history: the kids that had left when it began

vars == <<published, left, parsed, call>>

Nothing == [kids |-> {}, set |-> {}, built |-> FALSE]

Idle == [pc |-> "idle", kid |-> 0, kps |-> {}, prev |-> Nothing, set |-> {}, stale |-> {}]

Init ==
    /\ published = {} /\ left = {}
    /\ parsed = Nothing
    /\ call = [c \in Calls |-> Idle]

Goes(c, r) == call' = [call EXCEPT ![c] = r]

-----------------------------------------------------------------------------
\* A reload brings the next key, or drops one past its grace.
Join ==
    /\ \E k \in Kids :
         /\ k \notin published \cup left /\ \A j \in Kids : j < k => j \in published \cup left
         /\ published' = published \cup {k}
    /\ UNCHANGED <<left, parsed, call>>

Leave ==
    /\ \E k \in published : published' = published \ {k} /\ left' = left \cup {k}
    /\ UNCHANGED <<parsed, call>>

\* Verify is called with a token that kid signed, and keySet reads Published.
Verify(c) ==
    /\ call[c].pc = "idle"
    /\ \E k \in Kids : Goes(c, [Idle EXCEPT !.pc = "load", !.kid = k, !.kps = published, !.stale = left])
    /\ UNCHANGED <<published, left, parsed>>

\* Mutant: as many kids as before are taken for the same.
SameLength(kids, kps) == Cardinality(kids) = Cardinality(kps)

sameKids(kids, kps) == kids = kps

\* keySet loads the memo, and uses it if it is for the kids just read.
LoadParsed(c) ==
    /\ call[c].pc = "load"
    /\ Goes(c, IF parsed.built /\ sameKids(parsed.kids, call[c].kps)
                 THEN [call[c] EXCEPT !.pc = "parse", !.set = parsed.set]
                 ELSE [call[c] EXCEPT !.pc = "store", !.prev = parsed])
    /\ UNCHANGED <<published, left, parsed>>

\* One key for each kid read: publicKey takes it over from the previous set or
\* parses it anew, and either is the key of that kid.
Build(prev, kps) == kps

\* The rest of keySet: whoever stores last is kept.
StoreParsed(c) ==
    /\ call[c].pc = "store"
    /\ LET set == Build(call[c].prev, call[c].kps)
       IN  /\ parsed' = [kids |-> call[c].kps, set |-> set, built |-> TRUE]
           /\ Goes(c, [call[c] EXCEPT !.pc = "parse", !.set = set, !.prev = Nothing])
    /\ UNCHANGED <<published, left>>

\* The rest of Verify: no keys at all is ErrNoVerificationKeys, another kid a
\* signature that does not verify; a token may be refused for its claims, its
\* type or its revocation too (module Revocation), and /userinfo for its subject.
Answer(c) ==
    /\ call[c].pc = "parse"
    /\ \/ call[c].kid \in call[c].set /\ Goes(c, [call[c] EXCEPT !.pc = "accepted"])
       \/ call[c].kid \in call[c].set /\ Goes(c, Idle)
       \/ call[c].kid \notin call[c].set /\ Goes(c, [call[c] EXCEPT !.pc = "unknown"])
    /\ UNCHANGED <<published, left, parsed>>

\* /userinfo answers.
Return(c) ==
    /\ call[c].pc \in {"accepted", "unknown"}
    /\ Goes(c, Idle)
    /\ UNCHANGED <<published, left, parsed>>

Next ==
    \/ Join \/ Leave
    \/ \E c \in Calls : Verify(c) \/ LoadParsed(c) \/ StoreParsed(c) \/ Answer(c) \/ Return(c)

Spec == Init /\ [][Next]_vars

-----------------------------------------------------------------------------
Memo == [kids : SUBSET Kids, set : SUBSET Kids, built : BOOLEAN]

Call == [pc : {"idle", "load", "store", "parse", "accepted", "unknown"}, kid : Kids \cup {0},
         kps : SUBSET Kids, prev : Memo, set : SUBSET Kids, stale : SUBSET Kids]

\* The memo and the calls hold sets of kids.
TypeOK ==
    /\ published \subseteq Kids /\ left \subseteq Kids /\ parsed \in Memo
    /\ call \in [Calls -> Call]

\* "a kid past grace is never served from it": whatever the calls that rebuild
\* the set at once, and although an older set may be stored last, a token is
\* not accepted by a key whose grace had elapsed when the call began.
LeftKidRefused ==
    \A c \in Calls : call[c].pc = "accepted" => call[c].kid \notin call[c].stale

\* A key published before the call began, and still so, is not missed although
\* the set is another call's.
PublishedKidFound ==
    \A c \in Calls : call[c].pc = "unknown" => call[c].kid \notin call[c].kps

\* Verify answers by the keys published while it ran, whichever call's set it
\* used: none that had left before, and all that it read.
AnswersByPublished == LeftKidRefused /\ PublishedKidFound

-----------------------------------------------------------------------------
(* The inductive invariant.                                                *)

\* What a call has read does not include what had left before, and the set it
\* verifies with is of the kids it has read.
CallSound(r) ==
    /\ r.kps \cap r.stale = {}
    /\ r.pc \in {"parse", "accepted", "unknown"} => r.set = r.kps
    /\ r.pc = "accepted" => r.kid \in r.set
    /\ r.pc = "unknown" => r.kid \notin r.set

IInv ==
    /\ TypeOK
    /\ published \cap left = {}
    /\ parsed.built => parsed.set = parsed.kids
    /\ \A c \in Calls : CallSound(call[c])
=============================================================================
