------------------------------ MODULE Redaction ------------------------------
(***************************************************************************)
(* The declared values Scrub masks: a process-wide Set, a child Set per    *)
(* request, each with a mutex, a version and a cached replacer that is     *)
(* rebuilt only after a Declare here or in the parent.  A request scrubs   *)
(* holding its own mutex and takes the parent's for each read, so the      *)
(* parent may declare between two reads.                                   *)
(***************************************************************************)
EXTENDS Naturals, FiniteSets, FiniteSetsExt

CONSTANTS
    Process,      \* the process Set
    Requests,     \* its children
    Values,
    Length        \* of each value

VARIABLES
    values,       \* per Set, the strength each value is declared with; 0 if it is not
    version,      \* per Set
    cache,        \* per Set, the replacer it cached and the version it is for
    scrub         \* per request, the Scrub it runs

vars == <<values, version, cache, scrub>>

Sets == {Process} \cup Requests

\* Identifier, PII and Secret: strength, and the shortest value each masks.
Rules == {[strength |-> 1, minLen |-> 8], [strength |-> 2, minLen |-> 4], [strength |-> 3, minLen |-> 4]}

Nothing == [v \in Values |-> 0]

Stronger(a, b) == [v \in Values |-> Max({a[v], b[v]})]

Idle == [pc |-> "idle", version |-> 0, shown |-> Nothing, declared |-> Nothing]

Init ==
    /\ values = [s \in Sets |-> Nothing]
    /\ version = [s \in Sets |-> 0]
    /\ cache = [s \in Sets |-> [version |-> 0, shown |-> Nothing]]
    /\ scrub = [r \in Requests |-> Idle]

\* A Set's mutex is held by the Scrub of its request between its steps.
Unlocked(s) == s \in Requests => scrub[s].pc \notin {"collect", "store"}

Declarable(s, v, rule) == Length[v] >= rule.minLen /\ values[s][v] < rule.strength

Declare(s, v, rule) ==
    /\ Unlocked(s) /\ Declarable(s, v, rule)
    /\ values' = [values EXCEPT ![s][v] = rule.strength]
    /\ version' = [version EXCEPT ![s] = @ + 1]
    /\ UNCHANGED <<cache, scrub>>

Done(r, shown) == [scrub[r] EXCEPT !.pc = "done", !.shown = shown,
                                   !.declared = Stronger(values[r], values[Process])]

\* replacer of a request that declared nothing: the process's, rebuilt under its
\* mutex when its version has moved.
ScrubAsProcess(r) ==
    /\ scrub[r].pc = "idle" /\ values[r] = Nothing
    /\ cache' = IF cache[Process].version = version[Process] THEN cache
                ELSE [cache EXCEPT ![Process] = [version |-> version[Process], shown |-> values[Process]]]
    /\ scrub' = [scrub EXCEPT ![r] = Done(r, cache'[Process].shown)]
    /\ UNCHANGED <<values, version>>

versionLocked(r) == version[r] + version[Process]

\* The version, and the cached replacer when it is for that version.
ScrubVersion(r) ==
    /\ scrub[r].pc = "idle" /\ values[r] # Nothing
    /\ LET v == versionLocked(r)
       IN  scrub' = [scrub EXCEPT ![r] =
             IF v = cache[r].version
             THEN Done(r, cache[r].shown)
             ELSE [pc |-> "collect", version |-> v, shown |-> Nothing,
                   declared |-> Stronger(values[r], values[Process])]]
    /\ UNCHANGED <<values, version, cache>>

\* collectLocked.
ScrubCollect(r) ==
    /\ scrub[r].pc = "collect"
    /\ scrub' = [scrub EXCEPT ![r].pc = "store", ![r].shown = Stronger(values[r], values[Process])]
    /\ UNCHANGED <<values, version, cache>>

\* Mutant: the version is read after the values.
VersionNow(r) == versionLocked(r)

CachedVersion(r) == scrub[r].version

ScrubStore(r) ==
    /\ scrub[r].pc = "store"
    /\ cache' = [cache EXCEPT ![r] = [version |-> CachedVersion(r), shown |-> scrub[r].shown]]
    /\ scrub' = [scrub EXCEPT ![r].pc = "done"]
    /\ UNCHANGED <<values, version>>

\* The text is exported.
Exported(r) ==
    /\ scrub[r].pc = "done"
    /\ scrub' = [scrub EXCEPT ![r] = Idle]
    /\ UNCHANGED <<values, version, cache>>

Next ==
    \/ \E s \in Sets, v \in Values, rule \in Rules : Declare(s, v, rule)
    \/ \E r \in Requests :
         \/ ScrubAsProcess(r) \/ ScrubVersion(r) \/ ScrubCollect(r) \/ ScrubStore(r)
         \/ Exported(r)

Spec == Init /\ [][Next]_vars

-----------------------------------------------------------------------------
\* Rule: "When a value is declared under several rules the strongest wins,
\* wherever each was declared": a text exported masks every value declared, here
\* or in the process, before its Scrub looked, at least as strongly as the
\* strongest rule it was declared under, cached replacer or not.
ScrubMasksDeclared ==
    \A r \in Requests : scrub[r].pc = "done" =>
      \A v \in Values : scrub[r].shown[v] >= scrub[r].declared[v]

-----------------------------------------------------------------------------
(* The inductive invariant the proofs rest on.                             *)

WellFormed == Process \notin Requests

Strengths == [Values -> 0..3]

TypeOK ==
    /\ values \in [Sets -> Strengths] /\ version \in [Sets -> Nat]
    /\ cache \in [Sets -> [version : Nat, shown : Strengths]]
    /\ scrub \in [Requests -> [pc : {"idle", "collect", "store", "done"}, version : Nat,
                               shown : Strengths, declared : Strengths]]

\* A replacer masks what is declared now, here and in the process.
Covering(shown, r) ==
    \A v \in Values : shown[v] >= values[r][v] /\ shown[v] >= values[Process][v]

\* The version says whether it does: it moves with every Declare.
Current(ver, shown, r) ==
    /\ ver <= versionLocked(r)
    /\ ver = versionLocked(r) => Covering(shown, r)

ProcessCurrent ==
    /\ cache[Process].version <= version[Process]
    /\ cache[Process].version = version[Process] => cache[Process].shown = values[Process]

\* A Scrub between its steps has lost nothing declared before it looked.
ScrubSound(r) ==
    /\ scrub[r].pc = "collect" =>
         /\ scrub[r].version <= versionLocked(r)
         /\ \A v \in Values : \/ values[r][v] >= scrub[r].declared[v]
                              \/ values[Process][v] >= scrub[r].declared[v]
    /\ scrub[r].pc = "store" => Current(scrub[r].version, scrub[r].shown, r)
    /\ scrub[r].pc \in {"store", "done"} =>
         \A v \in Values : scrub[r].shown[v] >= scrub[r].declared[v]

IInv ==
    /\ TypeOK /\ ProcessCurrent
    /\ \A r \in Requests : Current(cache[r].version, cache[r].shown, r) /\ ScrubSound(r)
=============================================================================
