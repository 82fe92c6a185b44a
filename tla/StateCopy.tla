------------------------------ MODULE StateCopy ------------------------------
(***************************************************************************)
(* `tempogate state copy`: one transaction that fills the Postgres store   *)
(* from a snapshot of the SQLite one, while replicas that should have been *)
(* stopped write to either.                                                *)
(*                                                                         *)
(* A database is a function from tables to sets of rows.  A row of         *)
(* refresh_tokens is a token of the one family the model has, with its     *)
(* revoked_at (0 for NULL); keypairs stands for every table that is copied *)
(* as it is.  refresh_families is the table only Postgres has.             *)
(***************************************************************************)
EXTENDS Naturals, FiniteSets

CONSTANTS
    Kids,        \* rows of keypairs
    Tokens,      \* tokens of the family
    Columns,     \* what a later release's migration may add
    MaxWrites,   \* bound on the writes of replicas
    MaxTime      \* bound on revocation times

VARIABLES
    source,      \* the SQLite tables
    target,      \* the Postgres tables, as committed
    srcCols, dstCols,
    pc, force,
    known,       \* targetColumns, as read
    snapshot,    \* what DumpTables' transaction sees
    staged,      \* the target's tables inside the import's transaction
    locked,
    writes,
    sourcePast   \* history: the source since the copy began

vars == <<source, target, srcCols, dstCols, pc, force, known, snapshot, staged, locked, writes,
          sourcePast>>

Rows == [token : Tokens, revoked : 0..MaxTime]
Tables == {"keypairs", "refresh_tokens"}
Derived == "refresh_families"

Empty == [t \in Tables \cup {Derived} |-> {}]

Revocations(db) == {r.revoked : r \in db["refresh_tokens"]} \ {0}

\* What SaveRefresh takes for a revoked family: on SQLite one of whose tokens is
\* revoked, on Postgres one whose row is.
RevokedInSqlite(db) == Revocations(db) # {}
RevokedInPostgres(db) == \E at \in db[Derived] : at > 0

Held(db) == \E t \in DOMAIN db : db[t] # {}

Init ==
    /\ \E k \in SUBSET Kids : \E r \in {{}} \cup {{x} : x \in Rows} :
         source = [Empty EXCEPT !["keypairs"] = k, !["refresh_tokens"] = r]
    /\ \E k \in SUBSET Kids : target = [Empty EXCEPT !["keypairs"] = k]
    /\ srcCols \in SUBSET Columns /\ dstCols \in SUBSET Columns
    /\ pc = "check" /\ force \in BOOLEAN
    /\ known = {} /\ snapshot = Empty /\ staged = Empty /\ locked = FALSE
    /\ writes = 0 /\ sourcePast = {}

-----------------------------------------------------------------------------
(* Replicas left running.                                                  *)

Written(db) ==
    {[db EXCEPT !["keypairs"] = @ \cup {k}] : k \in Kids \ db["keypairs"]}
    \cup {[db EXCEPT !["refresh_tokens"] = @ \cup {[token |-> t, revoked |-> 0]}] :
            t \in {u \in Tokens : ~RevokedInSqlite(db) /\ \A r \in db["refresh_tokens"] : r.token # u}}

RevokedAt(db, at) ==
    [db EXCEPT !["refresh_tokens"] = {[r EXCEPT !.revoked = IF @ = 0 THEN at ELSE @] : r \in @}]

\* A replica on SQLite saves a row or revokes the family.
SourceWrites ==
    /\ writes < MaxWrites
    /\ \E db \in Written(source) \cup {RevokedAt(source, at) : at \in 1..MaxTime} :
         source' = db /\ sourcePast' = sourcePast \cup {db}
    /\ writes' = writes + 1
    /\ UNCHANGED <<target, srcCols, dstCols, pc, force, known, snapshot, staged, locked>>

\* A replica on Postgres saves a row (a token with its family's), unless the import holds the tables.
TargetWrites ==
    /\ writes < MaxWrites /\ ~locked
    /\ \E db \in Written(target) :
         target' = [db EXCEPT ![Derived] = IF db["refresh_tokens"] # {} /\ @ = {} THEN {0} ELSE @]
    /\ writes' = writes + 1
    /\ UNCHANGED <<source, srcCols, dstCols, pc, force, known, snapshot, staged, locked, sourcePast>>

\* Another release's `migrate` adds a column to the target.
TargetMigrates ==
    /\ ~locked
    /\ \E c \in Columns \ dstCols : dstCols' = dstCols \cup {c}
    /\ UNCHANGED <<source, target, srcCols, pc, force, known, snapshot, staged, locked, writes,
                   sourcePast>>

-----------------------------------------------------------------------------
(* The copy.                                                               *)

\* copyState up to Import, and Import's targetColumns: the source exists and is
\* migrated, the target is migrated, its columns are read.
ReadSchema ==
    /\ pc = "check"
    /\ pc' = "lock" /\ known' = dstCols /\ sourcePast' = {source}
    /\ UNCHANGED <<source, target, srcCols, dstCols, force, snapshot, staged, locked, writes>>

\* LOCK TABLE ... IN ACCESS EXCLUSIVE MODE.
LockForImport == locked' = TRUE

Lock ==
    /\ pc = "lock"
    /\ LockForImport /\ pc' = "clear"
    /\ UNCHANGED <<source, target, srcCols, dstCols, force, known, snapshot, staged, writes,
                   sourcePast>>

\* clearForImport: with force every row is deleted, else any row refuses.
Clear ==
    /\ pc = "clear" /\ (Held(target) => force)
    /\ staged' = Empty /\ pc' = "begin"
    /\ UNCHANGED <<source, target, srcCols, dstCols, force, known, snapshot, locked, writes,
                   sourcePast>>

\* DumpTables begins its transaction and lists the tables.
BeginDump ==
    /\ pc = "begin"
    /\ snapshot' = source /\ pc' = "keypairs"
    /\ UNCHANGED <<source, target, srcCols, dstCols, force, known, staged, locked, writes,
                   sourcePast>>

\* Mutant: each table is read outside a transaction.
VisibleNow(t) == source[t]

\* The rows of a table the dump's transaction sees.
Visible(t) == snapshot[t]

\* copyTable: the columns must be the target's, as they were read.
CopyTable(t) ==
    /\ pc = t /\ srcCols = known
    /\ staged' = [staged EXCEPT ![t] = Visible(t)]
    /\ pc' = IF t = "keypairs" THEN "refresh_tokens" ELSE "derive"
    /\ UNCHANGED <<source, target, srcCols, dstCols, force, known, snapshot, locked, writes,
                   sourcePast>>

Earliest(S) == CHOOSE x \in S : \A y \in S : x <= y

\* INSERT INTO refresh_families SELECT family_id, min(revoked_at).
DeriveFamilies(db) ==
    IF db["refresh_tokens"] = {} THEN {}
    ELSE {IF Revocations(db) = {} THEN 0 ELSE Earliest(Revocations(db))}

Derive ==
    /\ pc = "derive"
    /\ staged' = [staged EXCEPT ![Derived] = DeriveFamilies(staged)]
    /\ pc' = "commit"
    /\ UNCHANGED <<source, target, srcCols, dstCols, force, known, snapshot, locked, writes,
                   sourcePast>>

\* Commit: the rows become visible, and replicas are told to reload their keys.
Commit ==
    /\ pc = "commit"
    /\ target' = staged
    /\ locked' = FALSE /\ pc' = "done"
    /\ UNCHANGED <<source, srcCols, dstCols, force, known, snapshot, staged, writes, sourcePast>>

\* A refusal, an error or a crash: inTx rolls back.
Abort ==
    /\ pc \notin {"check", "done", "failed"}
    /\ locked' = FALSE /\ pc' = "failed"
    /\ UNCHANGED <<source, target, srcCols, dstCols, force, known, snapshot, staged, writes,
                   sourcePast>>

Next ==
    \/ SourceWrites \/ TargetWrites \/ TargetMigrates
    \/ ReadSchema \/ Lock \/ Clear \/ BeginDump \/ (\E t \in Tables : CopyTable(t)) \/ Derive \/ Commit
    \/ Abort

Spec == Init /\ [][Next]_vars

-----------------------------------------------------------------------------
\* Every database has its tables, and the copy is at one of its statements.
TypeOK ==
    /\ \A db \in {source, target, snapshot, staged} :
         /\ DOMAIN db = Tables \cup {Derived}
         /\ db["keypairs"] \subseteq Kids /\ db["refresh_tokens"] \subseteq Rows
         /\ db[Derived] \subseteq 0..MaxTime
    /\ pc \in {"check", "lock", "clear", "begin", "derive", "commit", "done", "failed"} \cup Tables
    /\ writes \in 0..MaxWrites /\ locked \in BOOLEAN

CommitStep ==
    pc = "commit" /\ pc' = "done" =>
      /\ \E db \in sourcePast :
           /\ \A t \in Tables : target'[t] = db[t]
           /\ RevokedInPostgres(target') <=> RevokedInSqlite(db)
      /\ srcCols \subseteq dstCols

TargetStep ==
    target' # target => \/ \A t \in DOMAIN target : target[t] \subseteq target'[t]
                        \/ force /\ pc = "commit"

CopyStep == CommitStep /\ TargetStep

\* DumpTables and Import, with writers on both sides: what a copy leaves in the
\* target is the source as it was at one instant, in columns the target has,
\* with a family revoked in Postgres exactly when it was in SQLite; without
\* --force it replaces no row, not even one written while it was under way; and
\* whatever fails leaves the target as it was.
CopiesOneSnapshot == [][CopyStep]_vars

-----------------------------------------------------------------------------
(* The inductive invariant the proofs rest on.                             *)

WellFormed == MaxTime \in Nat /\ MaxWrites \in Nat

\* The copy holds the target from its lock to its end, and so the target keeps
\* what clearForImport saw of it.
HoldsTarget ==
    /\ pc \in {"clear", "begin", "derive", "commit"} \cup Tables => locked
    /\ pc \in {"begin", "derive", "commit"} \cup Tables => (Held(target) => force)

\* What the dump reads is a state of the source since the copy began, and what is
\* staged so far is that state's, in columns the target had and keeps.
StagesSnapshot ==
    /\ pc # "check" => source \in sourcePast /\ known \subseteq dstCols
    /\ pc \in {"derive", "commit"} \cup Tables => snapshot \in sourcePast
    /\ pc \in {"refresh_tokens", "derive", "commit"} =>
         staged["keypairs"] = snapshot["keypairs"] /\ srcCols = known
    /\ pc \in {"derive", "commit"} => staged["refresh_tokens"] = snapshot["refresh_tokens"]
    /\ pc = "commit" => staged[Derived] = DeriveFamilies(snapshot)

IInv == TypeOK /\ HoldsTarget /\ StagesSnapshot
=============================================================================
