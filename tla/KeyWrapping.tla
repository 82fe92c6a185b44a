----------------------------- MODULE KeyWrapping -----------------------------
(***************************************************************************)
(* The key-encryption key (KEK) of the stored signing keys: what           *)
(* `keys encrypt` and `keys generate` write under the KEK they were given, *)
(* or under none, and which servers can still open the table.  The rules   *)
(* about which key signs and is published are module Keyring's.            *)
(***************************************************************************)
EXTENDS Naturals

CONSTANTS
    Kids,          \* numbers: a key created later has the larger one
    Keks,
    NoKek,         \* no KEK configured
    Replicas,
    MaxStarts      \* bound on starts of servers

VARIABLES
    rows,          \* per kid: None, Clear, or the KEK its private key is sealed under
    cmd,           \* the `tempogate keys` command being run
    kek,           \* per server, the KEK it was started with
    loaded,        \* per server, the kids it serves; {} while it is down
    starts

vars == <<rows, cmd, kek, loaded, starts>>

None == "none"
Clear == "clear"

Idle == [pc |-> "idle", kek |-> NoKek, todo |-> {}]

Stored == {k \in Kids : rows[k] # None}
Sealed == {k \in Kids : rows[k] \in Keks}

\* LoadKeypairs returns the rows oldest first.
Oldest(K) == {k \in K : \A j \in K : k <= j}

\* An upgraded deployment: keys an earlier release stored in clear.
Init ==
    /\ \E newest \in Kids : rows = [k \in Kids |-> IF k <= newest THEN Clear ELSE None]
    /\ cmd = Idle /\ starts = 0
    /\ kek = [r \in Replicas |-> NoKek]
    /\ loaded = [r \in Replicas |-> {}]

\* openPEM: a sealed row opens under its own KEK, a clear one under any.
Opens(w, k) == w = Clear \/ w = k

\* openStored: every row opens.
openStored(k) == \A j \in Stored : Opens(rows[j], k)

\* sealForStore.
sealForStore(k) == IF k = NoKek THEN Clear ELSE k

-----------------------------------------------------------------------------
\* serve: Init opens every stored key or refuses to start.
Start(r, k) ==
    /\ starts < MaxStarts
    /\ kek' = [kek EXCEPT ![r] = k] /\ starts' = starts + 1
    /\ loaded' = [loaded EXCEPT ![r] = IF openStored(k) THEN Stored ELSE {}]
    /\ UNCHANGED <<rows, cmd>>

\* Reload: the table, or what was loaded when it does not open.
Reloaded(r) == IF openStored(kek[r]) THEN Stored ELSE loaded[r]

Reload(r) ==
    /\ loaded[r] # {}
    /\ loaded' = [loaded EXCEPT ![r] = Reloaded(r)]
    /\ UNCHANGED <<rows, cmd, kek, starts>>

\* Mutant: the existing keys are not opened first.
GenerateBlind(k) == TRUE

GenerateOpens(k) == openStored(k)

\* keys generate --force, up to the save.
GenerateLoad(k) ==
    /\ cmd = Idle /\ Stored # Kids
    /\ GenerateOpens(k)
    /\ cmd' = [pc |-> "save", kek |-> k, todo |-> {}]
    /\ UNCHANGED <<rows, kek, loaded, starts>>

GenerateSave ==
    /\ cmd.pc = "save"
    /\ \E k \in Oldest(Kids \ Stored) : rows' = [rows EXCEPT ![k] = sealForStore(cmd.kek)]
    /\ cmd' = Idle
    /\ UNCHANGED <<kek, loaded, starts>>

\* keys encrypt: EncryptStored loads the rows; without a KEK it is refused.
EncryptLoad(k) ==
    /\ cmd = Idle /\ k # NoKek
    /\ cmd' = [pc |-> "encrypt", kek |-> k, todo |-> Stored]
    /\ UNCHANGED <<rows, kek, loaded, starts>>

\* Its loop: a clear row is rewritten, a sealed one only checked; the first that
\* does not open ends the command, and so does the end of the list.
EncryptRow ==
    /\ cmd.pc = "encrypt"
    /\ IF \A k \in Oldest(cmd.todo) : ~Opens(rows[k], cmd.kek)
       THEN cmd' = Idle /\ UNCHANGED rows
       ELSE \E k \in Oldest(cmd.todo) :
              /\ cmd' = [cmd EXCEPT !.todo = @ \ {k}]
              /\ rows' = [rows EXCEPT ![k] = cmd.kek]
    /\ UNCHANGED <<kek, loaded, starts>>

\* The command is interrupted.
Interrupt ==
    /\ cmd # Idle
    /\ cmd' = Idle
    /\ UNCHANGED <<rows, kek, loaded, starts>>

Next ==
    \/ \E r \in Replicas : Reload(r) \/ \E k \in Keks \cup {NoKek} : Start(r, k)
    \/ \E k \in Keks \cup {NoKek} : GenerateLoad(k) \/ EncryptLoad(k)
    \/ GenerateSave \/ EncryptRow \/ Interrupt

Spec == Init /\ [][Next]_vars

-----------------------------------------------------------------------------
RotationStep ==
    \A k \in Kids : rows[k] = None /\ rows'[k] # None => \A j \in Sealed : rows'[k] = rows[j]

ReloadStep == \A r \in Replicas : starts' = starts => loaded[r] \subseteq loaded'[r]

ServiceStep == RotationStep /\ ReloadStep

\* Generate: "a rotation without the KEK fails instead of adding a plaintext key
\* beside encrypted ones", and docs/hardening.md: "A running server keeps its
\* loaded keys if a reload cannot open them".  A key added to a table with sealed
\* keys is sealed under the KEK that opens every one of them, and a reload takes
\* no key out of service, whatever commands under whatever KEK did to the table.
KeysStayInService == [][ServiceStep]_vars

\* EncryptStored: "a mismatched key fails here rather than at the next boot":
\* whatever KEK the commands are given, a server can still be started with one.
SomeKekOpensAll == \E k \in Keks \cup {NoKek} : openStored(k)

-----------------------------------------------------------------------------
(* The inductive invariant the proofs rest on.                             *)

\* A row's state is told apart from the absence of one and from every KEK.
WellFormed ==
    /\ Kids \subseteq Nat /\ NoKek \notin Keks
    /\ None \notin Keks \cup {NoKek} /\ Clear \notin Keks \cup {NoKek}

TypeOK ==
    /\ rows \in [Kids -> {None, Clear} \cup Keks]
    /\ cmd \in [pc : {"idle", "save", "encrypt"}, kek : Keks \cup {NoKek}, todo : SUBSET Kids]
    /\ kek \in [Replicas -> Keks \cup {NoKek}] /\ loaded \in [Replicas -> SUBSET Kids]

\* What a command has yet to write it may write, and rows stay.
IInv ==
    /\ TypeOK
    /\ cmd.pc = "save" => openStored(cmd.kek)
    /\ cmd.pc = "encrypt" => cmd.kek # NoKek
    /\ cmd.todo \subseteq Stored
    /\ \A r \in Replicas : loaded[r] \subseteq Stored
=============================================================================
