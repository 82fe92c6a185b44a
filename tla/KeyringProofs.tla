--------------------------- MODULE KeyringProofs ---------------------------
(***************************************************************************)
(* Keyring, for every number of keys, replicas and concurrent retirements, *)
(* every delay and every interleaving: a replica that serves can always    *)
(* sign, replicas that boot together generate one key, a configured        *)
(* deployment's tokens are accepted, and a retired key leaves every JWKS.  *)
(***************************************************************************)
EXTENDS Keyring, WellFoundedInduction, TLAPS

\* Most leaves are first-order and Zenon's; the others do arithmetic.
USE ZenonT(30), SMTT(30)

\* Rows of a snapshot, by what they are.
LEMMA ActiveRow ==
    ASSUME NEW s \in Snapshot, NEW k \in Active(s)
    PROVE  k \in Kids /\ s[k] \in [st : {"active"}, created : Nat]
BY DEF Snapshot, KeyRow, Active

LEMMA EmptySnapshot == Empty \in Snapshot
BY DEF Empty, Snapshot, KeyRow

LEMMA SavedSnapshot ==
    ASSUME NEW s \in Snapshot, NEW k \in Kids, NEW c \in Nat
    PROVE  /\ [s EXCEPT ![k] = [st |-> "active", created |-> c]] \in Snapshot
           /\ k \in Active([s EXCEPT ![k] = [st |-> "active", created |-> c]])
BY DEF Snapshot, KeyRow, Active

\* Phases, by their pc.
LEMMA RingPhases ==
    ASSUME TypeOK, NEW r \in Replicas
    PROVE  /\ ring[r].pc = "boot_load" => ring[r] \in RingBootLoad
           /\ ring[r].pc = "boot_save" => ring[r] \in RingBootSave
           /\ ring[r].pc = "serving" => ring[r] \in RingServing
           /\ ring[r] = Down => ring[r].pc = "down"
BY SMTT(30) DEF TypeOK, Down, RingBootLoad, RingBootSave, RingServing

LEMMA OpPhases ==
    ASSUME TypeOK, NEW o \in Operators
    PROVE  /\ op[o] # Idle => op[o] \in OpBusy
           /\ op[o].pc # "idle" => op[o] # Idle
BY SMTT(30) DEF TypeOK, Idle, OpBusy

\* A nonempty set of naturals has a least element, and a bounded one a greatest.
LEMMA Least ==
    ASSUME NEW T, T \subseteq Nat, T # {}
    PROVE  \E m \in T : \A n \in T : m <= n
<1>1. PICK m \in T : \A n \in T : ~(<<n, m>> \in OpToRel(<, Nat))
  BY WFMin, NatLessThanWellFounded
<1>2. \A n \in T : ~(n < m)
  <2> SUFFICES ASSUME NEW n \in T PROVE ~(n < m)
    OBVIOUS
  <2>1. <<n, m>> \in Nat \X Nat /\ <<n, m>>[1] = n /\ <<n, m>>[2] = m
    BY SMTT(30)
  <2> QED
    BY <1>1, <2>1, ZenonT(30) DEF OpToRel
<1> QED
  BY SMTT(30), <1>2

LEMMA Greatest ==
    ASSUME NEW T, T \subseteq Nat, T # {}, NEW b \in Nat, \A n \in T : n <= b
    PROVE  \E m \in T : \A n \in T : n <= m
<1> DEFINE D == {d \in Nat : b - d \in T}
<1>1. \A n \in T : n \in Nat /\ b - n \in Nat /\ b - (b - n) = n
  BY SMTT(30)
<1>2. \A n \in T : b - n \in D
  BY <1>1
<1>3. D \subseteq Nat /\ D # {}
  BY <1>2, ZenonT(30)
<1>4. PICK d \in D : \A n \in D : d <= n
  BY <1>3, Least, ZenonT(30)
<1>5. \A n \in T : d <= b - n
  BY <1>2, <1>4
<1> WITNESS b - d \in T
<1> QED
  BY <1>5, SMTT(30)

\* The signing rule always finds a key, and it is an active one: the newest
\* mature key and the oldest active key exist.
LEMMA SigningIsActive ==
    ASSUME TypeOK, NEW s \in Snapshot, Active(s) # {}
    PROVE  Signing(s) \in Active(s) /\ (Mature(s) # {} => Signing(s) \in Mature(s))
<1> DEFINE Made(S) == {s[k].created : k \in S}
           At(S, c) == {k \in S : s[k].created = c}
<1>1. \A k \in Active(s) : k \in Nat /\ s[k].created \in Nat
  <2> SUFFICES ASSUME NEW k \in Active(s) PROVE k \in Nat /\ s[k].created \in Nat
    OBVIOUS
  <2>1. k \in Kids /\ s[k] \in [st : {"active"}, created : Nat]
    BY ActiveRow, ZenonT(30)
  <2> QED
    BY <2>1, KidsAssumption, SMTT(30)
<1>2. CASE Mature(s) # {}
  <2>1. Mature(s) \subseteq Active(s) /\ \A k \in Mature(s) : s[k].created <= now
    BY SMTT(30), <1>1, DurationsAssumption DEF Mature, TypeOK
  <2>2. Made(Mature(s)) \subseteq Nat /\ Made(Mature(s)) # {} /\ \A c \in Made(Mature(s)) : c <= now
    BY <1>1, <1>2, <2>1
  <2>3. PICK c \in Made(Mature(s)) : \A n \in Made(Mature(s)) : n <= c
    <3>1. now \in Nat
      BY SMTT(30), DurationsAssumption DEF TypeOK
    <3> QED
      BY <2>2, <3>1, Greatest, ZenonT(30)
  <2>4. PICK b \in Kids : b \in Nat /\ \A k \in Kids : k <= b
    BY KidsAssumption
  <2>5. /\ At(Mature(s), c) \subseteq Nat /\ At(Mature(s), c) # {}
        /\ \A k \in At(Mature(s), c) : k <= b
    BY <1>1, <2>1, <2>3, <2>4, ZenonT(30) DEF Active
  <2>6. PICK k \in At(Mature(s), c) : \A j \in At(Mature(s), c) : j <= k
    BY <2>4, <2>5, Greatest, ZenonT(30)
  <2>7. \A j \in Mature(s) : j = k \/ Older(s, j, k)
    <3> SUFFICES ASSUME NEW j \in Mature(s) PROVE j = k \/ Older(s, j, k)
      OBVIOUS
    <3>1. s[j].created <= c /\ s[k].created = c /\ k \in Mature(s)
      BY <2>3, <2>6
    <3>2. s[j].created = c => j <= k
      BY <2>6
    <3> QED
      BY SMTT(30), <1>1, <2>1, <3>1, <3>2 DEF Older
  <2> QED
    BY <1>2, <2>1, <2>6, <2>7 DEF Signing
<1>3. CASE Mature(s) = {}
  <2>1. Made(Active(s)) \subseteq Nat /\ Made(Active(s)) # {}
    BY <1>1
  <2>2. PICK c \in Made(Active(s)) : \A n \in Made(Active(s)) : c <= n
    BY <2>1, Least, ZenonT(30)
  <2>3. At(Active(s), c) \subseteq Nat /\ At(Active(s), c) # {}
    BY <1>1, <2>2
  <2>4. PICK k \in At(Active(s), c) : \A j \in At(Active(s), c) : k <= j
    BY <2>3, Least, ZenonT(30)
  <2>5. \A j \in Active(s) : j = k \/ Older(s, k, j)
    <3> SUFFICES ASSUME NEW j \in Active(s) PROVE j = k \/ Older(s, k, j)
      OBVIOUS
    <3>1. c <= s[j].created /\ s[k].created = c /\ k \in Active(s)
      BY <2>2, <2>4
    <3>2. s[j].created = c => k <= j
      BY <2>4
    <3> QED
      BY SMTT(30), <1>1, <3>1, <3>2 DEF Older
  <2> QED
    BY <1>3, <2>4, <2>5 DEF Signing
<1> QED
  BY <1>2, <1>3

\* Every variable of the signing keys has its type in every reachable state.
THEOREM TypeCorrect == Spec => []TypeOK
<1> USE DurationsAssumption
<1>1. Init => TypeOK
  BY SMTT(30), EmptySnapshot DEF Init, TypeOK
<1>2. TypeOK /\ [Next]_vars => TypeOK'
  <2> SUFFICES ASSUME TypeOK, [Next]_vars PROVE TypeOK'
    OBVIOUS
  <2> USE DEF TypeOK
  <2>0. now \in Nat
    BY SMTT(30)
  <2>1. ASSUME NEW r \in Replicas, Boot(r) PROVE TypeOK'
    BY <2>0, <2>1 DEF Boot, RingBootLoad
  <2>2. ASSUME NEW r \in Replicas, BootLoad(r) PROVE TypeOK'
    <3>1. Served \in RingServing
      BY <2>0, EmptySnapshot DEF Served, RingServing
    <3>2. \A k \in Kids :
            [pc |-> "boot_save", snap |-> store, kid |-> k, created |-> now, at |-> now]
              \in RingBootSave
      BY <2>0 DEF RingBootSave
    <3>3. CASE Active(store) # {}
      BY <2>2, <3>1, <3>3 DEF BootLoad
    <3>4. CASE Active(store) = {}
      BY ZenonT(60), <2>2, <3>2, <3>4 DEF BootLoad
    <3> QED
      BY <3>3, <3>4
  <2>3. ASSUME NEW r \in Replicas, BootSave(r) PROVE TypeOK'
    <3> DEFINE b == ring[r]  row == [st |-> "active", created |-> b.created]
    <3>1. b \in RingBootSave
      BY <2>3, RingPhases DEF BootSave
    <3>2. [store EXCEPT ![b.kid] = row] \in Snapshot /\ [b.snap EXCEPT ![b.kid] = row] \in Snapshot
      BY <3>1, SavedSnapshot, ZenonT(30) DEF RingBootSave
    <3> QED
      BY <2>0, <2>3, <3>1, <3>2, EmptySnapshot DEF BootSave, Served, RingServing, RingBootSave
  <2>4. ASSUME NEW r \in Replicas, Stop(r) PROVE TypeOK'
    BY SMTT(30), <2>4, EmptySnapshot DEF Stop
  <2>5. ASSUME NEW r \in Replicas, WatchLoad(r) PROVE TypeOK'
    BY <2>0, <2>5 DEF WatchLoad, RingServing
  <2>6. ASSUME NEW r \in Replicas, WatchSwap(r) PROVE TypeOK'
    <3>1. ring[r] \in RingServing
      BY <2>6, RingPhases DEF WatchSwap, Serving
    <3> QED
      BY <2>6, <3>1, EmptySnapshot DEF WatchSwap, Reloaded, RingServing
  <2>7. ASSUME NEW r \in Replicas, WatchFail(r) PROVE TypeOK'
    BY SMTT(30), <2>0, <2>7, EmptySnapshot DEF WatchFail, Served, RingServing
  <2>8. ASSUME Generate PROVE TypeOK'
    BY SMTT(30), <2>0, <2>8 DEF Generate
  <2>9. ASSUME GenerateSave PROVE TypeOK'
    <3>1. gen.kid \in Kids /\ gen.created \in Nat
      BY <2>9 DEF GenerateSave
    <3>2. store' \in Snapshot
      BY <2>9, <3>1, SavedSnapshot, ZenonT(30) DEF GenerateSave
    <3> QED
      BY <2>9, <3>2 DEF GenerateSave
  <2>10. ASSUME GenerateDies PROVE TypeOK'
    BY SMTT(30), <2>10 DEF GenerateDies
  <2>11. ASSUME NEW o \in Operators, NEW via \in Replicas \cup {Cli}, NEW k \in Kids,
                NEW force \in BOOLEAN, RetireBegin(o, via, k, force)
         PROVE  TypeOK'
    BY <2>0, <2>11, EmptySnapshot DEF RetireBegin, OpBusy
  <2>21. ASSUME NEW o \in Operators, NEW via \in Replicas, NEW k \in Kids, ListBegin(o, via, k)
         PROVE  TypeOK'
    BY <2>0, <2>21, EmptySnapshot DEF ListBegin, OpBusy
  <2>12. ASSUME NEW o \in Operators, RetireLoad(o) PROVE TypeOK'
    <3>1. op[o] \in OpBusy
      BY <2>12, OpPhases DEF RetireLoad
    <3> QED
      BY <2>0, <2>12, <3>1 DEF RetireLoad, OpAt, OpBusy
  <2>13. ASSUME NEW o \in Operators, RetireCheck(o) PROVE TypeOK'
    <3>1. op[o] \in OpBusy
      BY <2>13, OpPhases DEF RetireCheck
    <3>2. OpAt("commit", o, FALSE, now, Empty) \in OpBusy
      BY <2>0, <3>1, EmptySnapshot DEF OpAt, OpBusy
    <3>3. cache' \in [Replicas -> Snapshot]
      BY <2>13, <3>1 DEF RetireCheck, Install, OpBusy
    <3> QED
      BY <2>13, <3>2, <3>3, ZenonT(30) DEF RetireCheck
  <2>14. ASSUME NEW o \in Operators, RetireCommit(o) PROVE TypeOK'
    <3>1. op[o] \in OpBusy
      BY <2>14, OpPhases DEF RetireCommit
    <3>2. OpAt("reload", o, FALSE, 0, Empty) \in OpBusy
      BY <2>0, <3>1, EmptySnapshot DEF OpAt, OpBusy
    <3>3. store' \in Snapshot
      BY <2>14, <3>1 DEF RetireCommit, Retirable, Retirement, Snapshot, KeyRow, OpBusy
    <3> QED
      BY <2>14, <3>2, <3>3, ZenonT(30) DEF RetireCommit
  <2>15. ASSUME NEW o \in Operators, RetireSwap(o) PROVE TypeOK'
    <3>1. op[o] \in OpBusy
      BY <2>15, OpPhases DEF RetireSwap
    <3> QED
      BY <2>15, <3>1 DEF RetireSwap, Install, OpBusy
  <2>16. ASSUME NEW o \in Operators, RetireDies(o) PROVE TypeOK'
    BY SMTT(30), <2>16 DEF RetireDies
  <2>17. ASSUME NEW r \in Replicas, Sign(r) PROVE TypeOK'
    <3>1. Signing(cache[r]) \in Kids
      BY <2>17, SigningIsActive DEF Sign, Active
    <3> QED
      BY SMTT(30), <2>0, <2>17, <3>1 DEF Sign
  <2>18. ASSUME NEW p \in Parties, NEW r \in Replicas, FetchJWKS(p, r) PROVE TypeOK'
    BY <2>0, <2>18 DEF FetchJWKS, Published, Active
  <2>19. CASE Tick
    BY SMTT(30), <2>19 DEF Tick
  <2>20. CASE UNCHANGED vars
    BY <2>20 DEF vars
  <2> HIDE DEF TypeOK
  <2> QED
    BY ZenonT(30), <2>1, <2>2, <2>3, <2>4, <2>5, <2>6, <2>7, <2>8, <2>9, <2>10, <2>11, <2>12, <2>13,
       <2>14, <2>15, <2>16, <2>17, <2>18, <2>19, <2>20, <2>21 DEF Next, ReplicaStep, RetireStep
<1> QED
  BY <1>1, <1>2, PTL DEF Spec


-----------------------------------------------------------------------------
(* No step takes the table's last active key.                              *)

\* What a step does to the table: nothing, save a key, or retire one that is
\* not the last.
LEMMA StoreChanges ==
    ASSUME TypeOK, [Next]_vars
    PROVE  \/ store' = store
           \/ \E k \in Kids, c \in Nat : store' = [store EXCEPT ![k] = [st |-> "active", created |-> c]]
           \/ \E k \in Kids, t \in Nat : Retirable(k) /\ store' = [store EXCEPT ![k] = Retirement(k, t)]
<1>1. ASSUME NEW r \in Replicas, BootSave(r)
      PROVE  \E k \in Kids, c \in Nat : store' = [store EXCEPT ![k] = [st |-> "active", created |-> c]]
  BY ZenonT(30), <1>1, RingPhases DEF BootSave, RingBootSave
<1>2. ASSUME GenerateSave
      PROVE  \E k \in Kids, c \in Nat : store' = [store EXCEPT ![k] = [st |-> "active", created |-> c]]
  BY ZenonT(30), <1>2 DEF GenerateSave, TypeOK
<1>3. ASSUME NEW o \in Operators, RetireCommit(o)
      PROVE  \/ store' = store
             \/ \E k \in Kids, t \in Nat :
                  Retirable(k) /\ store' = [store EXCEPT ![k] = Retirement(k, t)]
  <2>1. op[o].kid \in Kids /\ op[o].stamp \in Nat
    BY <1>3, OpPhases DEF RetireCommit, OpBusy
  <2> QED
    BY <1>3, <2>1, ZenonT(30) DEF RetireCommit
<1> QED
  BY <1>1, <1>2, <1>3, ZenonT(30)
     DEF Next, vars, ReplicaStep, RetireStep, Boot, BootLoad, WatchLoad, WatchSwap, WatchFail,
         Stop, Sign, FetchJWKS, Generate, GenerateDies, RetireBegin, ListBegin, RetireLoad, RetireCheck,
         RetireSwap, RetireDies, Tick

\* So rows stay, and an active key is left.
LEMMA StoreStep ==
    ASSUME TypeOK, TableAlive, [Next]_vars
    PROVE  /\ \A k \in Kids : store[k].st # "none" => store'[k].st # "none"
           /\ Active(store) # {} => Active(store') # {}
           /\ TableAlive'
<1>1. CASE store' = store
  BY <1>1 DEF TableAlive, Active
<1>2. ASSUME NEW k \in Kids, NEW c \in Nat, store' = [store EXCEPT ![k] = [st |-> "active", created |-> c]]
      PROVE  /\ \A j \in Kids : store[j].st # "none" => store'[j].st # "none"
             /\ Active(store') # {}
  BY <1>2 DEF TypeOK, Snapshot, Active
<1>3. ASSUME NEW k \in Kids, NEW t \in Nat, Retirable(k), store' = [store EXCEPT ![k] = Retirement(k, t)]
      PROVE  /\ \A j \in Kids : store[j].st # "none" => store'[j].st # "none"
             /\ Active(store') # {}
  <2>1. PICK i \in Kids : i # k /\ store[i].st = "active"
    BY <1>3 DEF Retirable, Active
  <2> QED
    BY <1>3, <2>1 DEF TypeOK, Snapshot, Active, Retirement
<1> QED
  BY <1>1, <1>2, <1>3, StoreChanges, ZenonT(30) DEF TableAlive

\* Whatever a retirement is about to install has an active key.
LEMMA OpsStep ==
    ASSUME TypeOK, TypeOK', TableAlive, OpsAlive, [Next]_vars
    PROVE  OpsAlive'
<1>0. \A k \in Kids : store[k].st # "none" => store'[k].st # "none"
  BY StoreStep
<1> SUFFICES ASSUME NEW o \in Operators, op'[o] # Idle
             PROVE  /\ store'[op'[o].kid].st # "none"
                    /\ op'[o].pc \in {"check", "swap"} => Active(op'[o].snap) # {}
  BY DEF OpsAlive
<1>1. CASE op'[o] = op[o]
  BY SMTT(30), <1>0, <1>1, OpPhases DEF OpsAlive, OpBusy
<1>2. ASSUME NEW i \in Operators, NEW via \in Replicas \cup {Cli}, NEW k \in Kids,
             NEW force \in BOOLEAN, RetireBegin(i, via, k, force), op'[o] # op[o]
      PROVE  op'[o].kid = k /\ store[k].st # "none" /\ op'[o].pc \notin {"check", "swap"}
  BY <1>2 DEF RetireBegin, TypeOK
<1>9. ASSUME NEW i \in Operators, NEW via \in Replicas, NEW k \in Kids, ListBegin(i, via, k),
             op'[o] # op[o]
      PROVE  op'[o].kid = k /\ store[k].st # "none" /\ op'[o].pc \notin {"check", "swap"}
  BY <1>9 DEF ListBegin, TypeOK
<1>3. ASSUME NEW i \in Operators, RetireLoad(i), op'[o] # op[o]
      PROVE  op'[o].kid = op[o].kid /\ op'[o].snap = store /\ op[o] # Idle
  BY <1>3, OpPhases DEF RetireLoad, OpAt, TypeOK
<1>4. ASSUME NEW i \in Operators, RetireCheck(i) \/ RetireCommit(i), op'[o] # op[o]
      PROVE  op'[o].kid = op[o].kid /\ op'[o].pc \notin {"check", "swap"} /\ op[o] # Idle
  BY SMTT(30), <1>4, OpPhases DEF RetireCheck, RetireCommit, OpAt, TypeOK
<1>5. ASSUME NEW i \in Operators, RetireSwap(i) \/ RetireDies(i) PROVE op'[o] = op[o]
  BY <1>5 DEF RetireSwap, RetireDies, TypeOK
<1>6. ASSUME NEW r \in Replicas, Stop(r) PROVE op'[o] = op[o]
  BY <1>6 DEF Stop
<1>7. CASE op'[o] # op[o] /\ op[o] # Idle /\ op'[o].kid = op[o].kid
           /\ (op'[o].pc \in {"check", "swap"} => op'[o].snap = store)
  BY <1>0, <1>7, OpPhases DEF OpsAlive, OpBusy, TableAlive
<1>8. CASE op' = op
  BY <1>1, <1>8
<1> QED
  BY <1>0, <1>1, <1>2, <1>3, <1>4, <1>5, <1>6, <1>7, <1>8, <1>9, ZenonT(30)
     DEF Next, vars, ReplicaStep, RetireStep, Boot, BootLoad, BootSave, WatchLoad, WatchSwap,
         WatchFail, Sign, FetchJWKS, Generate, GenerateSave, GenerateDies, Tick

-----------------------------------------------------------------------------
(* Rings: what a replica serves with, and what its Watch is loading.       *)

\* A ring changes only by its own replica's steps.
LEMMA RingsStep ==
    ASSUME TypeOK, TypeOK', TableAlive, RingsAlive, [Next]_vars
    PROVE  RingsAlive'
<1>0. Active(store) # {} => Active(store') # {}
  BY StoreStep
<1> SUFFICES ASSUME NEW r \in Replicas, ring'[r].pc = "serving"
             PROVE  Active(store') # {} /\ (ring'[r].loading => Active(ring'[r].snap) # {})
  BY ZenonT(30) DEF RingsAlive, Serving
<1>1. CASE ring'[r] = ring[r]
  BY <1>0, <1>1 DEF RingsAlive, Serving
<1>2. ASSUME NEW q \in Replicas, Boot(q) \/ Stop(q) PROVE ring'[r] = ring[r]
  BY SMTT(30), <1>2 DEF Boot, Stop, Down, TypeOK
<1>3. ASSUME NEW q \in Replicas, BootLoad(q), ring'[r] # ring[r]
      PROVE  Active(store) # {} /\ ~ring'[r].loading
  BY SMTT(30), <1>3 DEF BootLoad, Served, TypeOK
<1>4. ASSUME NEW q \in Replicas, BootSave(q), ring'[r] # ring[r]
      PROVE  Active(store') # {} /\ ~ring'[r].loading
  <2>1. ring[q] \in RingBootSave
    BY <1>4, RingPhases DEF BootSave
  <2>2. store' = [store EXCEPT ![ring[q].kid] = [st |-> "active", created |-> ring[q].created]]
    BY <1>4, ZenonT(30) DEF BootSave
  <2>3. Active(store') # {}
    BY ZenonT(30), <2>1, <2>2, SavedSnapshot DEF RingBootSave, TypeOK
  <2> QED
    BY ZenonT(30), <1>4, <2>3 DEF BootSave, Served, TypeOK
<1>5. ASSUME NEW q \in Replicas, WatchLoad(q), ring'[r] # ring[r]
      PROVE  Serving(r) /\ ring'[r].snap = store
  BY <1>5 DEF WatchLoad, TypeOK, Serving
<1>6. ASSUME NEW q \in Replicas, WatchSwap(q) \/ WatchFail(q), ring'[r] # ring[r]
      PROVE  Serving(r) /\ ~ring'[r].loading
  BY SMTT(30), <1>6 DEF WatchSwap, WatchFail, Served, TypeOK, Serving
<1>7. CASE ring' = ring
  BY <1>1, <1>7
<1>8. CASE Serving(r) /\ ring'[r].snap = store
  BY <1>0, <1>8 DEF RingsAlive
<1>9. CASE Serving(r) /\ ~ring'[r].loading
  BY <1>0, <1>9 DEF RingsAlive
<1> QED
  BY <1>0, <1>1, <1>2, <1>3, <1>4, <1>5, <1>6, <1>7, <1>8, <1>9, ZenonT(30)
     DEF Next, vars, ReplicaStep, RetireStep, RetireBegin, ListBegin, RetireLoad, RetireCheck, RetireCommit,
         RetireSwap, RetireDies, Sign, FetchJWKS, Generate, GenerateSave, GenerateDies, Tick

\* A snapshot that is installed has an active key.
LEMMA ServingStep ==
    ASSUME TypeOK, TypeOK', OpsAlive, RingsAlive, ServingCanSign, [Next]_vars
    PROVE  ServingCanSign'
<1> SUFFICES ASSUME NEW r \in Replicas, ring'[r].pc = "serving"
             PROVE  Active(cache'[r]) # {}
  BY ZenonT(30) DEF ServingCanSign, Serving
<1>1. CASE cache'[r] = cache[r] /\ ring[r].pc = "serving"
  BY <1>1, ZenonT(30) DEF ServingCanSign, Serving
<1>2. ASSUME NEW q \in Replicas, Boot(q) PROVE cache'[r] = cache[r] /\ ring[r].pc = "serving"
  BY <1>2 DEF Boot, TypeOK
<1>3. ASSUME NEW q \in Replicas, Stop(q) PROVE cache'[r] = cache[r] /\ ring[r].pc = "serving"
  BY <1>3 DEF Stop, Down, TypeOK
<1>4. ASSUME NEW q \in Replicas, BootLoad(q)
      PROVE  \/ cache'[r] = cache[r] /\ ring[r].pc = "serving"
             \/ cache'[r] = store /\ Active(store) # {}
  BY SMTT(30), <1>4 DEF BootLoad, TypeOK
<1>5. ASSUME NEW q \in Replicas, BootSave(q)
      PROVE  \/ cache'[r] = cache[r] /\ ring[r].pc = "serving"
             \/ Active(cache'[r]) # {}
  <2> DEFINE b == ring[q]
  <2>1. b \in RingBootSave
    BY <1>5, RingPhases DEF BootSave
  <2>2. cache' = [cache EXCEPT ![q] = [b.snap EXCEPT ![b.kid] = [st |-> "active", created |-> b.created]]]
    BY <1>5, ZenonT(30) DEF BootSave
  <2>3. Active(cache'[q]) # {}
    BY ZenonT(30), <2>1, <2>2, SavedSnapshot DEF RingBootSave, TypeOK
  <2> QED
    BY ZenonT(30), <1>5, <2>2, <2>3 DEF BootSave, TypeOK
<1>6. ASSUME NEW q \in Replicas, WatchSwap(q)
      PROVE  \/ cache'[r] = cache[r] /\ ring[r].pc = "serving"
             \/ Active(cache'[r]) # {}
  BY ZenonT(30), <1>6 DEF WatchSwap, Reloaded, RingsAlive, Serving, TypeOK
<1>7. ASSUME NEW q \in Replicas, WatchLoad(q) \/ WatchFail(q)
      PROVE  cache'[r] = cache[r] /\ ring[r].pc = "serving"
  BY <1>7 DEF WatchLoad, WatchFail, Serving, TypeOK
<1>8. ASSUME NEW o \in Operators, RetireCheck(o) \/ RetireSwap(o)
      PROVE  \/ cache'[r] = cache[r] /\ ring[r].pc = "serving"
             \/ Active(cache'[r]) # {}
  <2>1. op[o] # Idle /\ op[o] \in OpBusy /\ Active(op[o].snap) # {}
    BY ZenonT(30), <1>8, OpPhases DEF RetireCheck, RetireSwap, OpsAlive
  <2> QED
    BY ZenonT(30), <1>8, <2>1 DEF RetireCheck, RetireSwap, Install, OpBusy, TypeOK
<1>9. CASE cache' = cache /\ ring' = ring
  BY <1>1, <1>9
<1> QED
  BY <1>1, <1>2, <1>3, <1>4, <1>5, <1>6, <1>7, <1>8, <1>9, ZenonT(30)
     DEF Next, vars, ReplicaStep, RetireStep, RetireBegin, ListBegin, RetireLoad, RetireCommit,
         RetireDies, Sign, FetchJWKS, Generate, GenerateSave, GenerateDies, Tick

-----------------------------------------------------------------------------
(* First boot.                                                             *)

\* The lock keeps replicas apart in Init, and who holds it with a key to save
\* is the first to have one.
LEMMA BootStep ==
    ASSUME TypeOK, TypeOK', TableAlive, BootsApart, OneBootstrapKey, [Next]_vars
    PROVE  BootsApart' /\ OneBootstrapKey'
<1> DEFINE Booting(x) == x.pc \in {"boot_load", "boot_save"}
<1>0. Active(store) # {} => Active(store') # {}
  BY StoreStep
<1>1. ASSUME ring' = ring, bootKeys' = bootKeys PROVE BootsApart' /\ OneBootstrapKey'
  BY <1>0, <1>1 DEF BootsApart, OneBootstrapKey
<1>2. ASSUME NEW q \in Replicas, Boot(q) PROVE BootsApart' /\ OneBootstrapKey'
  <2>1. \A r \in Replicas : r # q => ring'[r] = ring[r] /\ ~Booting(ring'[r])
    BY <1>2 DEF Boot, BootLockFree, TypeOK
  <2>2. ring'[q].pc = "boot_load" /\ bootKeys' = bootKeys
    BY <1>2 DEF Boot, TypeOK
  <2> QED
    BY <1>0, <2>1, <2>2 DEF BootsApart, OneBootstrapKey
<1>3. ASSUME NEW q \in Replicas, BootLoad(q) PROVE BootsApart' /\ OneBootstrapKey'
  <2>1. \A r \in Replicas : r # q => ring'[r] = ring[r] /\ ~Booting(ring'[r])
    BY SMTT(30), <1>3 DEF BootLoad, BootsApart, TypeOK
  <2>2. bootKeys' = bootKeys /\ (ring'[q].pc = "boot_save" => bootKeys = {})
    BY SMTT(30), <1>3 DEF BootLoad, BootsApart, Served, TypeOK
  <2> QED
    BY <1>0, <2>1, <2>2 DEF BootsApart, OneBootstrapKey
<1>4. ASSUME NEW q \in Replicas, BootSave(q) PROVE BootsApart' /\ OneBootstrapKey'
  <2>1. \A r \in Replicas : ~Booting(ring'[r])
    BY <1>4 DEF BootSave, BootsApart, Served, TypeOK
  <2>2. ring[q] \in RingBootSave /\ bootKeys = {} /\ bootKeys' = {ring[q].kid}
    BY <1>4, RingPhases DEF BootSave, BootsApart
  <2>3. store' = [store EXCEPT ![ring[q].kid] = [st |-> "active", created |-> ring[q].created]]
    BY <1>4, ZenonT(30) DEF BootSave
  <2>4. Active(store') # {}
    BY ZenonT(30), <2>2, <2>3, SavedSnapshot DEF RingBootSave, TypeOK
  <2> QED
    BY <2>1, <2>2, <2>4 DEF BootsApart, OneBootstrapKey
<1>5. ASSUME NEW q \in Replicas, Stop(q) \/ WatchLoad(q) \/ WatchSwap(q) \/ WatchFail(q)
      PROVE BootsApart' /\ OneBootstrapKey'
  <2>1. \A r \in Replicas : ring'[r] = ring[r] \/ ~Booting(ring'[r])
    BY SMTT(30), <1>5 DEF Stop, Down, WatchLoad, WatchSwap, WatchFail, Served, TypeOK
  <2>2. bootKeys' = bootKeys
    BY <1>5 DEF Stop, WatchLoad, WatchSwap, WatchFail
  <2> QED
    BY <1>0, <2>1, <2>2 DEF BootsApart, OneBootstrapKey
<1> QED
  BY <1>1, <1>2, <1>3, <1>4, <1>5, ZenonT(30)
     DEF Next, vars, ReplicaStep, RetireStep, RetireBegin, ListBegin, RetireLoad, RetireCheck, RetireCommit,
         RetireSwap, RetireDies, Sign, FetchJWKS, Generate, GenerateSave, GenerateDies, Tick

-----------------------------------------------------------------------------
(* The theorems.                                                           *)

\* The inductive invariant holds of every reachable state.
THEOREM Invariance == Spec => []IInv
<1> DEFINE I == TableAlive /\ OpsAlive /\ RingsAlive /\ ServingCanSign /\ BootsApart /\ OneBootstrapKey
<1>1. Init => I
  BY SMTT(30) DEF Init, TableAlive, OpsAlive, RingsAlive, ServingCanSign, BootsApart, OneBootstrapKey,
         Serving, Empty, Down
<1>2. TypeOK /\ TypeOK' /\ I /\ [Next]_vars => I'
  BY StoreStep, OpsStep, RingsStep, ServingStep, BootStep, ZenonT(30)
<1>3. IInv <=> TypeOK /\ I
  BY DEF IInv
<1> HIDE DEF I
<1> QED
  BY <1>1, <1>2, <1>3, TypeCorrect, PTL DEF Spec

\* A replica that serves always has an active key to sign with, whatever
\* retirements, reloads, boots and crashes interleave.
THEOREM ServingReplicaSigns == Spec => []ServingCanSign
<1>1. IInv => ServingCanSign
  BY DEF IInv
<1> QED
  BY <1>1, Invariance, PTL

\* However many replicas boot at once on an empty table, crash half way and
\* boot again, Init generates one key.
THEOREM BootGeneratesOneKey == Spec => []OneBootstrapKey
<1>1. IInv => OneBootstrapKey
  BY DEF IInv
<1> QED
  BY <1>1, Invariance, PTL

-----------------------------------------------------------------------------
(* Keyring's deadlines: how long a key saved or retired takes to show in   *)
(* every ring, so that a configured deployment's tokens are accepted       *)
(* everywhere and a retired key leaves every JWKS.                         *)

-----------------------------------------------------------------------------
(* Rows, durations and what a snapshot misses.                             *)

LEMMA RowTyped ==
    ASSUME NEW s \in Snapshot, NEW k \in Kids
    PROVE  /\ s[k].st \in {"none", "active", "retired"}
           /\ s[k].st # "none" => s[k].created \in Nat
           /\ s[k].st = "retired" => s[k].at \in Nat
BY DEF Snapshot, KeyRow

\* What failed reloads add to the time a change takes.
LEMMA Delays ==
    ASSUME NEW f \in 0..MaxFailures
    PROVE  /\ f * Reload \in Nat /\ (1 + f) * Reload = f * Reload + Reload
           /\ (f + 1) * Reload = f * Reload + Reload
           /\ (1 + f) * Reload <= (1 + MaxFailures) * Reload
           /\ (1 + MaxFailures) * Reload \in Nat
           /\ Propagation = 3 * Latency + (1 + MaxFailures) * Reload
<1>1. f \in Nat /\ MaxFailures - f \in Nat /\ Reload \in Nat /\ MaxFailures \in Nat
  BY SMTT(30), DurationsAssumption
<1>2. (MaxFailures - f) * Reload \in Nat
  BY SMTT(30), <1>1
<1>3. (1 + MaxFailures) * Reload = (1 + f) * Reload + (MaxFailures - f) * Reload
  BY SMTT(30), <1>1
<1>4. f * Reload \in Nat /\ (1 + f) * Reload = f * Reload + Reload
      /\ (f + 1) * Reload = f * Reload + Reload
  BY SMTT(30), <1>1
<1>5. (1 + MaxFailures) * Reload \in Nat
  BY SMTT(30), <1>1
<1> QED
  BY SMTT(30), <1>1, <1>2, <1>3, <1>4, <1>5 DEF Propagation

\* Table u is table t after what may have been committed at n: rows are added
\* and retired, within a Latency of their stamps.
Grown(t, u, n) ==
    \A k \in Kids :
      /\ t[k].st # "none" => u[k].st # "none" /\ u[k].created = t[k].created
      /\ t[k].st = "retired" => u[k] = t[k]
      /\ u[k].st = "retired" /\ t[k].st # "retired" =>
           t[k].st = "active" /\ u[k].at <= n /\ n <= u[k].at + Latency
      /\ u[k].st # "none" /\ t[k].st = "none" => u[k].st = "active" /\ n <= u[k].created + Latency

LEMMA ShowsLater ==
    ASSUME NEW t \in Snapshot, NEW u \in Snapshot, NEW s \in Snapshot, NEW n \in Nat,
           Grown(t, u, n), NEW k \in Kids, Shows(t, s, k)
    PROVE  Shows(u, s, k)
BY RowTyped DEF Grown, Shows

LEMMA UnseenTyped ==
    ASSUME NEW t \in Snapshot, NEW s \in Snapshot, NEW k \in Kids, NEW c \in Unseen(t, s, k)
    PROVE  c \in Nat
BY RowTyped DEF Unseen

LEMMA UnseenLater ==
    ASSUME NEW t \in Snapshot, NEW u \in Snapshot, NEW s \in Snapshot, NEW n \in Nat,
           Grown(t, u, n), NEW k \in Kids, NEW c \in Unseen(u, s, k)
    PROVE  c \in Nat /\ (c \in Unseen(t, s, k) \/ n <= c + Latency)
<1>1. c \in Nat
  BY UnseenTyped
<1>2. t[k].st \in {"none", "active", "retired"} /\ u[k].st \in {"none", "active", "retired"}
  BY RowTyped
<1>3. CASE s[k].st = "none" /\ u[k].st # "none" /\ c = u[k].created
  <2>1. CASE t[k].st = "none"
    BY <1>1, <1>3, <2>1 DEF Grown
  <2>2. CASE t[k].st # "none"
    <3>1. c = t[k].created
      BY <1>3, <2>2 DEF Grown
    <3> QED
      BY <1>1, <1>3, <2>2, <3>1 DEF Unseen
  <2> QED
    BY <2>1, <2>2
<1>4. CASE s[k].st # "retired" /\ u[k].st = "retired" /\ c = u[k].at
  <2>1. CASE t[k].st # "retired"
    BY <1>1, <1>4, <2>1 DEF Grown
  <2>2. CASE t[k].st = "retired"
    <3>1. c = t[k].at
      BY <1>4, <2>2 DEF Grown
    <3> QED
      BY <1>1, <1>4, <2>2, <3>1 DEF Unseen
  <2> QED
    BY <2>1, <2>2
<1> QED
  BY <1>1, <1>3, <1>4 DEF Unseen

LEMMA ReadAtLater ==
    ASSUME NEW t \in Snapshot, NEW u \in Snapshot, NEW s \in Snapshot, NEW n \in Nat,
           Grown(t, u, n), NEW c \in Nat, c <= n, ReadAt(t, s, c)
    PROVE  ReadAt(u, s, c)
<1> SUFFICES ASSUME NEW k \in Kids
             PROVE  Shows(u, s, k) /\ \A e \in Unseen(u, s, k) : c <= e + Latency
  BY DEF ReadAt
<1>1. Shows(u, s, k)
  BY ShowsLater DEF ReadAt
<1>2. ASSUME NEW e \in Unseen(u, s, k) PROVE c <= e + Latency
  <2>1. e \in Nat /\ (e \in Unseen(t, s, k) \/ n <= e + Latency)
    BY UnseenLater
  <2> QED
    BY SMTT(30), <2>1, DurationsAssumption DEF ReadAt
<1> QED
  BY <1>1, <1>2

\* A snapshot just read shows everything.
LEMMA ReadNow ==
    ASSUME NEW s \in Snapshot, NEW c
    PROVE  ReadAt(s, s, c) /\ \A k \in Kids : Shows(s, s, k) /\ Unseen(s, s, k) = {}
BY DEF ReadAt, Shows, Unseen

LEMMA ShowsEmpty ==
    ASSUME NEW t \in Snapshot, NEW k \in Kids
    PROVE  Shows(t, Empty, k)
BY DEF Shows, Empty

-----------------------------------------------------------------------------
(* The table.                                                              *)

LEMMA TableGrows ==
    ASSUME TypeOK, TypeOK', Reserved, Deadlines, [Next]_vars
    PROVE  /\ Grown(store, store', now) /\ now \in Nat /\ now' \in Nat /\ now <= now'
           /\ store' = store \/ now' = now
           /\ now' = now \/ Tick
<1>0. store \in Snapshot /\ store' \in Snapshot /\ now \in Nat /\ now' \in Nat
  BY SMTT(30), DurationsAssumption DEF TypeOK
<1>1. ASSUME NEW k \in Kids, NEW c \in Nat, store[k].st = "none", now <= c + Latency,
             store' = [store EXCEPT ![k] = [st |-> "active", created |-> c]]
      PROVE  Grown(store, store', now)
  <2>1. /\ store'[k] = [st |-> "active", created |-> c]
        /\ \A j \in Kids \ {k} : store'[j] = store[j]
    BY <1>0, <1>1 DEF Snapshot
  <2> QED
    BY SMTT(30), <1>1, <2>1 DEF Grown
<1>2. ASSUME NEW k \in Kids, NEW c \in Nat, store[k].st = "active", c <= now, now <= c + Latency,
             store' = [store EXCEPT ![k] = Retirement(k, c)]
      PROVE  Grown(store, store', now)
  <2>1. /\ store'[k] = [st |-> "retired", created |-> store[k].created, at |-> c]
        /\ \A j \in Kids \ {k} : store'[j] = store[j]
    BY <1>0, <1>2 DEF Snapshot, Retirement
  <2> QED
    BY SMTT(30), <1>2, <2>1 DEF Grown
<1>3. ASSUME store' = store PROVE Grown(store, store', now)
  BY <1>3 DEF Grown
<1>4. ASSUME NEW r \in Replicas, BootSave(r) PROVE Grown(store, store', now)
  <2>1. ring[r] \in RingBootSave
    BY <1>4, RingPhases DEF BootSave
  <2>2. /\ ring[r].kid \in Kids /\ ring[r].created \in Nat /\ now <= ring[r].created + Latency
        /\ store[ring[r].kid].st = "none"
    BY <1>4, <2>1 DEF BootSave, RingBootSave, Deadlines, Reserved
  <2>3. store' = [store EXCEPT ![ring[r].kid] = [st |-> "active", created |-> ring[r].created]]
    BY <1>4, ZenonT(30) DEF BootSave
  <2> QED
    BY <1>1, <2>2, <2>3
<1>5. ASSUME GenerateSave PROVE Grown(store, store', now)
  <2>1. /\ gen.kid \in Kids /\ gen.created \in Nat /\ now <= gen.created + Latency
        /\ store[gen.kid].st = "none"
    BY <1>5 DEF GenerateSave, TypeOK, Deadlines, Reserved
  <2> QED
    BY <1>1, <1>5, <2>1 DEF GenerateSave
<1>6. ASSUME NEW o \in Operators, RetireCommit(o) PROVE Grown(store, store', now)
  <2>1. op[o] # Idle /\ op[o] \in OpBusy /\ op[o].pc = "commit"
    BY <1>6, OpPhases DEF RetireCommit
  <2>2. /\ op[o].kid \in Kids /\ op[o].stamp \in Nat /\ op[o].stamp <= now
        /\ now <= op[o].stamp + Latency
    BY <2>1 DEF OpBusy, Deadlines
  <2>3. store' = store \/ (store[op[o].kid].st = "active"
                           /\ store' = [store EXCEPT ![op[o].kid] = Retirement(op[o].kid, op[o].stamp)])
    BY <1>6 DEF RetireCommit, Retirable
  <2> QED
    BY <1>2, <1>3, <2>2, <2>3
<1>7. Grown(store, store', now)
  BY <1>3, <1>4, <1>5, <1>6, ZenonT(30)
     DEF Next, vars, ReplicaStep, RetireStep, Boot, BootLoad, WatchLoad, WatchSwap, WatchFail,
         Stop, Sign, FetchJWKS, Generate, GenerateDies, RetireBegin, ListBegin, RetireLoad, RetireCheck,
         RetireSwap, RetireDies, Tick
<1>8. now' = now \/ Tick
  BY ZenonT(30)
     DEF Next, vars, ReplicaStep, RetireStep, Boot, BootLoad, BootSave, WatchLoad, WatchSwap,
         WatchFail, Stop, Sign, FetchJWKS, Generate, GenerateSave, GenerateDies, RetireBegin,
         ListBegin, RetireLoad, RetireCheck, RetireCommit, RetireSwap, RetireDies
<1> QED
  BY SMTT(30), <1>0, <1>7, <1>8 DEF Tick

\* A generated key stays its generator's until it is saved.
LEMMA ReservedStep ==
    ASSUME TypeOK, TypeOK', BootsApart, Reserved, Deadlines, [Next]_vars
    PROVE  Reserved'
<1>1. ASSUME store' = store, gen' = gen \/ gen' = Idle,
             \A r \in Replicas : ring'[r].pc = "boot_save" => ring'[r] = ring[r]
      PROVE  Reserved'
  BY <1>1 DEF Reserved
<1>2. ASSUME NEW q \in Replicas, Boot(q) \/ Stop(q) \/ WatchLoad(q) \/ WatchSwap(q) \/ WatchFail(q)
      PROVE  Reserved'
  <2>1. store' = store /\ gen' = gen
    BY <1>2 DEF Boot, Stop, WatchLoad, WatchSwap, WatchFail
  <2>2. \A r \in Replicas : ring'[r].pc = "boot_save" => ring'[r] = ring[r]
    BY SMTT(30), <1>2 DEF Boot, Stop, WatchLoad, WatchSwap, WatchFail, Served, Down, TypeOK
  <2> QED
    BY <1>1, <2>1, <2>2
<1>3. ASSUME NEW q \in Replicas, BootLoad(q) PROVE Reserved'
  <2>1. store' = store /\ gen' = gen
    BY <1>3 DEF BootLoad
  <2>2. CASE Active(store) # {}
    <3>1. \A r \in Replicas : ring'[r].pc = "boot_save" => ring'[r] = ring[r]
      BY SMTT(30), <1>3, <2>2 DEF BootLoad, Served, TypeOK
    <3> QED
      BY <1>1, <2>1, <3>1
  <2>3. CASE Active(store) = {}
    <3>1. PICK k \in Kids :
            /\ Fresh(k)
            /\ ring' = [ring EXCEPT ![q] = [pc |-> "boot_save", snap |-> store, kid |-> k,
                                            created |-> now, at |-> now]]
      BY <1>3, <2>3 DEF BootLoad
    <3>2. ring'[q].kid = k /\ \A r \in Replicas \ {q} : ring'[r] = ring[r]
      BY <3>1 DEF TypeOK
    <3> QED
      BY ZenonT(60), <2>1, <3>1, <3>2 DEF Reserved, Fresh
  <2> QED
    BY <2>2, <2>3
<1>4. ASSUME NEW q \in Replicas, BootSave(q) PROVE Reserved'
  <2>1. ring[q] \in RingBootSave /\ gen' = gen
    BY <1>4, RingPhases DEF BootSave
  <2>2. \A r \in Replicas : ring'[r].pc # "boot_save"
    BY <1>4 DEF BootSave, BootsApart, Served, TypeOK
  <2>3. store' = [store EXCEPT ![ring[q].kid] = [st |-> "active", created |-> ring[q].created]]
    BY <1>4, ZenonT(30) DEF BootSave
  <2>4. gen # Idle => gen.kid \in Kids /\ gen.kid # ring[q].kid /\ store[gen.kid].st = "none"
    BY <1>4 DEF BootSave, Reserved, TypeOK
  <2> QED
    BY <2>1, <2>2, <2>3, <2>4 DEF Reserved, TypeOK, Snapshot
<1>5. ASSUME Generate PROVE Reserved'
  <2>1. PICK k \in Kids : Fresh(k) /\ gen' = [pc |-> "save", kid |-> k, created |-> now]
    BY <1>5 DEF Generate
  <2>2. store' = store /\ ring' = ring /\ gen'.kid = k
    BY <1>5, <2>1 DEF Generate
  <2> QED
    BY <2>1, <2>2 DEF Reserved, Fresh
<1>6. ASSUME GenerateSave PROVE Reserved'
  <2>1. ring' = ring /\ gen' = Idle /\ gen.kid \in Kids
    BY <1>6 DEF GenerateSave, TypeOK
  <2>2. \A r \in Replicas : ring[r].pc = "boot_save" => store'[ring[r].kid] = store[ring[r].kid]
    <3> SUFFICES ASSUME NEW r \in Replicas, ring[r].pc = "boot_save"
                 PROVE  store'[ring[r].kid] = store[ring[r].kid]
      OBVIOUS
    <3>1. ring[r].kid \in Kids /\ ring[r].kid # gen.kid
      BY <1>6, RingPhases DEF GenerateSave, Reserved, RingBootSave
    <3> QED
      BY <1>6, <3>1 DEF GenerateSave, TypeOK, Snapshot
  <2> QED
    BY <2>1, <2>2 DEF Reserved
<1>7. ASSUME NEW o \in Operators, RetireCommit(o) PROVE Reserved'
  <2>1. ring' = ring /\ gen' = gen
    BY <1>7 DEF RetireCommit
  <2>2. \A k \in Kids : store[k].st = "none" => store'[k].st = "none"
    <3>1. op[o].kid \in Kids
      BY <1>7, OpPhases DEF RetireCommit, OpBusy
    <3> QED
      BY <1>7, <3>1 DEF RetireCommit, Retirable, Retirement, TypeOK, Snapshot
  <2>3. gen # Idle => gen.kid \in Kids
    BY DEF TypeOK
  <2>4. \A r \in Replicas : ring[r].pc = "boot_save" => ring[r].kid \in Kids
    BY RingPhases DEF RingBootSave
  <2> QED
    BY <2>1, <2>2, <2>3, <2>4 DEF Reserved
<1>8. ASSUME store' = store, gen' = gen \/ gen' = Idle, ring' = ring PROVE Reserved'
  BY <1>1, <1>8
<1> QED
  BY <1>2, <1>3, <1>4, <1>5, <1>6, <1>7, <1>8, ZenonT(30)
     DEF Next, vars, ReplicaStep, RetireStep, RetireBegin, ListBegin, RetireLoad, RetireCheck,
         RetireSwap, RetireDies, Sign, FetchJWKS, GenerateDies, Tick

-----------------------------------------------------------------------------
(* Deadlines.                                                              *)

\* What Deadlines says of one replica and of one operator at time n.
RingDue(g, n) ==
    /\ g.pc \in {"boot_load", "boot_save"} => g.at <= n /\ n <= g.at + Latency
    /\ g.pc = "boot_save" => g.created = g.at
    /\ g.pc = "serving" =>
         g.polled <= n /\ (g.loading => n <= g.polled + Latency)

OpDue(x, n) ==
    x # Idle =>
      /\ x.at <= n /\ n <= x.at + Latency
      /\ x.pc = "commit" => x.stamp = x.at

\* A change of one replica at an instant.
LEMMA RingDeadlines ==
    ASSUME TypeOK, Deadlines, [Next]_vars, now' = now, NEW r \in Replicas
    PROVE  RingDue(ring'[r], now)
<1>0. now \in Nat /\ now <= now /\ now <= now + Latency /\ now <= now + Reload
  BY SMTT(30), DurationsAssumption DEF TypeOK
<1>1. CASE ring'[r] = ring[r]
  BY <1>1 DEF Deadlines, RingDue, Serving
<1>2. ASSUME NEW q \in Replicas, Boot(q) \/ Stop(q), ring'[r] # ring[r]
      PROVE  RingDue(ring'[r], now)
  BY SMTT(30), <1>0, <1>2 DEF Boot, Stop, Down, TypeOK, RingDue
<1>3. RingDue(Served, now) /\ RingDue(Down, now)
  BY <1>0 DEF Served, RingDue, Down
<1>4. ASSUME NEW k \in Kids
      PROVE  RingDue([pc |-> "boot_save", snap |-> store, kid |-> k, created |-> now, at |-> now], now)
  BY <1>0 DEF RingDue
<1>5. ASSUME NEW q \in Replicas, BootLoad(q), ring'[r] # ring[r] PROVE RingDue(ring'[r], now)
  <2>1. \/ ring'[r] = Served
        \/ \E k \in Kids : ring'[r] = [pc |-> "boot_save", snap |-> store, kid |-> k,
                                       created |-> now, at |-> now]
    BY <1>5 DEF BootLoad, TypeOK
  <2> QED
    BY <1>3, <1>4, <2>1
<1>6. ASSUME NEW q \in Replicas, BootSave(q) \/ WatchFail(q), ring'[r] # ring[r]
      PROVE  RingDue(ring'[r], now)
  BY <1>3, <1>6 DEF BootSave, WatchFail, TypeOK
<1>7. ASSUME NEW q \in Replicas, WatchLoad(q), ring'[r] # ring[r] PROVE RingDue(ring'[r], now)
  BY <1>0, <1>7 DEF WatchLoad, TypeOK, RingDue
<1>8. ASSUME NEW q \in Replicas, WatchSwap(q), ring'[r] # ring[r] PROVE RingDue(ring'[r], now)
  <2>1. q = r /\ ring[r].polled <= now
    BY <1>8 DEF WatchSwap, Serving, TypeOK, Deadlines
  <2>2. /\ ring'[r].pc = "serving" /\ ring'[r].polled = ring[r].polled /\ ~ring'[r].loading
    BY <1>8, <2>1 DEF WatchSwap, TypeOK
  <2> QED
    BY <2>1, <2>2 DEF RingDue
<1>9. CASE ring' = ring
  BY <1>1, <1>9
<1>10. ~Tick
  BY SMTT(30), <1>0 DEF Tick
<1> QED
  BY <1>1, <1>2, <1>5, <1>6, <1>7, <1>8, <1>9, <1>10, ZenonT(30)
     DEF Next, vars, ReplicaStep, RetireStep, RetireBegin, ListBegin, RetireLoad, RetireCheck, RetireCommit,
         RetireSwap, RetireDies, Sign, FetchJWKS, Generate, GenerateSave, GenerateDies

\* And of one operator.
LEMMA OpDeadlines ==
    ASSUME TypeOK, Deadlines, [Next]_vars, now' = now, NEW o \in Operators
    PROVE  OpDue(op'[o], now)
<1>0. now \in Nat /\ now <= now /\ now <= now + Latency
  BY SMTT(30), DurationsAssumption DEF TypeOK
<1>1. CASE op'[o] = op[o]
  BY <1>1 DEF Deadlines, OpDue
<1>2. OpDue(Idle, now)
  BY DEF OpDue
<1>3. ASSUME NEW i \in Operators, NEW via \in Replicas \cup {Cli}, NEW k \in Kids,
             NEW force \in BOOLEAN, RetireBegin(i, via, k, force), op'[o] # op[o]
      PROVE  OpDue(op'[o], now)
  <2>1. op'[o].at = now /\ (op'[o].pc = "commit" => op'[o].stamp = now)
    BY <1>3 DEF RetireBegin, TypeOK
  <2> QED
    BY <1>0, <2>1 DEF OpDue
<1>4. ASSUME NEW i \in Operators, NEW via \in Replicas, NEW k \in Kids, ListBegin(i, via, k),
             op'[o] # op[o]
      PROVE  OpDue(op'[o], now)
  BY <1>0, <1>4 DEF ListBegin, TypeOK, OpDue
<1>5. ASSUME NEW i \in Operators, RetireLoad(i), op'[o] # op[o] PROVE OpDue(op'[o], now)
  <2>1. op'[o].at = now /\ op'[o].pc # "commit"
    BY <1>5 DEF RetireLoad, OpAt, TypeOK
  <2> QED
    BY <1>0, <2>1 DEF OpDue
<1>6. ASSUME NEW i \in Operators, RetireCheck(i), op'[o] # op[o] PROVE OpDue(op'[o], now)
  <2>1. op'[o] = Idle \/ op'[o] = OpAt("commit", i, FALSE, now, Empty)
    BY <1>6 DEF RetireCheck, TypeOK
  <2> QED
    BY SMTT(30), <1>0, <1>2, <2>1 DEF OpDue, OpAt
<1>7. ASSUME NEW i \in Operators, RetireCommit(i), op'[o] # op[o] PROVE OpDue(op'[o], now)
  <2>1. op'[o] = Idle \/ op'[o] = OpAt("reload", i, FALSE, 0, Empty)
    BY <1>7 DEF RetireCommit, TypeOK
  <2> QED
    BY SMTT(30), <1>0, <1>2, <2>1 DEF OpDue, OpAt
<1>8. ASSUME NEW i \in Operators, RetireSwap(i) \/ RetireDies(i), op'[o] # op[o]
      PROVE  OpDue(op'[o], now)
  BY <1>2, <1>8 DEF RetireSwap, RetireDies, TypeOK
<1>9. ASSUME NEW r \in Replicas, Stop(r), op'[o] # op[o] PROVE OpDue(op'[o], now)
  BY <1>2, <1>9 DEF Stop
<1>10. CASE op' = op
  BY <1>1, <1>10
<1>11. ~Tick
  BY SMTT(30), <1>0 DEF Tick
<1> QED
  BY <1>1, <1>3, <1>4, <1>5, <1>6, <1>7, <1>8, <1>9, <1>10, <1>11, ZenonT(30)
     DEF Next, vars, ReplicaStep, RetireStep, Boot, BootLoad, BootSave, WatchLoad, WatchSwap,
         WatchFail, Sign, FetchJWKS, Generate, GenerateSave, GenerateDies

LEMMA DeadlinesStep ==
    ASSUME TypeOK, TypeOK', Reserved, Deadlines, [Next]_vars
    PROVE  Deadlines'
<1>0. now \in Nat /\ now <= now /\ now <= now + Latency /\ now <= now + Refresh
  BY SMTT(30), DurationsAssumption DEF TypeOK
<1>1. CASE now' = now
  <2>1. \A r \in Replicas : RingDue(ring'[r], now)
    BY <1>1, RingDeadlines
  <2>2. \A o \in Operators : OpDue(op'[o], now)
    BY <1>1, OpDeadlines
  <2>3. gen' # Idle => gen'.created <= now /\ now <= gen'.created + Latency
    <3>1. gen' = gen \/ gen' = Idle \/ Generate
      BY ZenonT(30)
         DEF Next, vars, ReplicaStep, RetireStep, Boot, BootLoad, BootSave, WatchLoad, WatchSwap,
             WatchFail, Stop, Sign, FetchJWKS, GenerateSave, GenerateDies, RetireBegin, ListBegin,
             RetireLoad, RetireCheck, RetireCommit, RetireSwap, RetireDies, Tick
    <3> QED
      BY SMTT(30), <1>0, <3>1 DEF Deadlines, Generate
  <2>4. \A p \in Parties : jwks'[p].on => jwks'[p].at <= now /\ now <= jwks'[p].at + Refresh
    <3>1. jwks' = jwks \/ \E p \in Parties, r \in Replicas : FetchJWKS(p, r)
      BY ZenonT(30)
         DEF Next, vars, ReplicaStep, RetireStep, Boot, BootLoad, BootSave, WatchLoad, WatchSwap,
             WatchFail, Stop, Sign, Generate, GenerateSave, GenerateDies, RetireBegin, ListBegin,
             RetireLoad, RetireCheck, RetireCommit, RetireSwap, RetireDies, Tick
    <3> QED
      BY SMTT(30), <1>0, <3>1 DEF Deadlines, FetchJWKS, TypeOK
  <2>5. \A k \in Kids : store'[k].st = "retired" => store'[k].at <= now
    <3>1. Grown(store, store', now)
      BY TableGrows
    <3> QED
      BY <3>1 DEF Grown, Deadlines
  <2> QED
    BY <1>1, <2>1, <2>2, <2>3, <2>4, <2>5 DEF Deadlines, RingDue, OpDue, Serving
<1>2. CASE Tick
  <2>1. UNCHANGED <<store, ring, gen, op, jwks>> /\ now' = now + 1
    BY <1>2 DEF Tick
  <2>2. ASSUME NEW r \in Replicas PROVE RingDue(ring[r], now + 1)
    <3>1. CASE ring[r].pc \in {"boot_load", "boot_save"}
      <4>1. ring[r].at \in Nat
        BY <3>1, RingPhases DEF RingBootLoad, RingBootSave
      <4> QED
        BY SMTT(30), <1>0, <1>2, <3>1, <4>1, DurationsAssumption DEF Tick, OnTime, Deadlines, RingDue
    <3>2. CASE ring[r].pc = "serving"
      <4>1. ring[r].polled \in Nat
        BY <3>2, RingPhases DEF RingServing
      <4> QED
        BY SMTT(30), <1>0, <1>2, <3>2, <4>1, DurationsAssumption
           DEF Tick, OnTime, Deadlines, RingDue, Serving
    <3>3. CASE ring[r].pc \notin {"boot_load", "boot_save", "serving"}
      BY <3>3 DEF RingDue
    <3> QED
      BY <3>1, <3>2, <3>3
  <2>3. ASSUME NEW o \in Operators PROVE OpDue(op[o], now + 1)
    <3> SUFFICES ASSUME op[o] # Idle PROVE OpDue(op[o], now + 1)
      BY DEF OpDue
    <3>1. op[o].at \in Nat
      BY OpPhases DEF OpBusy
    <3> QED
      BY SMTT(30), <1>0, <1>2, <3>1, DurationsAssumption DEF Tick, OnTime, Deadlines, OpDue
  <2>4. gen # Idle => gen.created <= now + 1 /\ now + 1 <= gen.created + Latency
    <3>1. gen # Idle => gen.created \in Nat
      BY DEF TypeOK
    <3> QED
      BY SMTT(30), <1>0, <1>2, <3>1, DurationsAssumption DEF Tick, OnTime, Deadlines
  <2>5. \A p \in Parties : jwks[p].on => jwks[p].at <= now + 1 /\ now + 1 <= jwks[p].at + Refresh
    <3>1. \A p \in Parties : jwks[p].at \in Nat
      BY DEF TypeOK
    <3> QED
      BY SMTT(30), <1>0, <1>2, <3>1, DurationsAssumption DEF Tick, OnTime, Deadlines
  <2>6. \A k \in Kids : store[k].st = "retired" => store[k].at <= now + 1
    <3>1. \A k \in Kids : store[k].st = "retired" => store[k].at \in Nat
      BY RowTyped DEF TypeOK
    <3> QED
      BY SMTT(30), <1>0, <3>1 DEF Deadlines
  <2> QED
    BY <2>1, <2>2, <2>3, <2>4, <2>5, <2>6 DEF Deadlines, RingDue, OpDue, Serving
<1> QED
  BY <1>1, <1>2, TableGrows

-----------------------------------------------------------------------------
(* Snapshots, in flight and installed.                                     *)

\* Where a ring's content comes from.
Sourced(r) ==
    LET row == [st |-> "active", created |-> ring[r].created] IN
    \/ cache'[r] = cache[r]
    \/ cache'[r] = Empty /\ ring'[r] = Down
    \/ cache'[r] = store /\ store' = store /\ ring'[r] = Served
    \/ /\ BootSave(r) /\ ring[r] \in RingBootSave /\ ring'[r] = Served
       /\ store' = [store EXCEPT ![ring[r].kid] = row]
       /\ cache'[r] = [ring[r].snap EXCEPT ![ring[r].kid] = row]
    \/ WatchSwap(r) /\ ring[r] \in RingServing /\ cache'[r] = ring[r].snap
    \/ \E o \in Operators :
         /\ op[o] # Idle /\ op[o] \in OpBusy /\ op[o].pc \in {"check", "swap"}
         /\ cache'[r] = op[o].snap /\ UNCHANGED <<now, store, ring, failures>>

LEMMA CacheStep ==
    ASSUME TypeOK, [Next]_vars, NEW r \in Replicas
    PROVE  Sourced(r)
<1>1. ASSUME NEW q \in Replicas, Stop(q) PROVE Sourced(r)
  BY <1>1 DEF Stop, TypeOK, Sourced
<1>2. ASSUME NEW q \in Replicas, BootLoad(q) PROVE Sourced(r)
  BY <1>2 DEF BootLoad, TypeOK, Sourced
<1>3. ASSUME NEW q \in Replicas, BootSave(q) PROVE Sourced(r)
  <2>1. CASE q # r
    BY <1>3, <2>1 DEF BootSave, TypeOK, Sourced
  <2>2. CASE q = r
    <3>1. ring[r] \in RingBootSave
      BY <1>3, <2>2, RingPhases DEF BootSave
    <3>2. /\ store' = [store EXCEPT ![ring[r].kid] = [st |-> "active", created |-> ring[r].created]]
          /\ cache' = [cache EXCEPT ![r] =
                         [ring[r].snap EXCEPT ![ring[r].kid] = [st |-> "active", created |-> ring[r].created]]]
          /\ ring' = [ring EXCEPT ![r] = Served]
      BY <1>3, <2>2, ZenonT(30) DEF BootSave
    <3>3. cache'[r] = [ring[r].snap EXCEPT ![ring[r].kid] = [st |-> "active", created |-> ring[r].created]]
          /\ ring'[r] = Served
      BY <3>2, ZenonT(30) DEF TypeOK
    <3> QED
      BY <1>3, <2>2, <3>1, <3>2, <3>3, ZenonT(30) DEF Sourced
  <2> QED
    BY <2>1, <2>2
<1>4. ASSUME NEW q \in Replicas, WatchSwap(q) PROVE Sourced(r)
  <2>1. CASE q # r
    BY <1>4, <2>1 DEF WatchSwap, TypeOK, Sourced
  <2>2. CASE q = r
    <3>1. ring[r] \in RingServing /\ cache'[r] = ring[r].snap
      BY <1>4, <2>2, RingPhases DEF WatchSwap, Serving, Reloaded, TypeOK
    <3> QED
      BY <1>4, <2>2, <3>1 DEF Sourced
  <2> QED
    BY <2>1, <2>2
<1>5. ASSUME NEW o \in Operators, RetireCheck(o) \/ RetireSwap(o) PROVE Sourced(r)
  <2>1. op[o] # Idle /\ op[o] \in OpBusy /\ op[o].pc \in {"check", "swap"}
        /\ UNCHANGED <<now, store, ring, failures>>
    BY ZenonT(30), <1>5, OpPhases DEF RetireCheck, RetireSwap
  <2>2. cache'[r] = cache[r] \/ cache'[r] = op[o].snap
    BY ZenonT(30), <1>5, <2>1 DEF RetireCheck, RetireSwap, Install, OpBusy, TypeOK
  <2> QED
    BY <1>5, <2>1, <2>2, ZenonT(30) DEF Sourced
<1>6. CASE cache' = cache
  BY <1>6 DEF Sourced
<1> QED
  BY <1>1, <1>2, <1>3, <1>4, <1>5, <1>6, ZenonT(30)
     DEF Next, vars, ReplicaStep, RetireStep, Boot, WatchLoad, WatchFail, RetireBegin, ListBegin,
         RetireLoad, RetireCommit, RetireDies, Sign, FetchJWKS, Generate, GenerateSave,
         GenerateDies, Tick

LEMMA CacheShows ==
    ASSUME TypeOK, TypeOK', Reserved, Deadlines, SnapshotsOld, [Next]_vars,
           NEW r \in Replicas, NEW k \in Kids
    PROVE  Shows(store', cache'[r], k)
<1>0. /\ store \in Snapshot /\ store' \in Snapshot /\ cache[r] \in Snapshot /\ now \in Nat
      /\ Grown(store, store', now)
  BY TableGrows DEF TypeOK
<1>1. ASSUME NEW s \in Snapshot, cache'[r] = s, Shows(store, s, k) PROVE Shows(store', cache'[r], k)
  BY <1>0, <1>1, ShowsLater
<1>2. CASE cache'[r] = cache[r]
  BY <1>0, <1>1, <1>2 DEF SnapshotsOld
<1>3. CASE cache'[r] = Empty
  BY <1>0, <1>3, ShowsEmpty
<1>4. CASE cache'[r] = store
  BY <1>0, <1>1, <1>4, ReadNow
<1>5. CASE /\ ring[r] \in RingBootSave /\ BootSave(r)
           /\ store' = [store EXCEPT ![ring[r].kid] = [st |-> "active", created |-> ring[r].created]]
           /\ cache'[r] = [ring[r].snap EXCEPT ![ring[r].kid] = [st |-> "active", created |-> ring[r].created]]
  <2>1. ring[r].snap \in Snapshot /\ ring[r].kid \in Kids /\ ring[r].created \in Nat
    BY <1>5 DEF RingBootSave
  <2>2. Shows(store, ring[r].snap, k)
    BY <1>5 DEF RingBootSave, SnapshotsOld, ReadAt
  <2> DEFINE row == [st |-> "active", created |-> ring[r].created]
  <2>3. /\ row.st = "active" /\ store'[k] = IF k = ring[r].kid THEN row ELSE store[k]
        /\ cache'[r][k] = IF k = ring[r].kid THEN row ELSE ring[r].snap[k]
    BY <1>0, <1>5, <2>1 DEF Snapshot
  <2> HIDE DEF row
  <2> QED
    BY <2>2, <2>3 DEF Shows
<1>6. CASE WatchSwap(r) /\ ring[r] \in RingServing /\ cache'[r] = ring[r].snap
  <2>1. ring[r].snap \in Snapshot /\ Shows(store, ring[r].snap, k)
    BY <1>6 DEF WatchSwap, RingServing, SnapshotsOld, ReadAt
  <2> QED
    BY <1>1, <1>6, <2>1
<1>7. ASSUME NEW o \in Operators, op[o] \in OpBusy, op[o].pc \in {"check", "swap"},
             cache'[r] = op[o].snap
      PROVE  Shows(store', cache'[r], k)
  <2>1. op[o].snap \in Snapshot /\ Shows(store, op[o].snap, k)
    BY <1>7 DEF OpBusy, SnapshotsOld, ReadAt
  <2> QED
    BY <1>1, <1>7, <2>1
<1> QED
  BY <1>2, <1>3, <1>4, <1>5, <1>6, <1>7, CacheStep, ZenonT(30) DEF Sourced

\* A load in flight is of the table as it was, or as it is.
LEMMA RingLoads ==
    ASSUME TypeOK, [Next]_vars, NEW r \in Replicas
    PROVE  \/ ring'[r] = ring[r]
           \/ ring'[r].pc \notin {"boot_save", "serving"}
           \/ ring'[r].pc = "serving" /\ ~ring'[r].loading
           \/ ring'[r].pc = "boot_save" /\ ring'[r].snap = store /\ store' = store
           \/ /\ ring'[r].pc = "serving" /\ ring'[r].snap = store /\ store' = store
              /\ WatchLoad(r)
<1>1. ASSUME NEW q \in Replicas, Boot(q) \/ Stop(q), ring'[r] # ring[r]
      PROVE  ring'[r].pc \notin {"boot_save", "serving"}
  BY SMTT(30), <1>1 DEF Boot, Stop, Down, TypeOK
<1>2. ASSUME NEW q \in Replicas, BootLoad(q), ring'[r] # ring[r]
      PROVE  \/ ring'[r].pc = "serving" /\ ~ring'[r].loading
             \/ ring'[r].pc = "boot_save" /\ ring'[r].snap = store /\ store' = store
  BY SMTT(30), <1>2 DEF BootLoad, Served, TypeOK
<1>3. ASSUME NEW q \in Replicas, BootSave(q) \/ WatchSwap(q) \/ WatchFail(q), ring'[r] # ring[r]
      PROVE  ring'[r].pc = "serving" /\ ~ring'[r].loading
  BY SMTT(30), <1>3 DEF BootSave, WatchSwap, WatchFail, Served, TypeOK
<1>4. ASSUME NEW q \in Replicas, WatchLoad(q), ring'[r] # ring[r]
      PROVE  ring'[r].pc = "serving" /\ ring'[r].snap = store /\ store' = store /\ q = r
  BY <1>4 DEF WatchLoad, TypeOK
<1> QED
  BY <1>1, <1>2, <1>3, <1>4, ZenonT(30)
     DEF Next, vars, ReplicaStep, RetireStep, RetireBegin, ListBegin, RetireLoad, RetireCheck, RetireCommit,
         RetireSwap, RetireDies, Sign, FetchJWKS, Generate, GenerateSave, GenerateDies, Tick

LEMMA OpLoads ==
    ASSUME TypeOK, [Next]_vars, NEW o \in Operators
    PROVE  \/ op'[o] = op[o]
           \/ op'[o].pc \notin {"check", "swap"}
           \/ op'[o].snap = store /\ store' = store
<1>1. ASSUME NEW i \in Operators, NEW via \in Replicas \cup {Cli}, NEW k \in Kids,
             NEW force \in BOOLEAN, RetireBegin(i, via, k, force), op'[o] # op[o]
      PROVE  op'[o].pc \notin {"check", "swap"}
  BY <1>1 DEF RetireBegin, TypeOK
<1>2. ASSUME NEW i \in Operators, NEW via \in Replicas, NEW k \in Kids, ListBegin(i, via, k),
             op'[o] # op[o]
      PROVE  op'[o].pc \notin {"check", "swap"}
  BY <1>2 DEF ListBegin, TypeOK
<1>3. ASSUME NEW i \in Operators, RetireLoad(i), op'[o] # op[o]
      PROVE  op'[o].snap = store /\ store' = store
  BY <1>3 DEF RetireLoad, OpAt, TypeOK
<1>4. ASSUME NEW i \in Operators, RetireCheck(i) \/ RetireCommit(i), op'[o] # op[o]
      PROVE  op'[o].pc \notin {"check", "swap"}
  BY SMTT(30), <1>4 DEF RetireCheck, RetireCommit, OpAt, Idle, TypeOK
<1>5. ASSUME NEW i \in Operators, RetireSwap(i) \/ RetireDies(i), op'[o] # op[o]
      PROVE  op'[o].pc \notin {"check", "swap"}
  BY SMTT(30), <1>5 DEF RetireSwap, RetireDies, Idle, TypeOK
<1>6. ASSUME NEW r \in Replicas, Stop(r), op'[o] # op[o] PROVE op'[o].pc \notin {"check", "swap"}
  BY <1>6 DEF Stop, Idle
<1> QED
  BY <1>1, <1>2, <1>3, <1>4, <1>5, <1>6, ZenonT(30)
     DEF Next, vars, ReplicaStep, RetireStep, Boot, BootLoad, BootSave, WatchLoad, WatchSwap,
         WatchFail, Sign, FetchJWKS, Generate, GenerateSave, GenerateDies, Tick

LEMMA SnapshotsStep ==
    ASSUME TypeOK, TypeOK', Reserved, Deadlines, SnapshotsOld, [Next]_vars
    PROVE  SnapshotsOld'
<1>0. /\ store \in Snapshot /\ store' \in Snapshot /\ now \in Nat
      /\ Grown(store, store', now)
  BY TableGrows DEF TypeOK
<1>1. \A r \in Replicas, k \in Kids : Shows(store', cache'[r], k)
  BY CacheShows
<1>2. ASSUME NEW s \in Snapshot, NEW c \in Nat, c <= now, ReadAt(store, s, c)
      PROVE  ReadAt(store', s, c)
  BY <1>0, <1>2, ReadAtLater
<1>3. ASSUME NEW r \in Replicas, ring'[r].pc = "boot_save"
      PROVE  ReadAt(store', ring'[r].snap, ring'[r].at)
  <2>1. CASE ring'[r] = ring[r]
    <3>1. ring[r].snap \in Snapshot /\ ring[r].at \in Nat
      BY <1>3, <2>1, RingPhases DEF RingBootSave
    <3>2. ring[r].at <= now /\ ReadAt(store, ring[r].snap, ring[r].at)
      BY <1>3, <2>1 DEF Deadlines, SnapshotsOld
    <3> QED
      BY <1>2, <2>1, <3>1, <3>2
  <2>2. CASE ring'[r].snap = store /\ store' = store
    BY <1>0, <2>2, ReadNow
  <2> QED
    BY <1>3, <2>1, <2>2, RingLoads
<1>4. ASSUME NEW r \in Replicas, ring'[r].pc = "serving", ring'[r].loading
      PROVE  ReadAt(store', ring'[r].snap, ring'[r].polled)
  <2>1. CASE ring'[r] = ring[r]
    <3>1. ring[r].snap \in Snapshot /\ ring[r].polled \in Nat
      BY <1>4, <2>1, RingPhases DEF RingServing
    <3>2. ring[r].polled <= now /\ ReadAt(store, ring[r].snap, ring[r].polled)
      BY <1>4, <2>1 DEF Deadlines, SnapshotsOld, Serving
    <3> QED
      BY <1>2, <2>1, <3>1, <3>2
  <2>2. CASE ring'[r].snap = store /\ store' = store
    BY <1>0, <2>2, ReadNow
  <2> QED
    BY <1>4, <2>1, <2>2, RingLoads
<1>5. ASSUME NEW o \in Operators, op'[o].pc \in {"check", "swap"}
      PROVE  ReadAt(store', op'[o].snap, op'[o].at)
  <2>1. CASE op'[o] = op[o]
    <3>1. op[o] # Idle /\ op[o].snap \in Snapshot /\ op[o].at \in Nat
      BY <1>5, <2>1, OpPhases DEF OpBusy
    <3>2. op[o].at <= now /\ ReadAt(store, op[o].snap, op[o].at)
      BY <1>5, <2>1, <3>1 DEF Deadlines, SnapshotsOld
    <3> QED
      BY <1>2, <2>1, <3>1, <3>2
  <2>2. CASE op'[o].snap = store /\ store' = store
    BY <1>0, <2>2, ReadNow
  <2> QED
    BY <1>5, <2>1, <2>2, OpLoads
<1> QED
  BY <1>1, <1>3, <1>4, <1>5 DEF SnapshotsOld, Serving

-----------------------------------------------------------------------------
(* How long a change takes to show.                                        *)

\* How a replica comes to serve, or goes on serving.
LEMMA ServingMoves ==
    ASSUME TypeOK, [Next]_vars, NEW r \in Replicas, ring'[r].pc = "serving"
    PROVE  \/ ring'[r] = ring[r] /\ cache'[r] = cache[r]
           \/ WatchLoad(r) \/ WatchSwap(r) \/ WatchFail(r)
           \/ BootLoad(r) \/ BootSave(r)
           \/ \E o \in Operators :
                /\ op[o] # Idle /\ op[o] \in OpBusy /\ op[o].pc \in {"check", "swap"}
                /\ cache'[r] = op[o].snap /\ UNCHANGED <<now, store, ring, failures>>
<1>1. ASSUME NEW q \in Replicas, Boot(q) \/ Stop(q) PROVE ring'[r] = ring[r] /\ cache'[r] = cache[r]
  BY SMTT(30), <1>1 DEF Boot, Stop, Down, TypeOK
<1>2. ASSUME NEW q \in Replicas, q # r,
             WatchLoad(q) \/ WatchSwap(q) \/ WatchFail(q) \/ BootLoad(q) \/ BootSave(q)
      PROVE  ring'[r] = ring[r] /\ cache'[r] = cache[r]
  BY ZenonT(30), <1>2 DEF WatchLoad, WatchSwap, WatchFail, BootLoad, BootSave, TypeOK
<1>3. ASSUME NEW o \in Operators, RetireCheck(o) \/ RetireSwap(o)
      PROVE  \/ ring'[r] = ring[r] /\ cache'[r] = cache[r]
             \/ /\ op[o] # Idle /\ op[o] \in OpBusy /\ op[o].pc \in {"check", "swap"}
                /\ cache'[r] = op[o].snap /\ UNCHANGED <<now, store, ring, failures>>
  <2>1. op[o] # Idle /\ op[o] \in OpBusy /\ op[o].pc \in {"check", "swap"}
        /\ UNCHANGED <<now, store, ring, failures>>
    BY ZenonT(30), <1>3, OpPhases DEF RetireCheck, RetireSwap
  <2>2. cache'[r] = cache[r] \/ cache'[r] = op[o].snap
    BY ZenonT(30), <1>3, <2>1 DEF RetireCheck, RetireSwap, Install, OpBusy, TypeOK
  <2> QED
    BY <2>1, <2>2, ZenonT(30)
<1> QED
  BY <1>1, <1>2, <1>3, ZenonT(30)
     DEF Next, vars, ReplicaStep, RetireStep, RetireBegin, ListBegin, RetireLoad, RetireCommit,
         RetireDies, Sign, FetchJWKS, Generate, GenerateSave, GenerateDies, Tick

\* What RingsCatchUp says of ring g and a change stamped c, given whether the
\* load in flight misses it.
Awaited(g, c, misses, n, f) ==
    \/ /\ g.loading /\ ~misses
       /\ g.polled <= c + 2 * Latency + (1 + MaxFailures) * Reload
    \/ /\ g.polled <= c + 2 * Latency + f * Reload
       /\ g.loading \/ n <= g.polled + Reload \/ n <= c + 2 * Latency

\* A change so recent is awaited anyhow.
LEMMA Recent ==
    ASSUME NEW g, NEW c \in Nat, NEW misses, NEW n \in Nat, NEW f \in 0..MaxFailures,
           g.polled \in Nat, g.polled <= n, n <= c + 2 * Latency
    PROVE  Awaited(g, c, misses, n, f)
<1>1. f * Reload \in Nat
  BY Delays
<1>2. g.polled <= c + 2 * Latency + f * Reload
  BY SMTT(30), <1>1, DurationsAssumption
<1> QED
  BY <1>2 DEF Awaited

\* When the next load begins, fails or not.
LEMMA NextLoad ==
    ASSUME NEW g, NEW c \in Nat, NEW misses, NEW n \in Nat, NEW f \in 0..MaxFailures,
           g.polled \in Nat, g.polled <= n, ~g.loading, Awaited(g, c, misses, n, f)
    PROVE  n <= c + 2 * Latency + (1 + f) * Reload
<1>1. f * Reload \in Nat /\ (1 + f) * Reload = f * Reload + Reload /\ (1 + f) * Reload \in Nat
  BY SMTT(30), Delays, DurationsAssumption
<1>2. /\ g.polled <= c + 2 * Latency + f * Reload
      /\ n <= g.polled + Reload \/ n <= c + 2 * Latency
  BY DEF Awaited
<1> QED
  BY SMTT(30), <1>1, <1>2, DurationsAssumption

\* A change that waits shows within the propagation time.
LEMMA Awaiting ==
    ASSUME NEW g, NEW c \in Nat, NEW misses, NEW n \in Nat, NEW f \in 0..MaxFailures,
           g.polled \in Nat, g.polled <= n, g.loading => n <= g.polled + Latency,
           Awaited(g, c, misses, n, f)
    PROVE  n <= c + Propagation
<1>1. /\ f * Reload \in Nat /\ (1 + f) * Reload = f * Reload + Reload /\ (1 + f) * Reload \in Nat
      /\ (1 + f) * Reload <= (1 + MaxFailures) * Reload /\ (1 + MaxFailures) * Reload \in Nat
      /\ Propagation = 3 * Latency + (1 + MaxFailures) * Reload
  BY SMTT(30), Delays, DurationsAssumption
<1>2. CASE ~g.loading
  <2>1. n <= c + 2 * Latency + (1 + f) * Reload
    BY <1>2, NextLoad
  <2> QED
    BY SMTT(30), <1>1, <2>1, DurationsAssumption
<1>3. CASE g.loading
  <2>1. \/ g.polled <= c + 2 * Latency + (1 + MaxFailures) * Reload
        \/ g.polled <= c + 2 * Latency + f * Reload
    BY DEF Awaited
  <2> QED
    BY SMTT(30), <1>1, <1>3, <2>1, DurationsAssumption
<1> QED
  BY <1>2, <1>3

\* What waits now has waited, or was committed at this instant.
LEMMA StillUnseen ==
    ASSUME TypeOK, TypeOK', Reserved, Deadlines, [Next]_vars, NEW s \in Snapshot, NEW k \in Kids,
           NEW c \in Unseen(store', s, k)
    PROVE  c \in Nat /\ (c \in Unseen(store, s, k) \/ (now' = now /\ now <= c + Latency))
<1>1. /\ store \in Snapshot /\ store' \in Snapshot /\ now \in Nat
      /\ Grown(store, store', now) /\ (store' = store \/ now' = now)
  BY TableGrows DEF TypeOK
<1>2. CASE store' = store
  BY <1>1, <1>2, UnseenTyped
<1>3. CASE now' = now
  BY <1>1, <1>3, UnseenLater
<1> QED
  BY <1>1, <1>2, <1>3

\* A ring that only waits.
LEMMA Waiting ==
    ASSUME TypeOK, TypeOK', Reserved, Deadlines, Deadlines', RingsCatchUp, [Next]_vars,
           NEW r \in Replicas, ring'[r].pc = "serving", ring'[r] = ring[r], cache'[r] = cache[r],
           NEW k \in Kids, NEW c \in Unseen(store', cache'[r], k)
    PROVE  Awaited(ring'[r], c, c \in Unseen(store', ring'[r].snap, k), now', failures')
<1>0. /\ ring[r] \in RingServing /\ ring[r].polled \in Nat /\ ring[r].snap \in Snapshot
      /\ cache[r] \in Snapshot /\ now \in Nat /\ now' \in Nat /\ now <= now'
      /\ failures \in 0..MaxFailures /\ failures' \in 0..MaxFailures /\ ring[r].polled <= now'
  BY RingPhases, TableGrows DEF TypeOK, RingServing, Deadlines, Serving
<1>1. c \in Nat
  BY <1>0, StillUnseen
<1>2. CASE now' = now /\ now <= c + Latency
  <2>1. now' <= c + 2 * Latency
    BY SMTT(30), <1>0, <1>1, <1>2, DurationsAssumption
  <2> QED
    BY <1>0, <1>1, <2>1, Recent
<1>3. CASE c \in Unseen(store, cache[r], k)
  <2>1. \/ /\ ring[r].loading /\ c \notin Unseen(store, ring[r].snap, k)
           /\ ring[r].polled <= c + 2 * Latency + (1 + MaxFailures) * Reload
        \/ /\ ring[r].polled <= c + 2 * Latency + failures * Reload
           /\ ring[r].loading \/ now <= ring[r].polled + Reload \/ now <= c + 2 * Latency
    BY <1>3 DEF RingsCatchUp, Serving
  <2>2. CASE /\ ring[r].loading /\ c \notin Unseen(store, ring[r].snap, k)
             /\ ring[r].polled <= c + 2 * Latency + (1 + MaxFailures) * Reload
    <3>1. CASE c \in Unseen(store', ring[r].snap, k)
      <4>1. now' = now /\ now <= c + Latency
        BY <1>0, <2>2, <3>1, StillUnseen
      <4> QED
        BY <1>2, <4>1
    <3>2. CASE c \notin Unseen(store', ring[r].snap, k)
      BY <2>2, <3>2 DEF Awaited
    <3> QED
      BY <3>1, <3>2
  <2>3. CASE /\ ring[r].polled <= c + 2 * Latency + failures * Reload
             /\ ring[r].loading \/ now <= ring[r].polled + Reload \/ now <= c + 2 * Latency
    <3>1. ring[r].polled <= c + 2 * Latency + failures' * Reload
      <4>1. failures' = failures \/ failures' = failures + 1
        BY ZenonT(30)
           DEF Next, vars, ReplicaStep, RetireStep, Boot, BootLoad, BootSave, WatchLoad,
               WatchSwap, WatchFail, Stop, Sign, FetchJWKS, Generate, GenerateSave,
               GenerateDies, RetireBegin, ListBegin, RetireLoad, RetireCheck, RetireCommit,
               RetireSwap, RetireDies, Tick
      <4>2. PICK a \in Nat : a = failures * Reload /\ (failures + 1) * Reload = a + Reload
        BY <1>0, Delays
      <4>3. PICK b \in Nat : b = failures' * Reload /\ (b = a \/ b = a + Reload)
        <5>1. failures' * Reload \in {a, a + Reload}
          BY <4>1, <4>2, ZenonT(30)
        <5>2. a + Reload \in Nat
          BY SMTT(30), <4>2, DurationsAssumption
        <5> QED
          BY <4>2, <5>1, <5>2, ZenonT(30)
      <4>4. ring[r].polled <= c + 2 * Latency + a
        BY <2>3, <4>2
      <4>5. b = a \/ b = a + Reload
        BY <4>3, ZenonT(30)
      <4>6. ring[r].polled <= c + 2 * Latency + b
        BY SMTT(30), <1>0, <1>1, <4>4, <4>5, DurationsAssumption
      <4> QED
        BY <4>3, <4>6, ZenonT(30)
    <3>2. ring[r].loading \/ now' <= ring[r].polled + Reload \/ now' <= c + 2 * Latency
      <4>1. CASE now' = now
        BY <2>3, <4>1
      <4>2. CASE Tick
        <5>1. ~ring[r].loading => now < ring[r].polled + Reload
          BY <4>2 DEF Tick, OnTime, Serving
        <5> QED
          BY SMTT(30), <1>0, <4>2, <5>1, DurationsAssumption DEF Tick
      <4> QED
        BY <4>1, <4>2, TableGrows
    <3> QED
      BY <3>1, <3>2 DEF Awaited
  <2> QED
    BY <2>1, <2>2, <2>3
<1> QED
  BY <1>0, <1>2, <1>3, StillUnseen

\* A change the content just installed misses is recent: an old snapshot is
\* installed within a Latency of its load.
LEMMA InstalledRecent ==
    ASSUME TypeOK, TypeOK', Deadlines, NEW s \in Snapshot, NEW a \in Nat, ReadAt(store, s, a),
           now <= a + Latency, NEW k \in Kids, NEW c \in Unseen(store, s, k)
    PROVE  c \in Nat /\ now <= c + 2 * Latency
<1>1. c \in Nat /\ now \in Nat
  BY SMTT(30), UnseenTyped, DurationsAssumption DEF TypeOK
<1>2. a <= c + Latency
  BY DEF ReadAt
<1> QED
  BY SMTT(30), <1>1, <1>2, DurationsAssumption

LEMMA CatchUpStep ==
    ASSUME TypeOK, TypeOK', Reserved, Deadlines, Deadlines', SnapshotsOld, RingsCatchUp, [Next]_vars
    PROVE  RingsCatchUp'
<1> SUFFICES ASSUME NEW r \in Replicas, ring'[r].pc = "serving", NEW k \in Kids,
                    NEW c \in Unseen(store', cache'[r], k)
             PROVE  Awaited(ring'[r], c, c \in Unseen(store', ring'[r].snap, k), now', failures')
  BY DEF RingsCatchUp, Awaited, Serving
<1>0. /\ store \in Snapshot /\ store' \in Snapshot /\ cache'[r] \in Snapshot /\ now \in Nat
      /\ now' \in Nat /\ failures \in 0..MaxFailures /\ failures' \in 0..MaxFailures
  BY SMTT(30), DurationsAssumption DEF TypeOK
<1>1. c \in Nat
  BY <1>0, UnseenTyped
<1>2. ring'[r].polled \in Nat /\ ring'[r].polled <= now'
  <2>1. ring'[r] \in RingServing
    BY SMTT(30) DEF TypeOK, Down, RingBootLoad, RingBootSave, RingServing
  <2> QED
    BY <2>1 DEF RingServing, Deadlines, Serving
<1>3. ASSUME now' = now, now <= c + 2 * Latency
      PROVE  Awaited(ring'[r], c, c \in Unseen(store', ring'[r].snap, k), now', failures')
  BY <1>0, <1>1, <1>2, <1>3, Recent
<1>4. CASE ring'[r] = ring[r] /\ cache'[r] = cache[r]
  BY <1>4, Waiting
<1>5. CASE WatchLoad(r) \/ WatchFail(r)
  <2>1. /\ store' = store /\ cache' = cache /\ now' = now
        /\ ring[r].pc = "serving" /\ ~ring[r].loading
    BY <1>5 DEF WatchLoad, WatchFail, Serving
  <2>2. ring[r].polled \in Nat /\ ring[r].polled <= now
    BY <2>1, RingPhases DEF RingServing, Deadlines, Serving
  <2>3. Awaited(ring[r], c, c \in Unseen(store, ring[r].snap, k), now, failures)
    BY <2>1 DEF RingsCatchUp, Serving, Awaited
  <2>4. now <= c + 2 * Latency + (1 + failures) * Reload
    BY <1>0, <1>1, <2>1, <2>2, <2>3, NextLoad
  <2>5. CASE WatchLoad(r)
    <3>1. ring'[r].loading /\ ring'[r].polled = now /\ ring'[r].snap = store
      BY <2>5 DEF WatchLoad, TypeOK
    <3>2. c \notin Unseen(store', ring'[r].snap, k)
      BY <1>0, <2>1, <3>1, ReadNow
    <3>3. PICK a \in Nat, b \in Nat :
            a = (1 + failures) * Reload /\ b = (1 + MaxFailures) * Reload /\ a <= b
      BY SMTT(30), <1>0, Delays, DurationsAssumption
    <3>4. now <= c + 2 * Latency + b
      <4>1. now <= c + 2 * Latency + a
        BY <2>4, <3>3
      <4> QED
        BY SMTT(30), <1>0, <1>1, <3>3, <4>1, DurationsAssumption
    <3> QED
      BY <3>1, <3>2, <3>3, <3>4 DEF Awaited
  <2>6. CASE WatchFail(r)
    <3>1. ring'[r].polled = now /\ failures' = failures + 1
      BY <2>6 DEF WatchFail, Served, TypeOK
    <3>2. (1 + failures) * Reload = failures' * Reload
      BY <1>0, <3>1, Delays
    <3>3. ring'[r].polled <= c + 2 * Latency + failures' * Reload
      BY <2>4, <3>1, <3>2
    <3>4. now' <= ring'[r].polled + Reload
      BY SMTT(30), <1>0, <2>1, <3>1, DurationsAssumption
    <3> QED
      BY <3>3, <3>4 DEF Awaited
  <2> QED
    BY <1>5, <2>5, <2>6
<1>6. CASE WatchSwap(r)
  <2>1. /\ store' = store /\ now' = now /\ cache'[r] = ring[r].snap
        /\ ring[r].pc = "serving" /\ ring[r].loading
    BY <1>6 DEF WatchSwap, Reloaded, Serving, TypeOK
  <2>2. /\ ring[r].polled \in Nat /\ ring[r].snap \in Snapshot /\ now <= ring[r].polled + Latency
        /\ ReadAt(store, ring[r].snap, ring[r].polled)
    BY <2>1, RingPhases DEF RingServing, Deadlines, Serving, SnapshotsOld
  <2>3. now <= c + 2 * Latency
    BY <2>1, <2>2, InstalledRecent
  <2> QED
    BY <1>3, <2>1, <2>3
<1>7. CASE BootLoad(r)
  <2>1. store' = store /\ cache'[r] = store
    BY SMTT(30), <1>7 DEF BootLoad, TypeOK
  <2> QED
    BY <1>0, <2>1, ReadNow
<1>8. CASE BootSave(r)
  <2>1. ring[r] \in RingBootSave /\ ring[r].pc = "boot_save" /\ now' = now
    BY <1>8, RingPhases DEF BootSave
  <2>2. /\ ring[r].kid \in Kids /\ ring[r].snap \in Snapshot /\ ring[r].at \in Nat
        /\ now <= ring[r].at + Latency /\ ReadAt(store, ring[r].snap, ring[r].at)
    BY <2>1 DEF RingBootSave, Deadlines, SnapshotsOld
  <2> DEFINE row == [st |-> "active", created |-> ring[r].created]
  <2>3. /\ store' = [store EXCEPT ![ring[r].kid] = row]
        /\ cache' = [cache EXCEPT ![r] = [ring[r].snap EXCEPT ![ring[r].kid] = row]]
    BY <1>8, ZenonT(30) DEF BootSave
  <2>4. /\ row.st = "active" /\ store'[k] = IF k = ring[r].kid THEN row ELSE store[k]
        /\ cache'[r][k] = IF k = ring[r].kid THEN row ELSE ring[r].snap[k]
    BY <1>0, <2>2, <2>3 DEF Snapshot, TypeOK
  <2>5. c \in Unseen(store, ring[r].snap, k)
    <3> HIDE DEF row
    <3> QED
      BY <2>4 DEF Unseen
  <2>6. now <= c + 2 * Latency
    BY <2>2, <2>5, InstalledRecent
  <2> QED
    BY <1>3, <2>1, <2>6
<1>9. ASSUME NEW o \in Operators, op[o] # Idle, op[o] \in OpBusy, op[o].pc \in {"check", "swap"},
             cache'[r] = op[o].snap, UNCHANGED <<now, store, ring, failures>>
      PROVE  Awaited(ring'[r], c, c \in Unseen(store', ring'[r].snap, k), now', failures')
  <2>1. /\ op[o].at \in Nat /\ op[o].snap \in Snapshot /\ now <= op[o].at + Latency
        /\ ReadAt(store, op[o].snap, op[o].at)
    BY <1>9 DEF OpBusy, Deadlines, SnapshotsOld
  <2>2. now <= c + 2 * Latency
    BY <1>9, <2>1, InstalledRecent
  <2> QED
    BY <1>3, <1>9, <2>2
<1> QED
  BY <1>4, <1>5, <1>6, <1>7, <1>8, <1>9, ServingMoves, ZenonT(30)

\* A serving replica shows a change once the propagation time has passed.
LEMMA ChangesShow ==
    ASSUME TypeOK, Deadlines, RingsCatchUp, NEW r \in Replicas, Serving(r), NEW k \in Kids,
           NEW c \in Unseen(store, cache[r], k)
    PROVE  c \in Nat /\ now <= c + Propagation
<1>1. /\ ring[r].polled \in Nat /\ ring[r].polled <= now
      /\ ring[r].loading => now <= ring[r].polled + Latency
  BY RingPhases DEF RingServing, Deadlines, Serving
<1>2. c \in Nat /\ now \in Nat /\ failures \in 0..MaxFailures
  BY SMTT(30), UnseenTyped, DurationsAssumption DEF TypeOK
<1>3. Awaited(ring[r], c, c \in Unseen(store, ring[r].snap, k), now, failures)
  BY DEF RingsCatchUp, Awaited
<1> QED
  BY <1>1, <1>2, <1>3, Awaiting

-----------------------------------------------------------------------------
(* Relying parties and tokens.                                             *)

LEMMA PropagationTyped == Propagation \in Nat /\ Latency <= Propagation
<1>1. 0 \in 0..MaxFailures
  BY SMTT(30), DurationsAssumption
<1>2. (1 + MaxFailures) * Reload \in Nat /\ Propagation = 3 * Latency + (1 + MaxFailures) * Reload
  BY <1>1, Delays
<1> QED
  BY SMTT(30), <1>2, DurationsAssumption

LEMMA PartiesStep ==
    ASSUME TypeOK, TypeOK', Reserved, Deadlines, SnapshotsOld, RingsCatchUp, PartiesCurrent,
           [Next]_vars
    PROVE  PartiesCurrent'
<1> SUFFICES ASSUME NEW p \in Parties, NEW k \in Kids
             PROVE  /\ jwks'[p].on /\ store'[k].st # "none"
                         /\ store'[k].created + Propagation < jwks'[p].at =>
                         \/ k \in jwks'[p].keys
                         \/ store'[k].st = "retired" /\ store'[k].at + Grace <= jwks'[p].at
                    /\ k \in jwks'[p].keys =>
                         /\ jwks'[p].on
                         /\ store'[k].st = "retired" =>
                              \/ jwks'[p].at <= store'[k].at + Grace
                              \/ jwks'[p].at <= store'[k].at + Propagation
  BY DEF PartiesCurrent, Propagation
<1>0. /\ store \in Snapshot /\ store' \in Snapshot /\ now \in Nat /\ jwks[p].at \in Nat
      /\ Grown(store, store', now)
  BY TableGrows DEF TypeOK
<1>1. /\ store[k].st # "none" => store[k].created \in Nat
      /\ store'[k].st # "none" => store'[k].created \in Nat
      /\ store'[k].st = "retired" => store'[k].at \in Nat
      /\ store[k].st = "retired" => store[k].at \in Nat
  BY <1>0, RowTyped
<1>2. CASE jwks'[p] = jwks[p]
  <2>1. CASE ~jwks[p].on
    BY <1>2, <2>1 DEF PartiesCurrent
  <2>2. CASE jwks[p].on
    <3>1. jwks[p].at <= now
      BY <2>2 DEF Deadlines
    <3>2. ASSUME store'[k].st # "none", store'[k].created + Propagation < jwks[p].at
          PROVE  \/ k \in jwks[p].keys
                 \/ store'[k].st = "retired" /\ store'[k].at + Grace <= jwks[p].at
      <4>1. store[k].st # "none"
        <5> SUFFICES ASSUME store[k].st = "none" PROVE FALSE
          OBVIOUS
        <5>1. now <= store'[k].created + Latency
          BY <1>0, <3>2 DEF Grown
        <5> QED
          BY SMTT(30), <1>0, <1>1, <3>1, <3>2, <5>1, PropagationTyped, DurationsAssumption
      <4>2. store'[k].created = store[k].created /\ (store[k].st = "retired" => store'[k] = store[k])
        BY <1>0, <4>1 DEF Grown
      <4> QED
        BY <2>2, <3>2, <4>1, <4>2 DEF PartiesCurrent
    <3>3. ASSUME k \in jwks[p].keys, store'[k].st = "retired"
          PROVE  \/ jwks[p].at <= store'[k].at + Grace
                 \/ jwks[p].at <= store'[k].at + Propagation
      <4>1. CASE store[k].st = "retired"
        BY <1>0, <3>3, <4>1 DEF Grown, PartiesCurrent
      <4>2. CASE store[k].st # "retired"
        <5>1. now <= store'[k].at + Latency
          BY <1>0, <3>3, <4>2 DEF Grown
        <5> QED
          BY SMTT(30), <1>0, <1>1, <3>1, <3>3, <5>1, PropagationTyped, DurationsAssumption
      <4> QED
        BY <4>1, <4>2
    <3> QED
      BY <1>2, <2>2, <3>2, <3>3
  <2> QED
    BY <2>1, <2>2
<1>3. ASSUME NEW r \in Replicas, FetchJWKS(p, r)
      PROVE  /\ store' = store /\ jwks'[p].on /\ jwks'[p].at = now
             /\ store[k].st # "none" /\ store[k].created + Propagation < now =>
                  \/ k \in jwks'[p].keys
                  \/ store[k].st = "retired" /\ store[k].at + Grace <= now
             /\ k \in jwks'[p].keys /\ store[k].st = "retired" =>
                  now <= store[k].at + Grace \/ now <= store[k].at + Propagation
  <2>1. /\ store' = store /\ jwks'[p].on /\ jwks'[p].at = now /\ Serving(r)
        /\ jwks'[p].keys = Published(cache[r])
    BY <1>3 DEF FetchJWKS, TypeOK
  <2>2. cache[r] \in Snapshot /\ Shows(store, cache[r], k)
        /\ cache[r][k].st \in {"none", "active", "retired"}
    BY RowTyped DEF TypeOK, SnapshotsOld
  <2>3. ASSUME store[k].st # "none", store[k].created + Propagation < now
        PROVE  \/ k \in Published(cache[r])
               \/ store[k].st = "retired" /\ store[k].at + Grace <= now
    <3>1. cache[r][k].st # "none"
      <4> SUFFICES ASSUME cache[r][k].st = "none" PROVE FALSE
        OBVIOUS
      <4>1. store[k].created \in Unseen(store, cache[r], k)
        BY <2>3 DEF Unseen
      <4>2. now <= store[k].created + Propagation
        BY <2>1, <4>1, ChangesShow
      <4> QED
        BY SMTT(30), <1>0, <1>1, <2>3, <4>2, PropagationTyped
    <3>2. CASE cache[r][k].st = "active"
      BY <3>2 DEF Published, Active
    <3>3. CASE cache[r][k].st = "retired"
      <4>1. store[k] = cache[r][k]
        BY <2>2, <3>3 DEF Shows
      <4>2. now < store[k].at + Grace \/ store[k].at + Grace <= now
        BY SMTT(30), <1>0, <1>1, <3>3, <4>1, DurationsAssumption
      <4> QED
        BY <3>3, <4>1, <4>2 DEF Published
    <3> QED
      BY <2>2, <3>1, <3>2, <3>3
  <2>4. ASSUME k \in Published(cache[r]), store[k].st = "retired"
        PROVE  now <= store[k].at + Grace \/ now <= store[k].at + Propagation
    <3>1. CASE cache[r][k].st = "active"
      <4>1. store[k].at \in Unseen(store, cache[r], k)
        BY <2>4, <3>1 DEF Unseen
      <4> QED
        BY <2>1, <4>1, ChangesShow
    <3>2. CASE cache[r][k].st = "retired"
      <4>1. store[k] = cache[r][k] /\ now < cache[r][k].at + Grace
        BY <2>2, <2>4, <3>2 DEF Shows, Published, Active
      <4> QED
        BY SMTT(30), <1>0, <1>1, <2>4, <4>1, DurationsAssumption
    <3> QED
      BY <2>4, <3>1, <3>2 DEF Published, Active
  <2> QED
    BY <2>1, <2>3, <2>4
<1>4. ASSUME NEW q \in Parties, NEW r \in Replicas, FetchJWKS(q, r), q # p PROVE jwks'[p] = jwks[p]
  BY <1>4 DEF FetchJWKS, TypeOK
<1>5. jwks'[p] = jwks[p] \/ \E r \in Replicas : FetchJWKS(p, r)
  BY <1>4, ZenonT(30)
     DEF Next, vars, ReplicaStep, RetireStep, Boot, BootLoad, BootSave, WatchLoad, WatchSwap,
         WatchFail, Stop, Sign, Generate, GenerateSave, GenerateDies, RetireBegin, ListBegin,
         RetireLoad, RetireCheck, RetireCommit, RetireSwap, RetireDies, Tick
<1> QED
  BY <1>2, <1>3, <1>5

\* A token signed now is signed by a mature key if there is one.
LEMMA SignsMature ==
    ASSUME TypeOK, Deadlines, SnapshotsOld, RingsCatchUp, NEW r \in Replicas, Sign(r)
    PROVE  LET i == Signing(cache[r]) IN
           /\ i \in Kids /\ store[i].st # "none"
           /\ Configured /\ (\E k \in Kids : MatureAt(k, now)) =>
                store[i].created + PublishDelay <= now
<1> DEFINE i == Signing(cache[r])
<1>1. cache[r] \in Snapshot /\ Active(cache[r]) # {} /\ Serving(r) /\ now \in Nat
      /\ store \in Snapshot
  BY SMTT(30), DurationsAssumption DEF Sign, TypeOK
<1>2. i \in Active(cache[r]) /\ (Mature(cache[r]) # {} => i \in Mature(cache[r]))
  BY <1>1, SigningIsActive
<1>3. i \in Kids /\ store[i].st # "none" /\ store[i].created = cache[r][i].created
  BY <1>2 DEF Active, SnapshotsOld, Shows
<1>4. ASSUME Configured, NEW k \in Kids, MatureAt(k, now) PROVE k \in Mature(cache[r])
  <2>1. /\ store[k].created \in Nat /\ store[k].created + PublishDelay <= now
        /\ store[k].st # "none" /\ Shows(store, cache[r], k)
    BY <1>1, <1>4, RowTyped DEF MatureAt, SnapshotsOld
  <2>2. store[k].st # "retired"
    <3> SUFFICES ASSUME store[k].st = "retired" PROVE FALSE
      OBVIOUS
    <3>1. store[k].at <= now /\ now < store[k].at /\ store[k].at \in Nat
      BY <1>1, <1>4, RowTyped DEF MatureAt, Deadlines
    <3> QED
      BY SMTT(30), <1>1, <3>1
  <2>3. cache[r][k].st # "none"
    <3> SUFFICES ASSUME cache[r][k].st = "none" PROVE FALSE
      OBVIOUS
    <3>1. store[k].created \in Unseen(store, cache[r], k)
      BY <2>1 DEF Unseen
    <3>2. now <= store[k].created + Propagation
      BY <1>1, <3>1, ChangesShow
    <3>3. PublishDelay > Propagation + Refresh
      BY <1>4 DEF Configured
    <3> QED
      BY SMTT(30), <1>1, <2>1, <3>2, <3>3, PropagationTyped, DurationsAssumption
  <2>4. cache[r][k].st = "active" /\ cache[r][k].created = store[k].created
    <3>1. cache[r][k].st \in {"none", "active", "retired"}
      BY <1>1, RowTyped
    <3> QED
      BY <2>1, <2>2, <2>3, <3>1 DEF Shows
  <2> QED
    BY <2>1, <2>4 DEF Mature, Active
<1>5. i \in Mature(cache[r]) => cache[r][i].created + PublishDelay <= now
  BY DEF Mature
<1> HIDE DEF i
<1> QED
  BY <1>2, <1>3, <1>4, <1>5 DEF i

LEMMA SignedStep ==
    ASSUME TypeOK, TypeOK', Reserved, Deadlines, SnapshotsOld, RingsCatchUp, SignedMature,
           [Next]_vars
    PROVE  SignedMature'
<1> SUFFICES ASSUME NEW m \in minted'
             PROVE  /\ m.iat <= now' /\ store'[m.kid].st # "none"
                    /\ Configured /\ (\E k \in Kids : MatureAt(k, m.iat)') =>
                         store'[m.kid].created + PublishDelay <= m.iat
  BY DEF SignedMature, Configured, Propagation
<1>0. /\ store \in Snapshot /\ store' \in Snapshot /\ now \in Nat /\ now' \in Nat /\ now <= now'
      /\ Grown(store, store', now) /\ m.kid \in Kids /\ m.iat \in Nat
  BY TableGrows DEF TypeOK
<1>1. CASE m \in minted
  <2>1. m.iat <= now /\ store[m.kid].st # "none"
    BY <1>1 DEF SignedMature
  <2>2. store'[m.kid].st # "none" /\ store'[m.kid].created = store[m.kid].created
    BY <1>0, <2>1 DEF Grown
  <2>3. ASSUME Configured, NEW k \in Kids, MatureAt(k, m.iat)' PROVE MatureAt(k, m.iat)
    <3>1. /\ store'[k].st # "none" /\ store'[k].created + PublishDelay <= m.iat
          /\ store'[k].st = "retired" => m.iat < store'[k].at
      BY <2>3 DEF MatureAt
    <3>2. store'[k].created \in Nat
      BY <1>0, <3>1, RowTyped
    <3>3. store[k].st # "none"
      <4> SUFFICES ASSUME store[k].st = "none" PROVE FALSE
        OBVIOUS
      <4>1. now <= store'[k].created + Latency
        BY <1>0, <3>1 DEF Grown
      <4>2. PublishDelay > Propagation + Refresh
        BY <2>3 DEF Configured
      <4> QED
        BY SMTT(30), <1>0, <2>1, <3>1, <3>2, <4>1, <4>2, PropagationTyped, DurationsAssumption
    <3>4. store'[k].created = store[k].created /\ (store[k].st = "retired" => store'[k] = store[k])
      BY <1>0, <3>3 DEF Grown
    <3> QED
      BY <3>1, <3>3, <3>4 DEF MatureAt
  <2>4. m.iat <= now'
    BY SMTT(30), <1>0, <2>1
  <2> QED
    BY <1>1, <2>2, <2>3, <2>4 DEF SignedMature
<1>2. ASSUME NEW r \in Replicas, Sign(r), m \notin minted
      PROVE  /\ m.kid = Signing(cache[r]) /\ m.iat = now /\ store' = store /\ now' = now
  BY SMTT(30), <1>2 DEF Sign
<1>3. ASSUME NEW r \in Replicas, Sign(r), m \notin minted
      PROVE  /\ m.iat <= now' /\ store'[m.kid].st # "none"
             /\ Configured /\ (\E k \in Kids : MatureAt(k, m.iat)') =>
                  store'[m.kid].created + PublishDelay <= m.iat
  <2>1. m.kid = Signing(cache[r]) /\ m.iat = now /\ store' = store /\ now' = now
    BY <1>2, <1>3
  <2>2. \A k \in Kids : MatureAt(k, m.iat)' => MatureAt(k, now)
    BY <2>1 DEF MatureAt
  <2> QED
    BY <1>0, <1>3, <2>1, <2>2, SignsMature
<1>4. minted' \subseteq minted \/ \E r \in Replicas : Sign(r)
  <2>1. CASE minted' = minted
    BY <2>1
  <2>2. CASE Tick
    BY <2>2 DEF Tick
  <2> QED
    BY <2>1, <2>2, ZenonT(30)
       DEF Next, vars, ReplicaStep, RetireStep, Boot, BootLoad, BootSave, WatchLoad, WatchSwap,
           WatchFail, Stop, FetchJWKS, Generate, GenerateSave, GenerateDies, RetireBegin, ListBegin,
           RetireLoad, RetireCheck, RetireCommit, RetireSwap, RetireDies
<1> QED
  BY <1>1, <1>3, <1>4

-----------------------------------------------------------------------------
(* The theorems.                                                           *)

LEMMA TimeInit == Init => TimeInv
<1> SUFFICES ASSUME Init PROVE TimeInv
  OBVIOUS
<1>1. /\ now = 0 /\ gen = Idle /\ minted = {} /\ now \in Nat
      /\ \A r \in Replicas : ring[r].pc = "down" /\ cache[r] = Empty
      /\ \A o \in Operators : op[o] = Idle
      /\ \A p \in Parties : ~jwks[p].on /\ jwks[p].keys = {}
      /\ \A k \in Kids : store[k].st = "none" /\ Empty[k].st = "none"
  BY DEF Init, Down, Empty
<1>2. Idle.pc = "idle"
  BY DEF Idle
<1>3. Reserved /\ Deadlines
  BY <1>1 DEF Reserved, Deadlines, Serving
<1>4. SnapshotsOld
  BY <1>1, <1>2 DEF SnapshotsOld, Shows, Serving
<1>5. RingsCatchUp /\ PartiesCurrent /\ SignedMature
  BY <1>1 DEF RingsCatchUp, PartiesCurrent, SignedMature, Serving
<1> QED
  BY <1>3, <1>4, <1>5 DEF TimeInv

\* Every stamp the keyring keeps is in the past, every snapshot in flight or
\* installed is one the table had, every change shows on every replica within
\* Propagation, and every token is signed by a mature key when there is one:
\* TimeInv is an invariant for every set of replicas, operators, relying
\* parties and keys and for every setting of the durations.
THEOREM TimeInvariance == Spec => []TimeInv
<1>1. IInv /\ IInv' /\ TimeInv /\ [Next]_vars => TimeInv'
  <2> SUFFICES ASSUME IInv, IInv', TimeInv, [Next]_vars PROVE TimeInv'
    OBVIOUS
  <2>1. TypeOK /\ TypeOK' /\ BootsApart
    BY DEF IInv
  <2>2. Reserved /\ Deadlines /\ SnapshotsOld /\ RingsCatchUp /\ PartiesCurrent /\ SignedMature
    BY DEF TimeInv
  <2>3. Reserved'
    BY <2>1, <2>2, ReservedStep
  <2>4. Deadlines'
    BY <2>1, <2>2, DeadlinesStep
  <2>5. SnapshotsOld'
    BY <2>1, <2>2, SnapshotsStep
  <2>6. RingsCatchUp'
    BY <2>1, <2>2, <2>4, CatchUpStep
  <2>7. PartiesCurrent'
    BY <2>1, <2>2, PartiesStep
  <2>8. SignedMature'
    BY <2>1, <2>2, SignedStep
  <2> QED
    BY <2>3, <2>4, <2>5, <2>6, <2>7, <2>8 DEF TimeInv
<1> QED
  BY <1>1, TimeInit, Invariance, PTL DEF Spec

\* A key is published PublishDelay before it signs so that every relying party
\* has it by then: with PublishDelay longer than propagation and refresh, and
\* a grace no shorter than a token's life, a party that refreshes its key set
\* on time accepts every live token, whatever was rotated or retired meanwhile.
THEOREM TokensAccepted == Spec => []MintedTokensAccepted
<1>1. IInv /\ TimeInv => MintedTokensAccepted
  <2> SUFFICES ASSUME IInv, TimeInv, Configured, NEW m \in minted, NEW p \in Parties,
                      jwks[p].on, \E k \in Kids : MatureAt(k, m.iat), now < m.iat + TokenTTL,
                      store[m.kid].st = "retired" => m.iat <= store[m.kid].at
               PROVE  m.kid \in jwks[p].keys
    BY DEF MintedTokensAccepted
  <2>1. /\ store \in Snapshot /\ now \in Nat /\ m.kid \in Kids /\ m.iat \in Nat
        /\ jwks[p].at \in Nat
    BY SMTT(30) DEF IInv, TypeOK
  <2>2. /\ store[m.kid].st # "none" /\ m.iat <= now
        /\ store[m.kid].created + PublishDelay <= m.iat
    BY DEF TimeInv, SignedMature
  <2>3. jwks[p].at <= now /\ now <= jwks[p].at + Refresh
    BY DEF TimeInv, Deadlines
  <2>4. /\ store[m.kid].created \in Nat
        /\ store[m.kid].st = "retired" => store[m.kid].at \in Nat
    BY <2>1, <2>2, RowTyped
  <2>5. PublishDelay > Propagation + Refresh /\ TokenTTL <= Grace
    BY DEF Configured
  <2>6. store[m.kid].created + Propagation < jwks[p].at
    BY SMTT(30), <2>1, <2>2, <2>3, <2>4, <2>5, PropagationTyped, DurationsAssumption
  <2>7. ~(store[m.kid].st = "retired" /\ store[m.kid].at + Grace <= jwks[p].at)
    BY SMTT(30), <2>1, <2>3, <2>4, <2>5, DurationsAssumption
  <2> QED
    BY <2>1, <2>2, <2>6, <2>7 DEF TimeInv, PartiesCurrent
<1> QED
  BY <1>1, Invariance, TimeInvariance, PTL

\* Retirement is a kill switch: past the grace, or the propagation delay if it
\* is longer, and a refresh, no relying party verifies by a retired key.
THEOREM RetirementKills == Spec => []RetiredKeyLeavesJWKS
<1>1. IInv /\ TimeInv => RetiredKeyLeavesJWKS
  <2> SUFFICES ASSUME IInv, TimeInv, NEW k \in Kids, NEW p \in Parties,
                      store[k].st = "retired", k \in jwks[p].keys,
                      store[k].at + (IF Grace < Propagation THEN Propagation ELSE Grace) + Refresh
                        < now
               PROVE  FALSE
    BY DEF RetiredKeyLeavesJWKS
  <2>1. store \in Snapshot /\ now \in Nat /\ jwks[p].at \in Nat
    BY SMTT(30) DEF IInv, TypeOK
  <2>2. store[k].at \in Nat
    BY <2>1, RowTyped
  <2>3. /\ jwks[p].on
        /\ jwks[p].at <= store[k].at + Grace \/ jwks[p].at <= store[k].at + Propagation
    BY DEF TimeInv, PartiesCurrent
  <2>4. now <= jwks[p].at + Refresh
    BY <2>3 DEF TimeInv, Deadlines
  <2> QED
    BY SMTT(30), <2>1, <2>2, <2>3, <2>4, PropagationTyped, DurationsAssumption
<1> QED
  BY <1>1, Invariance, TimeInvariance, PTL
=============================================================================
