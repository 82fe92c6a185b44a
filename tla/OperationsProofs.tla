-------------------------- MODULE OperationsProofs --------------------------
(***************************************************************************)
(* The processes beside the requests.                                      *)
(*                                                                         *)
(* CliTokens, for any number of `token` and `login` commands, sessions and *)
(* failures: each failure costs one session at most, and what is kept or   *)
(* handed out is accepted.                                                 *)
(*                                                                         *)
(* Deployment, for every set of releases however their migrations were     *)
(* merged, any number of runs and servers, crashes and outages: a Postgres *)
(* schema is that of whole releases, and a server that listens has its     *)
(* schema and its keys.                                                    *)
(*                                                                         *)
(* Discovery, for any number of callbacks, any timeouts and any backoffs:  *)
(* the provider is dialled by one callback at a time, and not before the   *)
(* window of the last failure has passed, counted from where that dial     *)
(* began.                                                                  *)
(***************************************************************************)
EXTENDS CliTokens, FiniteSetTheorems, WellFoundedInduction, TLAPS

\* Most leaves are first-order and Zenon's; the others do arithmetic.
USE ZenonT(30), SMTT(30)

-----------------------------------------------------------------------------
(* CliTokens.                                                              *)

LEMMA Constants ==
    ASSUME WellFormed
    PROVE  /\ AccessTTL \in Nat /\ Skew \in Nat /\ Latency \in Nat /\ LockTimeout \in Nat
           /\ MaxTime \in Nat /\ MaxFailures \in Nat /\ Latency <= Skew /\ Latency < AccessTTL
           /\ Nobody \notin Procs /\ NoFamily \notin Families
BY DEF WellFormed

LEMMA IdleTyped ==
    /\ NoFile \in Token /\ NoFile.family = NoFamily
    /\ Idle \in Command /\ Idle.pc = "idle" /\ Idle.tok = NoFile
<1>1. NoFile \in Token /\ NoFile.family = NoFamily
  BY DEF NoFile, Token
<1> QED
  BY <1>1 DEF Idle, Command

\* What a command does to its own record, and its record only.
LEMMA CommandMoves ==
    ASSUME TypeOK, NEW p \in Procs, NEW v \in Command, Goes(p, v)
    PROVE  /\ proc' \in [Procs -> Command] /\ proc'[p] = v
           /\ \A q \in Procs : q # p => proc'[q] = proc[q]
BY DEF TypeOK, Goes

-----------------------------------------------------------------------------
(* What the server's steps do to a session's token.                        *)

LEMMA ContractTyped ==
    ASSUME TypeOK, NEW f \in Families, NEW t \in Tokens,
           Server!Grant(f, t) \/ Server!Spend(f, t) \/ Server!End({f})
    PROVE  current' \subseteq Families \X Tokens /\ spent' \subseteq Tokens /\ ended' \subseteq Families
<1>1. current \subseteq Families \X Tokens /\ spent \subseteq Tokens /\ ended \subseteq Families
  BY DEF TypeOK
<1>2. <<f, t>> \in Families \X Tokens
  BY SMTT(30)
<1>3. CASE Server!Grant(f, t)
  BY <1>1, <1>2, <1>3 DEF Server!Grant
<1>4. CASE Server!Spend(f, t)
  BY <1>1, <1>4 DEF Server!Spend
<1>5. CASE Server!End({f})
  BY <1>1, <1>5 DEF Server!End, Server!Without, Server!TokensOf
<1> QED
  BY <1>3, <1>4, <1>5

LEMMA SpendKeeps ==
    ASSUME NEW g, NEW u, Server!Spend(g, u)
    PROVE  ended' = ended /\ \A f, t : f # g /\ <<f, t>> \in current => <<f, t>> \in current'
BY SMTT(30) DEF Server!Spend

LEMMA EndKeeps ==
    ASSUME NEW g, Server!End({g})
    PROVE  /\ ended' = ended \cup {g}
           /\ \A f, t : f # g /\ <<f, t>> \in current => <<f, t>> \in current'
BY SMTT(30) DEF Server!End, Server!Without

LEMMA GrantKeeps ==
    ASSUME NEW g, NEW u, Server!Grant(g, u)
    PROVE  ended' = ended /\ g \notin ended /\ current \subseteq current' /\ <<g, u>> \in current'
BY DEF Server!Grant

LEMMA DrawnToken == Drawn \subseteq Tokens
BY DEF Drawn, Unused

-----------------------------------------------------------------------------
(* The steps.                                                              *)

\* The lock changes hands with the renewing.
LEMMA LockKept ==
    ASSUME WellFormed, IInv, NEW p \in Procs, NEW v \in Command, Goes(p, v),
           v.pc \in Renewing <=> lock' = p,
           lock' = lock \/ (lock = Nobody /\ lock' = p) \/ (lock = p /\ lock' = Nobody),
           v.pc \in Renewing \cup {"persist"} => v.tok.family \in Families /\ v.tok.token \in Tokens,
           file' = file \/ (file'.family \in Families /\ file'.token \in Tokens),
           \A o \in orphans' : o \in orphans \/ (o.family \in Families /\ o.token \in Tokens)
    PROVE  RenewsLocked'
<1>0. TypeOK /\ RenewsLocked
  BY DEF IInv
<1>1. /\ proc' \in [Procs -> Command] /\ proc'[p] = v
      /\ \A q \in Procs : q # p => proc'[q] = proc[q]
  BY <1>0, CommandMoves
<1>2. ASSUME NEW q \in Procs PROVE proc'[q].pc \in Renewing <=> lock' = q
  <2>1. CASE q = p
    BY <1>1, <2>1
  <2>2. CASE q # p
    <3>1. lock' = q <=> lock = q
      BY <2>2, Constants
    <3> QED
      BY <1>0, <1>1, <2>2, <3>1 DEF RenewsLocked
  <2> QED
    BY <2>1, <2>2
<1>3. ASSUME NEW q \in Procs, proc'[q].pc \in Renewing \cup {"persist"}
      PROVE  proc'[q].tok.family \in Families /\ proc'[q].tok.token \in Tokens
  BY <1>0, <1>1, <1>3 DEF RenewsLocked
<1>4. file' # NoFile => file'.family \in Families /\ file'.token \in Tokens
  BY <1>0 DEF RenewsLocked
<1>5. \A o \in orphans' : o.family \in Families /\ o.token \in Tokens
  BY <1>0 DEF RenewsLocked
<1> QED
  BY <1>2, <1>3, <1>4, <1>5 DEF RenewsLocked

\* A session that is only now read from the file, or written to it, is not that
\* of a login yet to be saved.
LEMMA ApartKept ==
    ASSUME WellFormed, IInv, NEW p \in Procs, NEW v \in Command, Goes(p, v), v.pc # "persist",
           v.tok.family \in {NoFamily, file.family, proc[p].tok.family},
           file' = file \/ file' = proc[p].tok
    PROVE  LoginsApart'
<1>0. TypeOK /\ RenewsLocked /\ LoginsApart
  BY DEF IInv
<1>1. proc'[p] = v /\ \A q \in Procs : q # p => proc'[q] = proc[q]
  BY <1>0, CommandMoves
<1> SUFFICES ASSUME NEW q \in Procs, proc'[q].pc = "persist"
             PROVE  /\ file'.family # proc'[q].tok.family
                    /\ \A r \in Procs \ {q} : proc'[r].tok.family # proc'[q].tok.family
  BY DEF LoginsApart
<1>2. q # p /\ proc'[q] = proc[q] /\ proc[q].pc = "persist"
  BY <1>1
<1>3. /\ proc[q].tok.family \in Families /\ file.family # proc[q].tok.family
      /\ \A r \in Procs \ {q} : proc[r].tok.family # proc[q].tok.family
  BY <1>0, <1>2 DEF RenewsLocked, LoginsApart
<1>4. v.tok.family # proc[q].tok.family /\ file'.family # proc[q].tok.family
  BY <1>2, <1>3, Constants
<1> QED
  BY <1>1, <1>2, <1>3, <1>4

\* The dates of the record a command moves to, and of the file.
LEMMA DatesStay ==
    ASSUME IInv, NEW p \in Procs, NEW v \in Command, Goes(p, v), now' = now, Dated(file'),
           v.pc \in {"save", "persist"} => Dated(v.tok),
           v.pc = "answer" => now + AccessTTL <= v.tok.valid + Latency,
           v.pc \in {"save", "print"} => now < v.tok.valid
    PROVE  DatesKept'
<1>0. TypeOK /\ DatesKept
  BY DEF IInv
<1>1. proc'[p] = v /\ \A q \in Procs : q # p => proc'[q] = proc[q]
  BY <1>0, CommandMoves
<1> SUFFICES ASSUME NEW q \in Procs
             PROVE  /\ proc'[q].pc \in {"save", "persist"} => Dated(proc'[q].tok)
                    /\ proc'[q].pc = "answer" => now + AccessTTL <= proc'[q].tok.valid + Latency
                    /\ proc'[q].pc \in {"save", "print"} => now < proc'[q].tok.valid
  BY DEF DatesKept, Dated
<1>2. CASE q = p
  BY <1>1, <1>2
<1>3. CASE q # p
  BY <1>0, <1>1, <1>3 DEF DatesKept
<1> QED
  BY <1>2, <1>3

\* Of a session outside M: its token stays, its renewal goes on, and what the
\* command comes to hold of it is its token.
HoldsOrder(M, p, v) ==
    \A f \in Families \ M :
        /\ file'.family = f => \/ <<f, file'.token>> \in current'
                               \/ v.pc \in {"rotate", "answer", "save"} /\ v.tok.family = f
                               \/ /\ file' = file
                                  /\ \A t : <<f, t>> \in current => <<f, t>> \in current'
                                  /\ ~ /\ proc[p].pc \in {"rotate", "answer", "save"}
                                       /\ proc[p].tok.family = f
        /\ v.pc \in {"post", "answer", "save", "persist"} /\ v.tok.family = f =>
             <<f, v.tok.token>> \in current'
        /\ \A q \in Procs : /\ q # p /\ proc[q].pc \in {"post", "answer", "save", "persist"}
                            /\ proc[q].tok.family = f /\ <<f, proc[q].tok.token>> \in current
                            => <<f, proc[q].tok.token>> \in current'

LEMMA OrderKept ==
    ASSUME TypeOK, NEW L, InOrder(L), NEW M, L \subseteq M, NEW p \in Procs, NEW v \in Command, Goes(p, v),
           ended' \subseteq ended \cup M, HoldsOrder(M, p, v),
           \A o \in orphans' : o \in orphans \/ o.family \in M
    PROVE  InOrder(M)'
<1>1. proc'[p] = v /\ \A q \in Procs : q # p => proc'[q] = proc[q]
  BY CommandMoves
<1> SUFFICES ASSUME NEW f \in Families \ M
             PROVE  /\ file'.family = f => \/ <<f, file'.token>> \in current'
                                           \/ \E q \in Procs : /\ proc'[q].pc \in {"rotate", "answer", "save"}
                                                               /\ proc'[q].tok.family = f
                    /\ \A q \in Procs : /\ proc'[q].pc \in {"post", "answer", "save", "persist"}
                                        /\ proc'[q].tok.family = f
                                        => <<f, proc'[q].tok.token>> \in current'
                    /\ \A o \in orphans' : o.family # f
                    /\ f \notin ended'
  BY DEF InOrder
<1>2. /\ file.family = f => \/ <<f, file.token>> \in current
                            \/ \E q \in Procs : /\ proc[q].pc \in {"rotate", "answer", "save"}
                                                /\ proc[q].tok.family = f
      /\ \A q \in Procs : /\ proc[q].pc \in {"post", "answer", "save", "persist"} /\ proc[q].tok.family = f
                          => <<f, proc[q].tok.token>> \in current
      /\ \A o \in orphans : o.family # f
      /\ f \notin ended
  BY DEF InOrder
<1>3. (\A o \in orphans' : o.family # f) /\ f \notin ended'
  BY <1>2
<1>4. ASSUME NEW q \in Procs, proc'[q].pc \in {"post", "answer", "save", "persist"}, proc'[q].tok.family = f
      PROVE  <<f, proc'[q].tok.token>> \in current'
  <2>1. CASE q = p
    BY <1>1, <1>4, <2>1 DEF HoldsOrder
  <2>2. CASE q # p
    BY <1>1, <1>2, <1>4, <2>2 DEF HoldsOrder
  <2> QED
    BY <2>1, <2>2
<1>5. ASSUME file'.family = f
      PROVE  \/ <<f, file'.token>> \in current'
             \/ \E q \in Procs : /\ proc'[q].pc \in {"rotate", "answer", "save"}
                                 /\ proc'[q].tok.family = f
  <2>1. CASE v.pc \in {"rotate", "answer", "save"} /\ v.tok.family = f
    BY <1>1, <2>1
  <2>2. CASE /\ file' = file /\ \A t : <<f, t>> \in current => <<f, t>> \in current'
             /\ ~(proc[p].pc \in {"rotate", "answer", "save"} /\ proc[p].tok.family = f)
    <3>1. CASE <<f, file.token>> \in current
      BY <2>2, <3>1
    <3>2. ASSUME NEW q \in Procs, proc[q].pc \in {"rotate", "answer", "save"}, proc[q].tok.family = f
          PROVE  proc'[q] = proc[q]
      BY <1>1, <2>2, <3>2
    <3> QED
      BY <1>2, <1>5, <2>2, <3>1, <3>2
  <2> QED
    BY <1>5, <2>1, <2>2 DEF HoldsOrder
<1> QED
  BY <1>3, <1>4, <1>5

\* So a step without failure counts none.
LEMMA NoFailure ==
    ASSUME IInv, NEW p \in Procs, NEW v \in Command, Goes(p, v), failures' = failures,
           orphans' = orphans, ASSUME NEW L, InOrder(L) PROVE ended' \subseteq ended \cup L /\ HoldsOrder(L, p, v)
    PROVE  FailuresCount'
<1>1. PICK L \in SUBSET (Families \cup {NoFamily}) :
           IsFiniteSet(L) /\ Cardinality(L) <= failures /\ InOrder(L)
  BY DEF IInv, FailuresCount
<1>2. InOrder(L)'
  BY <1>1, OrderKept DEF IInv
<1> QED
  BY <1>1, <1>2 DEF FailuresCount

\* A step that touches neither server, file nor requests astray, after which the
\* command renews nothing.
LEMMA QuietStep ==
    ASSUME WellFormed, IInv, NEW p \in Procs, NEW v \in Command, Goes(p, v),
           v.pc \in {"idle", "lock", "print"}, v.tok.family \in {NoFamily, file.family},
           v.pc = "print" => now < v.tok.valid,
           \/ proc[p].pc \in {"idle", "lock", "print"} /\ lock' = lock
           \/ proc[p].pc = "rotate" /\ proc[p].tok.family \in ended /\ lock' = Released(p),
           UNCHANGED <<now, file, contractVars, orphans, failures>>
    PROVE  IInv'
<1>0. TypeOK /\ RenewsLocked /\ DatesKept /\ UNCHANGED <<current, spent, ended>>
  BY DEF IInv, contractVars
<1>1. proc' \in [Procs -> Command]
  BY <1>0, CommandMoves
<1>2. lock' # p /\ (lock' = lock \/ (lock = p /\ lock' = Nobody))
  BY <1>0, Constants DEF Released, RenewsLocked, Renewing
<1>3. TypeOK'
  BY <1>0, <1>1, <1>2 DEF TypeOK
<1>4. RenewsLocked'
  <2>1. v.pc \notin Renewing \cup {"persist"}
    BY DEF Renewing
  <2> QED
    BY <1>2, <2>1, LockKept
<1>5. LoginsApart'
  BY ApartKept
<1>6. FailuresCount'
  <2>1. ASSUME NEW L, InOrder(L) PROVE ended' \subseteq ended \cup L /\ HoldsOrder(L, p, v)
    <3>1. ASSUME NEW f \in Families \ L
          PROVE  ~(proc[p].pc \in {"rotate", "answer", "save"} /\ proc[p].tok.family = f)
      BY <2>1, <3>1 DEF InOrder
    <3> QED
      BY <1>0, <3>1 DEF HoldsOrder
  <2> QED
    BY <2>1, NoFailure
<1>7. DatesKept'
  BY <1>0, DatesStay DEF DatesKept
<1> QED
  BY <1>3, <1>4, <1>5, <1>6, <1>7 DEF IInv

\* A fresh token of the file is still accepted.
LEMMA FreshAccepted ==
    ASSUME WellFormed, IInv, Fresh(file)
    PROVE  now < file.valid
<1>1. now \in Nat /\ file.expires \in Nat /\ file.valid \in Nat
  BY SMTT(30), Constants DEF IInv, TypeOK, Token
<1>2. file.expires <= file.valid + Latency /\ now + Skew < file.expires
  BY DEF IInv, DatesKept, Dated, Fresh
<1> QED
  BY SMTT(30), <1>1, <1>2, Constants

\* The file is read by `token`, before the lock or under it.
LEMMA ReadStep ==
    ASSUME WellFormed, IInv, NEW p \in Procs, Load(p) \/ Acquire(p)
    PROVE  IInv'
<1>0. TypeOK /\ file \in Token /\ now \in Nat /\ RenewsLocked /\ DatesKept
  BY SMTT(30), Constants DEF IInv, TypeOK
<1>1. /\ proc[p].pc \in {"idle", "lock"} /\ UNCHANGED <<now, file, contractVars, orphans, failures>>
  BY DEF Load, Acquire
<1>2. CASE Fresh(file) /\ lock' = lock /\ Goes(p, [Idle EXCEPT !.pc = "print", !.tok = file])
  <2> DEFINE v == [Idle EXCEPT !.pc = "print", !.tok = file]
  <2>1. v \in Command /\ v.pc = "print" /\ v.tok = file
    BY <1>0, IdleTyped DEF Command
  <2>2. now < file.valid
    BY <1>2, FreshAccepted
  <2> HIDE DEF v
  <2> QED
    BY <1>1, <1>2, <2>1, <2>2, QuietStep DEF v
<1>3. CASE lock' = lock /\ Goes(p, [Idle EXCEPT !.pc = "lock", !.deadline = now + LockTimeout])
  <2> DEFINE v == [Idle EXCEPT !.pc = "lock", !.deadline = now + LockTimeout]
  <2>1. now + LockTimeout \in Nat
    BY SMTT(30), <1>0, Constants
  <2>2. v \in Command /\ v.pc = "lock" /\ v.tok.family = NoFamily
    BY <2>1, IdleTyped DEF Command
  <2> HIDE DEF v
  <2> QED
    BY <1>1, <1>3, <2>2, QuietStep DEF v
<1>4. CASE lock' = lock /\ Goes(p, Idle)
  BY <1>1, <1>4, IdleTyped, QuietStep
<1>5. CASE /\ lock = Nobody /\ lock' = p /\ file.token # NoToken
           /\ Goes(p, [Idle EXCEPT !.pc = "post", !.tok = file])
  <2> DEFINE v == [Idle EXCEPT !.pc = "post", !.tok = file]
  <2>1. v \in Command /\ v.pc = "post" /\ v.tok = file
    BY <1>0, IdleTyped DEF Command
  <2>2. Goes(p, v)
    BY <1>5
  <2> HIDE DEF v
  <2>3. file.family \in Families /\ file.token \in Tokens
    <3>1. file # NoFile
      BY SMTT(30), <1>5 DEF NoFile
    <3> QED
      BY <1>0, <3>1 DEF RenewsLocked
  <2>4. TypeOK'
    <3>1. proc' \in [Procs -> Command]
      BY <1>0, <2>1, <2>2, CommandMoves
    <3> QED
      BY <1>0, <1>1, <1>5, <3>1 DEF TypeOK, contractVars
  <2>5. RenewsLocked'
    BY <1>1, <1>5, <2>1, <2>2, <2>3, LockKept DEF Renewing
  <2>6. LoginsApart'
    BY <1>1, <2>1, <2>2, ApartKept
  <2>7. FailuresCount'
    <3>1. ASSUME NEW L, InOrder(L) PROVE ended' \subseteq ended \cup L /\ HoldsOrder(L, p, v)
      <4>1. \A q \in Procs : proc[q].pc \notin {"rotate", "answer", "save"}
        BY <1>0, <1>5, Constants DEF RenewsLocked, Renewing
      <4>2. \A f \in Families \ L : file.family = f => <<f, file.token>> \in current
        BY <3>1, <4>1 DEF InOrder
      <4> QED
        BY <1>1, <2>1, <4>2 DEF HoldsOrder, contractVars
    <3> QED
      BY <1>1, <2>1, <2>2, <3>1, NoFailure
  <2>8. DatesKept'
    BY <1>0, <1>1, <2>1, <2>2, DatesStay DEF DatesKept
  <2> QED
    BY <2>4, <2>5, <2>6, <2>7, <2>8 DEF IInv
<1> QED
  BY <1>2, <1>3, <1>4, <1>5 DEF Load, Acquire, LockFree

\* A command that renews alone holds its session: no login and nobody else does.
LEMMA RenewsAlone ==
    ASSUME WellFormed, IInv, NEW p \in Procs, proc[p].pc \in Renewing
    PROVE  /\ lock = p /\ proc[p].tok.family \in Families /\ proc[p].tok.token \in Tokens
           /\ \A q \in Procs : q # p => proc[q].pc \notin Renewing
           /\ \A q \in Procs : q # p /\ proc[q].pc = "persist" =>
                                 proc[q].tok.family # proc[p].tok.family
<1>1. /\ lock = p /\ proc[p].tok.family \in Families /\ proc[p].tok.token \in Tokens
      /\ \A q \in Procs : q # p => proc[q].pc \notin Renewing
  BY DEF IInv, RenewsLocked
<1>2. \A q \in Procs : q # p /\ proc[q].pc = "persist" => proc[q].tok.family # proc[p].tok.family
  BY DEF IInv, LoginsApart
<1> QED
  BY <1>1, <1>2

\* The grant at the server: accepted, or a replay.
LEMMA PresentStep ==
    ASSUME WellFormed, IInv, NEW p \in Procs, Present(p) \/ Rejected(p)
    PROVE  IInv'
<1> DEFINE g == proc[p].tok.family
           u == proc[p].tok.token
<1>0. TypeOK /\ RenewsLocked /\ DatesKept /\ proc[p] \in Command
  BY DEF IInv, TypeOK
<1>1. proc[p].pc = "post" /\ UNCHANGED <<now, file, orphans, failures>>
  BY DEF Present, Rejected
<1>2. /\ lock = p /\ g \in Families /\ u \in Tokens
      /\ \A q \in Procs : q # p => proc[q].pc \notin Renewing
      /\ \A q \in Procs : q # p /\ proc[q].pc = "persist" => proc[q].tok.family # g
  BY <1>1, RenewsAlone DEF Renewing
<1>3. CASE Present(p)
  <2> DEFINE v == [proc[p] EXCEPT !.pc = "rotate"]
  <2>1. v \in Command /\ v.pc = "rotate" /\ v.tok = proc[p].tok
    BY <1>0 DEF Command
  <2>2. Goes(p, v) /\ Server!Spend(g, u) /\ lock' = lock
    BY <1>3 DEF Present
  <2> HIDE DEF v
  <2>3. TypeOK'
    <3>1. proc' \in [Procs -> Command]
      BY <1>0, <2>1, <2>2, CommandMoves
    <3> QED
      BY <1>0, <1>1, <1>2, <2>2, <3>1, ContractTyped DEF TypeOK
  <2>4. RenewsLocked'
    BY <1>1, <1>2, <2>1, <2>2, LockKept DEF Renewing
  <2>5. LoginsApart'
    BY <1>1, <2>1, <2>2, ApartKept
  <2>6. FailuresCount'
    <3>1. ended' = ended /\ \A f, t : f # g /\ <<f, t>> \in current => <<f, t>> \in current'
      BY <2>2, SpendKeeps
    <3>2. ASSUME NEW L, InOrder(L) PROVE ended' \subseteq ended \cup L /\ HoldsOrder(L, p, v)
      <4> SUFFICES ASSUME NEW f \in Families \ L
                   PROVE  /\ file.family = f => \/ v.tok.family = f
                                                \/ \A t : <<f, t>> \in current => <<f, t>> \in current'
                          /\ \A q \in Procs : /\ q # p /\ proc[q].pc \in {"post", "answer", "save", "persist"}
                                              /\ proc[q].tok.family = f /\ <<f, proc[q].tok.token>> \in current
                                              => <<f, proc[q].tok.token>> \in current'
        BY <1>1, <2>1, <3>1 DEF HoldsOrder
      <4> QED
        BY <1>2, <2>1, <3>1 DEF Renewing
    <3> QED
      BY <1>1, <2>1, <2>2, <3>2, NoFailure
  <2>7. DatesKept'
    BY <1>0, <1>1, <2>1, <2>2, DatesStay DEF DatesKept
  <2> QED
    BY <2>3, <2>4, <2>5, <2>6, <2>7 DEF IInv
<1>4. CASE Rejected(p)
  <2>1. /\ Goes(p, Idle) /\ Server!End({g}) /\ <<g, u>> \notin current /\ lock' = Nobody
        /\ Idle \in Command /\ Idle.pc = "idle" /\ Idle.tok.family = NoFamily
    BY <1>2, <1>4, IdleTyped DEF Rejected, Released
  <2>3. TypeOK'
    <3>1. proc' \in [Procs -> Command]
      BY <1>0, <2>1, CommandMoves
    <3> QED
      BY <1>0, <1>1, <1>2, <2>1, <3>1, ContractTyped DEF TypeOK
  <2>4. RenewsLocked'
    BY <1>1, <1>2, <2>1, LockKept, Constants DEF Renewing
  <2>5. LoginsApart'
    BY <1>1, <2>1, ApartKept
  <2>6. FailuresCount'
    <3>1. ended' = ended \cup {g} /\ \A f, t : f # g /\ <<f, t>> \in current => <<f, t>> \in current'
      BY <2>1, EndKeeps
    <3>2. ASSUME NEW L, InOrder(L) PROVE ended' \subseteq ended \cup L /\ HoldsOrder(L, p, Idle)
      <4>1. g \in L
        BY <1>1, <1>2, <2>1, <3>2 DEF InOrder
      <4> QED
        BY <1>1, <2>1, <3>1, <4>1 DEF HoldsOrder
    <3> QED
      BY <1>1, <2>1, <3>2, NoFailure
  <2>7. DatesKept'
    BY <1>0, <1>1, <2>1, DatesStay DEF DatesKept
  <2> QED
    BY <2>3, <2>4, <2>5, <2>6, <2>7 DEF IInv
<1> QED
  BY <1>3, <1>4

\* The child token, and its answer.
LEMMA RotateStep ==
    ASSUME WellFormed, IInv, NEW p \in Procs, Rotate(p)
    PROVE  IInv'
<1> DEFINE g == proc[p].tok.family
<1>0. TypeOK /\ RenewsLocked /\ DatesKept /\ proc[p] \in Command /\ proc[p].tok \in Token /\ now \in Nat
  BY SMTT(30), Constants DEF IInv, TypeOK, Command
<1>1. proc[p].pc = "rotate" /\ UNCHANGED <<now, file, lock, orphans, failures>>
  BY DEF Rotate
<1>2. lock = p /\ g \in Families
  BY <1>1, RenewsAlone DEF Renewing
<1>3. PICK t \in Tokens : /\ Server!Grant(g, t)
                          /\ Goes(p, [proc[p] EXCEPT !.pc = "answer", !.tok.token = t,
                                                     !.tok.valid = now + AccessTTL])
  BY DrawnToken DEF Rotate
<1> DEFINE v == [proc[p] EXCEPT !.pc = "answer", !.tok.token = t, !.tok.valid = now + AccessTTL]
<1>4. now + AccessTTL \in Nat /\ now + AccessTTL <= now + AccessTTL + Latency
  BY SMTT(30), <1>0, Constants
<1>5. /\ v \in Command /\ v.pc = "answer" /\ v.tok.family = g /\ v.tok.token = t
      /\ v.tok.valid = now + AccessTTL
  BY <1>0, <1>4 DEF Command, Token
<1>6. Goes(p, v)
  BY <1>3
<1> HIDE DEF v
<1>7. TypeOK'
  <2>1. proc' \in [Procs -> Command]
    BY <1>0, <1>5, <1>6, CommandMoves
  <2> QED
    BY <1>0, <1>1, <1>2, <1>3, <2>1, ContractTyped DEF TypeOK
<1>8. RenewsLocked'
  BY <1>1, <1>2, <1>5, <1>6, LockKept DEF Renewing
<1>9. LoginsApart'
  BY <1>1, <1>5, <1>6, ApartKept
<1>10. FailuresCount'
  <2>1. ended' = ended /\ current \subseteq current' /\ <<g, t>> \in current'
    BY <1>3, GrantKeeps
  <2>2. ASSUME NEW L, InOrder(L) PROVE ended' \subseteq ended \cup L /\ HoldsOrder(L, p, v)
    BY <1>1, <1>5, <2>1 DEF HoldsOrder
  <2> QED
    BY <1>1, <1>5, <1>6, <2>2, NoFailure
<1>11. DatesKept'
  BY <1>0, <1>1, <1>4, <1>5, <1>6, DatesStay DEF DatesKept
<1> QED
  BY <1>7, <1>8, <1>9, <1>10, <1>11 DEF IInv

LEMMA AnswerStep ==
    ASSUME WellFormed, IInv, NEW p \in Procs, Answer(p)
    PROVE  IInv'
<1> DEFINE x == proc[p]
           v == [x EXCEPT !.pc = "save", !.tok.expires = now + AccessTTL, !.tok.named = TRUE]
<1>0. TypeOK /\ RenewsLocked /\ DatesKept /\ x \in Command /\ x.tok \in Token /\ now \in Nat
      /\ x.tok.valid \in Nat
  BY SMTT(30), Constants DEF IInv, TypeOK, Command, Token
<1>1. x.pc = "answer" /\ UNCHANGED <<now, file, lock, contractVars, orphans, failures>> /\ Goes(p, v)
  BY DEF Answer
<1>2. lock = p /\ x.tok.family \in Families /\ x.tok.token \in Tokens
  BY <1>1, RenewsAlone DEF Renewing
<1>3. now + AccessTTL \in Nat /\ now + AccessTTL <= x.tok.valid + Latency
  BY SMTT(30), <1>0, <1>1, Constants DEF DatesKept
<1>4. now < x.tok.valid
  BY SMTT(30), <1>0, <1>3, Constants
<1>5. /\ v \in Command /\ v.pc = "save" /\ v.tok.family = x.tok.family /\ v.tok.token = x.tok.token
      /\ v.tok.valid = x.tok.valid /\ v.tok.expires = now + AccessTTL
  BY <1>0, <1>3 DEF Command, Token
<1> HIDE DEF v
<1>7. TypeOK'
  <2>1. proc' \in [Procs -> Command]
    BY <1>0, <1>1, <1>5, CommandMoves
  <2> QED
    BY <1>0, <1>1, <2>1 DEF TypeOK, contractVars
<1>8. RenewsLocked'
  BY <1>1, <1>2, <1>5, LockKept DEF Renewing
<1>9. LoginsApart'
  BY <1>1, <1>5, ApartKept
<1>10. FailuresCount'
  <2>1. UNCHANGED <<current, ended>>
    BY <1>1 DEF contractVars
  <2>2. ASSUME NEW L, InOrder(L) PROVE ended' \subseteq ended \cup L /\ HoldsOrder(L, p, v)
    <3>1. \A f \in Families \ L : x.tok.family = f => <<f, x.tok.token>> \in current
      BY <1>1, <2>2 DEF InOrder
    <3> QED
      BY <1>1, <1>5, <2>1, <3>1 DEF HoldsOrder
  <2> QED
    BY <1>1, <1>5, <2>2, NoFailure
<1>11. DatesKept'
  <2>1. Dated(v.tok)
    BY <1>3, <1>5 DEF Dated
  <2> QED
    BY <1>0, <1>1, <1>4, <1>5, <2>1, DatesStay DEF DatesKept
<1> QED
  BY <1>7, <1>8, <1>9, <1>10, <1>11 DEF IInv

\* The file is written: under the lock by `token`, without it by `login`.
LEMMA WriteStep ==
    ASSUME WellFormed, IInv, NEW p \in Procs, Save(p) \/ Persist(p)
    PROVE  IInv'
<1> DEFINE x == proc[p]
<1>0. TypeOK /\ RenewsLocked /\ DatesKept /\ x \in Command /\ x.tok \in Token
  BY DEF IInv, TypeOK, Command
<1>1. x.pc \in {"save", "persist"} /\ file' = x.tok /\ UNCHANGED <<now, contractVars, orphans, failures>>
  BY DEF Save, Persist
<1>2. x.tok.family \in Families /\ x.tok.token \in Tokens
  BY <1>0, <1>1 DEF RenewsLocked, Renewing
<1>3. PICK v \in Command : /\ Goes(p, v) /\ v.pc \in {"idle", "print"}
                           /\ v.tok.family \in {NoFamily, x.tok.family}
                           /\ v.pc = "print" => now < v.tok.valid
                           /\ lock' # p /\ (lock' = lock \/ (lock = p /\ lock' = Nobody))
  <2>1. CASE Save(p)
    <3> DEFINE w == [x EXCEPT !.pc = "print"]
    <3>1. w \in Command /\ w.pc = "print" /\ w.tok = x.tok
      BY <1>0 DEF Command
    <3>2. x.pc = "save" /\ Goes(p, w) /\ lock' = Released(p)
      BY <2>1 DEF Save
    <3> HIDE DEF w
    <3>3. lock = p /\ lock' = Nobody /\ now < x.tok.valid
      BY <1>0, <3>2 DEF RenewsLocked, Renewing, Released, DatesKept
    <3> QED
      BY <3>1, <3>2, <3>3, Constants
  <2>2. CASE Persist(p)
    <3>1. x.pc = "persist" /\ Goes(p, Idle) /\ lock' = lock
      BY <2>2 DEF Persist
    <3>2. lock # p
      BY <1>0, <3>1 DEF RenewsLocked, Renewing
    <3> QED
      BY <3>1, <3>2, IdleTyped
  <2> QED
    BY <2>1, <2>2
<1>4. TypeOK'
  <2>1. proc' \in [Procs -> Command]
    BY <1>0, <1>3, CommandMoves
  <2> QED
    BY <1>0, <1>1, <1>3, <2>1 DEF TypeOK, contractVars
<1>5. RenewsLocked'
  <2>1. v.pc \notin Renewing \cup {"persist"}
    BY <1>3 DEF Renewing
  <2> QED
    BY <1>1, <1>2, <1>3, <2>1, LockKept
<1>6. LoginsApart'
  BY <1>1, <1>3, ApartKept
<1>7. FailuresCount'
  <2>1. UNCHANGED <<current, ended>>
    BY <1>1 DEF contractVars
  <2>2. ASSUME NEW L, InOrder(L) PROVE ended' \subseteq ended \cup L /\ HoldsOrder(L, p, v)
    <3>1. \A f \in Families \ L : x.tok.family = f => <<f, x.tok.token>> \in current
      BY <1>1, <2>2 DEF InOrder
    <3> QED
      BY <1>1, <1>3, <2>1, <3>1 DEF HoldsOrder
  <2> QED
    BY <1>1, <1>3, <2>2, NoFailure
<1>8. DatesKept'
  <2>1. Dated(x.tok)
    BY <1>0, <1>1 DEF DatesKept
  <2> QED
    BY <1>1, <1>3, <2>1, DatesStay
<1> QED
  BY <1>4, <1>5, <1>6, <1>7, <1>8 DEF IInv

\* A login's session is new to everybody.
LEMMA SignInStep ==
    ASSUME WellFormed, IInv, NEW p \in Procs, SignedIn(p)
    PROVE  IInv'
<1>0. TypeOK /\ RenewsLocked /\ LoginsApart /\ DatesKept /\ now \in Nat
  BY SMTT(30), Constants DEF IInv, TypeOK
<1>1. proc[p].pc = "idle" /\ UNCHANGED <<now, file, lock, orphans, failures>>
  BY DEF SignedIn
<1>2. PICK f \in Families, t \in Tokens, late \in 0..Latency :
        /\ \A q \in Procs : proc[q].tok.family # f
        /\ f # file.family /\ \A o \in orphans : o.family # f
        /\ Server!Grant(f, t)
        /\ Goes(p, [Idle EXCEPT !.pc = "persist",
                      !.tok = [family |-> f, token |-> t, expires |-> now + AccessTTL,
                               valid |-> now + AccessTTL - late, named |-> TRUE]])
  BY DrawnToken DEF SignedIn
<1> DEFINE k == [family |-> f, token |-> t, expires |-> now + AccessTTL,
                 valid |-> now + AccessTTL - late, named |-> TRUE]
           v == [Idle EXCEPT !.pc = "persist", !.tok = k]
<1>3. /\ now + AccessTTL \in Nat /\ now + AccessTTL - late \in Nat
      /\ now + AccessTTL <= now + AccessTTL - late + Latency
  BY SMTT(30), <1>0, Constants
<1>4. k \in Token /\ k.family = f /\ k.token = t /\ Dated(k)
  BY <1>3 DEF Token, Dated
<1> HIDE DEF k
<1>5. v \in Command /\ v.pc = "persist" /\ v.tok = k
  BY <1>4, IdleTyped DEF Command
<1>6. Goes(p, v)
  BY <1>2 DEF k
<1> HIDE DEF v
<1>7. /\ proc' \in [Procs -> Command] /\ proc'[p] = v
      /\ \A q \in Procs : q # p => proc'[q] = proc[q]
  BY <1>0, <1>5, <1>6, CommandMoves
<1>8. TypeOK'
  BY <1>0, <1>1, <1>2, <1>7, ContractTyped DEF TypeOK
<1>9. RenewsLocked'
  <2>1. lock # p
    BY <1>0, <1>1 DEF RenewsLocked, Renewing
  <2> QED
    BY <1>1, <1>4, <1>5, <1>6, <2>1, LockKept DEF Renewing
<1>10. LoginsApart'
  <2> SUFFICES ASSUME NEW q \in Procs, proc'[q].pc = "persist"
               PROVE  /\ file.family # proc'[q].tok.family
                      /\ \A r \in Procs \ {q} : proc'[r].tok.family # proc'[q].tok.family
    BY <1>1 DEF LoginsApart
  <2>1. CASE q = p
    BY <1>2, <1>4, <1>5, <1>7, <2>1
  <2>2. CASE q # p
    <3>1. /\ proc'[q] = proc[q] /\ file.family # proc[q].tok.family
          /\ \A r \in Procs \ {q} : proc[r].tok.family # proc[q].tok.family
      BY <1>0, <1>7, <2>2 DEF LoginsApart
    <3> QED
      BY <1>2, <1>4, <1>5, <1>7, <2>2, <3>1
  <2> QED
    BY <2>1, <2>2
<1>11. FailuresCount'
  <2>1. ended' = ended /\ current \subseteq current' /\ <<f, t>> \in current'
    BY <1>2, GrantKeeps
  <2>2. ASSUME NEW L, InOrder(L) PROVE ended' \subseteq ended \cup L /\ HoldsOrder(L, p, v)
    BY <1>1, <1>4, <1>5, <2>1 DEF HoldsOrder
  <2> QED
    BY <1>1, <1>5, <1>6, <2>2, NoFailure
<1>12. DatesKept'
  BY <1>0, <1>1, <1>4, <1>5, <1>6, DatesStay DEF DatesKept
<1> QED
  BY <1>8, <1>9, <1>10, <1>11, <1>12 DEF IInv

\* A failure leaves the session of its command out of order, and no other.
LEMMA FailStep ==
    ASSUME WellFormed, IInv, NEW p \in Procs, Fail(p)
    PROVE  IInv'
<1> DEFINE g == proc[p].tok.family
<1>0. TypeOK /\ RenewsLocked /\ DatesKept /\ proc[p].tok \in Token /\ failures \in Nat
  BY SMTT(30), Constants DEF IInv, TypeOK, Command
<1>1. /\ failures < MaxFailures /\ failures' = failures + 1 /\ lock' = Released(p) /\ Goes(p, Idle)
      /\ orphans' = orphans \cup {proc[q].tok : q \in {r \in {p} : proc[r].pc = "post"}}
      /\ UNCHANGED <<now, file, current, spent, ended>>
  BY DEF Fail, contractVars
<1>2. \A o \in orphans' : o \in orphans \/ (o = proc[p].tok /\ proc[p].pc = "post")
  BY <1>1
<1>3. lock' # p /\ (lock' = lock \/ (lock = p /\ lock' = Nobody))
  BY <1>1, Constants DEF Released
<1>4. TypeOK'
  <2>1. failures' \in 0..MaxFailures
    BY SMTT(30), <1>0, <1>1, Constants
  <2>2. proc' \in [Procs -> Command]
    BY <1>0, <1>1, IdleTyped, CommandMoves
  <2>3. orphans' \subseteq Token
    BY <1>0, <1>2 DEF TypeOK
  <2> QED
    BY <1>0, <1>1, <1>3, <2>1, <2>2, <2>3 DEF TypeOK
<1>5. RenewsLocked'
  <2>1. Idle.pc \notin Renewing \cup {"persist"}
    BY IdleTyped DEF Renewing
  <2>2. proc[p].pc = "post" => g \in Families /\ proc[p].tok.token \in Tokens
    BY <1>0 DEF RenewsLocked, Renewing
  <2> QED
    BY <1>1, <1>2, <1>3, <2>1, <2>2, IdleTyped, LockKept
<1>6. LoginsApart'
  BY <1>1, IdleTyped, ApartKept
<1>7. FailuresCount'
  <2>1. PICK L \in SUBSET (Families \cup {NoFamily}) :
             IsFiniteSet(L) /\ Cardinality(L) <= failures /\ InOrder(L)
    BY DEF IInv, FailuresCount
  <2>0. PICK M : M = L \cup {g}
    OBVIOUS
  <2>2. IsFiniteSet(M) /\ Cardinality(M) <= failures'
    <3>1. Cardinality(L) \in Nat
      BY <2>1, FS_CardinalityType
    <3>2. IsFiniteSet(M) /\ (Cardinality(M) = Cardinality(L) \/ Cardinality(M) = Cardinality(L) + 1)
      BY <2>0, <2>1, FS_AddElement
    <3> QED
      BY SMTT(30), <1>0, <1>1, <2>1, <3>1, <3>2
  <2>3. HoldsOrder(M, p, Idle)
    BY <1>1, <2>0, IdleTyped DEF HoldsOrder
  <2>4. InOrder(M)'
    <3>1. L \subseteq M /\ ended' \subseteq ended \cup M /\ \A o \in orphans' : o \in orphans \/ o.family \in M
      BY <1>1, <1>2, <2>0
    <3> QED
      BY <1>0, <1>1, <2>1, <2>3, <3>1, IdleTyped, OrderKept
  <2>5. M \subseteq Families \cup {NoFamily}
    BY <1>0, <2>0, <2>1 DEF Token
  <2> QED
    BY <2>2, <2>4, <2>5 DEF FailuresCount
<1>8. DatesKept'
  BY <1>0, <1>1, IdleTyped, DatesStay DEF DatesKept
<1> QED
  BY <1>4, <1>5, <1>6, <1>7, <1>8 DEF IInv

\* A request astray belongs to a session that is out of order already.
LEMMA OrphanStep ==
    ASSUME WellFormed, IInv, OrphanArrives
    PROVE  IInv'
<1>0. TypeOK /\ RenewsLocked /\ LoginsApart /\ DatesKept
  BY DEF IInv
<1>1. PICK k \in orphans :
        /\ Server!Spend(k.family, k.token) \/ Server!End({k.family})
        /\ orphans' = orphans \ {k}
        /\ UNCHANGED <<now, file, lock, proc, failures>>
  BY DEF OrphanArrives
<1>2. k.family \in Families /\ k.token \in Tokens
  BY <1>0 DEF RenewsLocked
<1>3. TypeOK'
  BY <1>0, <1>1, <1>2, ContractTyped DEF TypeOK
<1>4. RenewsLocked' /\ LoginsApart' /\ DatesKept'
  BY <1>0, <1>1 DEF RenewsLocked, LoginsApart, DatesKept
<1>5. FailuresCount'
  <2>1. PICK L \in SUBSET (Families \cup {NoFamily}) :
             IsFiniteSet(L) /\ Cardinality(L) <= failures /\ InOrder(L)
    BY DEF IInv, FailuresCount
  <2>2. k.family \in L
    BY <1>2, <2>1 DEF InOrder
  <2>3. /\ ended' \subseteq ended \cup L
        /\ \A f \in Families \ L : \A t : <<f, t>> \in current => <<f, t>> \in current'
    <3>1. CASE Server!Spend(k.family, k.token)
      BY <2>2, <3>1, SpendKeeps
    <3>2. CASE Server!End({k.family})
      BY SMTT(30), <2>2, <3>2, EndKeeps
    <3> QED
      BY <1>1, <3>1, <3>2
  <2>4. InOrder(L)'
    <3> SUFFICES ASSUME NEW f \in Families \ L
                 PROVE  /\ file.family = f =>
                             \/ <<f, file.token>> \in current'
                             \/ \E q \in Procs : /\ proc[q].pc \in {"rotate", "answer", "save"}
                                                 /\ proc[q].tok.family = f
                        /\ \A q \in Procs : /\ proc[q].pc \in {"post", "answer", "save", "persist"}
                                            /\ proc[q].tok.family = f
                                            => <<f, proc[q].tok.token>> \in current'
                        /\ \A o \in orphans' : o.family # f
                        /\ f \notin ended'
      BY <1>1 DEF InOrder
    <3> QED
      BY <1>1, <2>1, <2>3 DEF InOrder
  <2> QED
    BY <1>1, <2>1, <2>4 DEF FailuresCount
<1> QED
  BY <1>3, <1>4, <1>5 DEF IInv

LEMMA TickStep ==
    ASSUME WellFormed, IInv, Tick
    PROVE  IInv'
<1>0. TypeOK /\ RenewsLocked /\ LoginsApart /\ FailuresCount /\ DatesKept /\ now \in 0..MaxTime
  BY DEF IInv, TypeOK
<1>1. /\ now < MaxTime /\ Prompt /\ now' = now + 1
      /\ UNCHANGED <<file, lock, proc, current, spent, ended, orphans, failures>>
  BY DEF Tick, contractVars
<1>2. TypeOK'
  <2>1. now' \in 0..MaxTime
    BY SMTT(30), <1>0, <1>1, Constants
  <2> QED
    BY <1>0, <1>1, <2>1 DEF TypeOK
<1>3. RenewsLocked' /\ LoginsApart' /\ FailuresCount'
  BY SMTT(30), <1>0, <1>1 DEF RenewsLocked, LoginsApart, FailuresCount, InOrder
<1>4. DatesKept'
  <2> SUFFICES ASSUME NEW q \in Procs
               PROVE  /\ proc[q].pc \in {"save", "persist"} => Dated(proc[q].tok)
                      /\ proc[q].pc = "answer" => now + 1 + AccessTTL <= proc[q].tok.valid + Latency
                      /\ proc[q].pc \notin {"save", "print"}
    BY <1>0, <1>1 DEF DatesKept, Dated
  <2>1. proc[q].pc \in {"save", "persist"} => Dated(proc[q].tok)
    BY <1>0 DEF DatesKept
  <2>2. ASSUME proc[q].pc = "answer" PROVE now + 1 + AccessTTL <= proc[q].tok.valid + Latency
    <3>1. proc[q].tok.valid \in Nat
      BY <1>0 DEF TypeOK, Command, Token
    <3>2. now + 1 <= proc[q].tok.valid - AccessTTL + Latency
      BY <1>1, <2>2 DEF Prompt
    <3> QED
      BY SMTT(30), <1>0, <3>1, <3>2, Constants
  <2> QED
    BY <1>1, <2>1, <2>2 DEF Prompt
<1> QED
  BY <1>2, <1>3, <1>4 DEF IInv

LEMMA InitIInv ==
    ASSUME WellFormed, Init
    PROVE  IInv
<1>0. /\ spent = {} /\ ended = {} /\ lock = Nobody /\ orphans = {} /\ failures = 0 /\ now = 0
      /\ proc = [p \in Procs |-> Idle] /\ proc \in [Procs -> Command]
      /\ \A p \in Procs : proc[p] = Idle /\ proc[p].pc = "idle"
      /\ 0 \in 0..MaxTime /\ 0 \in 0..MaxFailures
  BY SMTT(30), IdleTyped, Constants DEF Init
<1>1. /\ file \in Token /\ Dated(file) /\ current \subseteq Families \X Tokens
      /\ file # NoFile => file.family \in Families /\ file.token \in Tokens
      /\ file.family \in Families => <<file.family, file.token>> \in current
  <2>1. CASE file = NoFile /\ current = {}
    <3>1. Dated(NoFile)
      BY SMTT(30), Constants DEF Dated, NoFile
    <3> QED
      BY <2>1, <3>1, IdleTyped, Constants
  <2>2. ASSUME NEW named \in BOOLEAN, NEW f \in Families, NEW t \in Tokens,
               file = [family |-> f, token |-> t, expires |-> AccessTTL, valid |-> AccessTTL,
                       named |-> named],
               current = {<<f, t>>}
        PROVE  <1>1!:
    <3>1. file \in Token /\ file.family = f /\ file.token = t
      BY <2>2, Constants DEF Token
    <3>2. Dated(file)
      BY SMTT(30), <2>2, Constants DEF Dated
    <3>3. current \subseteq Families \X Tokens
      BY SMTT(30), <2>2
    <3> QED
      BY <2>2, <3>1, <3>2, <3>3
  <2>3. (CHOOSE g \in Families : TRUE) \in Families /\ (CHOOSE u \in Tokens : TRUE) \in Tokens
    BY DEF WellFormed
  <2> QED
    BY <2>1, <2>2, <2>3 DEF Init
<1>2. TypeOK
  BY <1>0, <1>1 DEF TypeOK
<1>3. RenewsLocked /\ LoginsApart
  BY <1>0, <1>1, Constants DEF RenewsLocked, LoginsApart, Renewing
<1>4. FailuresCount
  <2>1. InOrder({})
    BY <1>0, <1>1 DEF InOrder
  <2>2. IsFiniteSet({}) /\ Cardinality({}) <= failures
    BY SMTT(30), <1>0, FS_EmptySet
  <2> QED
    BY <2>1, <2>2 DEF FailuresCount
<1>5. DatesKept
  BY <1>0, <1>1 DEF DatesKept
<1> QED
  BY <1>2, <1>3, <1>4, <1>5 DEF IInv

LEMMA NextIInv ==
    ASSUME WellFormed, IInv, [Next]_vars
    PROVE  IInv'
<1>1. ASSUME NEW p \in Procs, GiveUp(p) \/ PrintToken(p) \/ RotateRefused(p) PROVE IInv'
  BY <1>1, IdleTyped, QuietStep DEF GiveUp, PrintToken, RotateRefused
<1>2. CASE UNCHANGED vars
  <2>1. UNCHANGED <<now, file, lock, proc, current, spent, ended, orphans, failures>>
    BY <1>2 DEF vars
  <2> QED
    BY SMTT(30), <2>1 DEF IInv, TypeOK, RenewsLocked, LoginsApart, FailuresCount, InOrder, DatesKept, Dated
<1> QED
  BY <1>1, <1>2, ReadStep, PresentStep, RotateStep, AnswerStep, WriteStep, SignInStep, FailStep,
     OrphanStep, TickStep DEF Next, TokenStep, Procs

\* The invariant is inductive: what every command and the file hold of a session
\* is in order, but for one session per failure.
THEOREM CliInvariant ==
    ASSUME WellFormed
    PROVE  Spec => []IInv
<1>1. Init => IInv
  BY InitIInv
<1>2. IInv /\ [Next]_vars => IInv'
  BY NextIInv
<1> QED
  BY <1>1, <1>2, PTL DEF Spec

\* EnsureFresh under lockTokenFile: a refresh token is presented twice only after
\* a failure, and each failure costs one session at most, for any number of
\* commands running at once.
THEOREM FailuresEndSessions ==
    ASSUME WellFormed
    PROVE  Spec => []ReplaysComeOfFailures
<1>1. ASSUME IInv PROVE ReplaysComeOfFailures
  <2>1. PICK L \in SUBSET (Families \cup {NoFamily}) :
             IsFiniteSet(L) /\ Cardinality(L) <= failures /\ InOrder(L)
    BY <1>1 DEF IInv, FailuresCount
  <2>2. ended \in SUBSET L
    BY <1>1, <2>1 DEF IInv, TypeOK, InOrder
  <2>3. IsFiniteSet(ended) /\ Cardinality(ended) <= Cardinality(L)
    BY <2>1, <2>2, FS_Subset
  <2>4. Cardinality(L) \in Nat /\ Cardinality(ended) \in Nat /\ failures \in Nat
    BY SMTT(30), <1>1, <2>1, <2>3, FS_CardinalityType, Constants DEF IInv, TypeOK
  <2> QED
    BY SMTT(30), <2>1, <2>3, <2>4 DEF ReplaysComeOfFailures
<1> QED
  BY <1>1, CliInvariant, PTL

\* What the command line keeps on disk and prints is accepted, although login
\* saves without the lock and an expiry is dated when its answer arrives.
THEOREM KeptAndPrintedAccepted ==
    ASSUME WellFormed
    PROVE  Spec => []KeptTokensUsable
<1>1. ASSUME IInv PROVE KeptTokensUsable
  <2>1. ASSUME failures = 0, lock = Nobody, file.token # NoToken
        PROVE  <<file.family, file.token>> \in current
    <3>1. PICK L \in SUBSET (Families \cup {NoFamily}) :
               IsFiniteSet(L) /\ Cardinality(L) <= failures /\ InOrder(L)
      BY <1>1 DEF IInv, FailuresCount
    <3>2. L = {}
      <4>1. Cardinality(L) \in Nat
        BY <3>1, FS_CardinalityType
      <4>2. Cardinality(L) = 0
        BY SMTT(30), <2>1, <3>1, <4>1
      <4> QED
        BY <3>1, <4>2, FS_EmptySet
    <3>3. file.family \in Families
      <4>1. file # NoFile
        BY SMTT(30), <2>1 DEF NoFile
      <4> QED
        BY <1>1, <4>1 DEF IInv, RenewsLocked
    <3>4. \A q \in Procs : proc[q].pc \notin {"rotate", "answer", "save"}
      BY <1>1, <2>1, Constants DEF IInv, RenewsLocked, Renewing
    <3> QED
      BY <3>1, <3>2, <3>3, <3>4 DEF InOrder
  <2>2. \A p \in Procs : proc[p].pc = "print" => now < proc[p].tok.valid
    BY <1>1 DEF IInv, DatesKept
  <2> QED
    BY <2>1, <2>2 DEF KeptTokensUsable
<1> QED
  BY <1>1, CliInvariant, PTL

-----------------------------------------------------------------------------
(* Deployment.                                                             *)

CONSTANTS Releases, Embeds, Migrators, Servers, MaxInFlight, MaxFaults

VARIABLES backend, applied, mig, srv, up, faults, refused

Deployment == INSTANCE Deployment

\* The lowest of some versions is one of them.
LEMMA LowestIsOne ==
    ASSUME NEW T, T \subseteq Nat, T # {}
    PROVE  Deployment!Lowest(T) \in T
<1>1. PICK m \in T : \A n \in T : ~(<<n, m>> \in OpToRel(<, Nat))
  BY WFMin, NatLessThanWellFounded
<1>2. \A n \in T : ~(n < m)
  <2> SUFFICES ASSUME NEW n \in T PROVE ~(n < m)
    OBVIOUS
  <2>1. <<n, m>> \in Nat \X Nat /\ <<n, m>>[1] = n /\ <<n, m>>[2] = m
    BY SMTT(30)
  <2> QED
    BY <1>1, <2>1, ZenonT(30) DEF OpToRel
<1>3. \A n \in T : m <= n
  BY SMTT(30), <1>2
<1> QED
  BY <1>3, ZenonT(30) DEF Deployment!Lowest

LEMMA VersionsNumbered ==
    ASSUME Deployment!WellFormed
    PROVE  Deployment!Versions \subseteq Nat /\ \A r \in Releases : Embeds[r] \subseteq Deployment!Versions
BY DEF Deployment!WellFormed, Deployment!Versions

LEMMA DownTyped ==
    ASSUME Deployment!WellFormed, NEW r \in Releases
    PROVE  Deployment!Down(r) \in Deployment!Server
BY SMTT(30) DEF Deployment!WellFormed, Deployment!Down, Deployment!Server

\* What a run does to its own record, and its record only.
LEMMA RunTyped ==
    ASSUME Deployment!TypeOK, NEW m \in Migrators, NEW v \in Deployment!Run, mig' = [mig EXCEPT ![m] = v]
    PROVE  mig' \in [Migrators -> Deployment!Run] /\ mig'[m] = v /\ \A n \in Migrators : n # m => mig'[n] = mig[n]
BY DEF Deployment!TypeOK

LEMMA ServerTyped ==
    ASSUME Deployment!TypeOK, NEW s \in Servers, NEW v \in Deployment!Server, Deployment!Becomes(s, v)
    PROVE  srv' \in [Servers -> Deployment!Server] /\ srv'[s] = v /\ \A q \in Servers : q # s => srv'[q] = srv[q]
BY DEF Deployment!TypeOK, Deployment!Becomes

-----------------------------------------------------------------------------
(* serve.                                                                  *)

\* A step of one server that keeps what the invariant says of it.
LEMMA ServerMoves ==
    ASSUME Deployment!IInv, NEW s \in Servers, NEW v \in Deployment!Server, Deployment!Becomes(s, v),
           UNCHANGED <<backend, applied, lock, mig, refused>>, up' \in BOOLEAN,
           faults' \in 0..MaxFaults,
           v.pc # "down" => Embeds[v.release] \subseteq applied,
           v.pc \in {"running", "stopping"} => v.keys,
           v.pc \in {"down", "keys"} => \A c \in Deployment!Components : v.comp[c] = "off"
    PROVE  Deployment!IInv'
<1>1. srv' \in [Servers -> Deployment!Server] /\ srv'[s] = v /\ \A q \in Servers : q # s => srv'[q] = srv[q]
  BY ServerTyped DEF Deployment!IInv
<1>2. Deployment!TypeOK'
  BY <1>1 DEF Deployment!IInv, Deployment!TypeOK
<1>3. Deployment!LockedRead' /\ Deployment!WholeReleases'
  BY DEF Deployment!IInv, Deployment!LockedRead, Deployment!WholeReleases, Deployment!Pending
<1>4. Deployment!ServersChecked'
  <2> SUFFICES ASSUME NEW q \in Servers
               PROVE  /\ srv'[q].pc # "down" => Embeds[srv'[q].release] \subseteq applied'
                      /\ srv'[q].pc \in {"running", "stopping"} => srv'[q].keys
                      /\ srv'[q].pc \in {"down", "keys"} =>
                           \A c \in Deployment!Components : srv'[q].comp[c] = "off"
    BY DEF Deployment!ServersChecked
  <2>1. CASE q = s
    BY <1>1, <2>1
  <2>2. CASE q # s
    BY SMTT(30), <1>1, <2>2 DEF Deployment!IInv, Deployment!ServersChecked
  <2> QED
    BY <2>1, <2>2
<1> QED
  BY <1>2, <1>3, <1>4 DEF Deployment!IInv

LEMMA ServeStep ==
    ASSUME Deployment!WellFormed, Deployment!IInv, NEW s \in Servers, Deployment!Serve(s)
    PROVE  Deployment!IInv'
<1> DEFINE x == srv[s]
<1>0. /\ x \in Deployment!Server /\ x.release \in Releases /\ up \in BOOLEAN /\ faults \in 0..MaxFaults
      /\ MaxInFlight \in Nat /\ MaxFaults \in Nat /\ "worker" \in Deployment!Components /\ "public" \in Deployment!Components
  BY DEF Deployment!IInv, Deployment!TypeOK, Deployment!Server, Deployment!WellFormed, Deployment!Components
<1>1. /\ x.pc # "down" => Embeds[x.release] \subseteq applied
      /\ x.pc \in {"running", "stopping"} => x.keys
      /\ x.pc \in {"down", "keys"} => \A c \in Deployment!Components : x.comp[c] = "off"
  BY DEF Deployment!IInv, Deployment!ServersChecked
<1>2. Deployment!Down(x.release) \in Deployment!Server /\ Deployment!Down(x.release).pc = "down"
      /\ \A c \in Deployment!Components : Deployment!Down(x.release).comp[c] = "off"
  BY <1>0, DownTyped DEF Deployment!Down
<1>3. ASSUME UNCHANGED <<Deployment!serverOnly, up, faults>>, NEW v \in Deployment!Server, Deployment!Becomes(s, v),
             v.pc # "down" => Embeds[v.release] \subseteq applied,
             v.pc \in {"running", "stopping"} => v.keys,
             v.pc \in {"down", "keys"} => \A c \in Deployment!Components : v.comp[c] = "off"
      PROVE  Deployment!IInv'
  BY <1>0, <1>3, ServerMoves DEF Deployment!serverOnly
<1>4. CASE Deployment!Boot(s)
  <2> DEFINE v == [x EXCEPT !.pc = "keys"]
  <2>1. v \in Deployment!Server /\ v.pc = "keys" /\ v.release = x.release /\ v.comp = x.comp
    BY <1>0 DEF Deployment!Server
  <2>2. x.pc = "down" /\ UNCHANGED <<Deployment!serverOnly, up, faults>>
    BY <1>4 DEF Deployment!Boot
  <2>3. CASE up /\ Deployment!IsCurrent(x.release)
    <3>1. Deployment!Becomes(s, v) /\ Embeds[x.release] \subseteq applied
      BY <1>4, <2>3 DEF Deployment!Boot, Deployment!IsCurrent, Deployment!Check, Deployment!Pending
    <3> HIDE DEF v, x
    <3> QED
      BY <1>1, <1>3, <2>1, <2>2, <3>1
  <2>4. CASE ~(up /\ Deployment!IsCurrent(x.release))
    BY <1>0, <1>1, <1>3, <1>4, <2>2, <2>4 DEF Deployment!Boot
  <2> QED
    BY <2>3, <2>4
<1>5. CASE Deployment!InitKeys(s)
  <2> DEFINE v == [x EXCEPT !.pc = "running", !.keys = TRUE, !.comp["worker"] = "up"]
  <2>1. v \in Deployment!Server /\ v.pc = "running" /\ v.release = x.release /\ v.keys
    BY <1>0 DEF Deployment!Server
  <2>2. x.pc = "keys" /\ UNCHANGED <<Deployment!serverOnly, up, faults>>
    BY <1>5 DEF Deployment!InitKeys
  <2>3. CASE up
    <3>1. Deployment!Becomes(s, v)
      BY <1>5, <2>3 DEF Deployment!InitKeys
    <3> HIDE DEF v, x
    <3> QED
      BY <1>1, <1>3, <2>1, <2>2, <3>1
  <2>4. CASE ~up
    BY <1>2, <1>3, <1>5, <2>2, <2>4 DEF Deployment!InitKeys
  <2> QED
    BY <2>3, <2>4
<1>6. ASSUME NEW c \in Deployment!Components, Deployment!Listen(s, c) PROVE Deployment!IInv'
  <2> DEFINE v == [x EXCEPT !.comp[c] = "up", !.ready = @ \/ c = "public"]
  <2>1. v \in Deployment!Server /\ v.pc = x.pc /\ v.release = x.release /\ v.keys = x.keys
    BY <1>0 DEF Deployment!Server
  <2>2. /\ x.pc \in {"running", "stopping"} /\ UNCHANGED <<Deployment!serverOnly, up, faults>>
        /\ Deployment!Becomes(s, v)
    BY <1>6 DEF Deployment!Listen
  <2> HIDE DEF v, x
  <2> QED
    BY <1>1, <1>3, <2>1, <2>2
<1>7. CASE Deployment!Request(s) \/ Deployment!Respond(s)
  <2>1. PICK n \in 0..MaxInFlight : Deployment!Becomes(s, [x EXCEPT !.inflight = n])
    <3>1. x.inflight \in 0..MaxInFlight
      BY <1>0 DEF Deployment!Server
    <3>2. CASE Deployment!Request(s)
      <4>1. x.inflight + 1 \in 0..MaxInFlight
        BY SMTT(30), <1>0, <3>1, <3>2 DEF Deployment!Request
      <4> QED
        BY <3>2, <4>1 DEF Deployment!Request
    <3>3. CASE Deployment!Respond(s)
      <4>1. x.inflight - 1 \in 0..MaxInFlight
        BY SMTT(30), <1>0, <3>1, <3>3 DEF Deployment!Respond
      <4> QED
        BY <3>3, <4>1 DEF Deployment!Respond
    <3> QED
      BY <1>7, <3>2, <3>3
  <2> DEFINE v == [x EXCEPT !.inflight = n]
  <2>2. v \in Deployment!Server /\ v.pc = x.pc /\ v.release = x.release /\ v.keys = x.keys /\ v.comp = x.comp
    BY <1>0 DEF Deployment!Server
  <2>3. UNCHANGED <<Deployment!serverOnly, up, faults>>
    BY <1>7 DEF Deployment!Request, Deployment!Respond
  <2> HIDE DEF v, x
  <2> QED
    BY <1>1, <1>3, <2>1, <2>2, <2>3 DEF v
<1>8. CASE Deployment!Stop(s)
  <2> DEFINE v == [x EXCEPT !.pc = "stopping"]
  <2>1. v \in Deployment!Server /\ v.pc = "stopping" /\ v.release = x.release /\ v.keys = x.keys
    BY <1>0 DEF Deployment!Server
  <2>2. x.pc = "running" /\ UNCHANGED <<Deployment!serverOnly, up, faults>> /\ Deployment!Becomes(s, v)
    BY <1>8 DEF Deployment!Stop
  <2> HIDE DEF v, x
  <2> QED
    BY <1>1, <1>3, <2>1, <2>2
<1>9. ASSUME NEW c \in Deployment!Components, Deployment!Fail(s, c) PROVE Deployment!IInv'
  <2> DEFINE v == [x EXCEPT !.pc = "stopping", !.comp[c] = "gone",
                            !.inflight = IF c = "public" THEN 0 ELSE @]
  <2>1. v \in Deployment!Server /\ v.pc = "stopping" /\ v.release = x.release /\ v.keys = x.keys
    <3>1. 0 \in 0..MaxInFlight /\ x.inflight \in 0..MaxInFlight
      BY SMTT(30), <1>0 DEF Deployment!Server
    <3>2. PICK n \in 0..MaxInFlight : n = IF c = "public" THEN 0 ELSE x.inflight
      BY <3>1
    <3>3. v = [x EXCEPT !.pc = "stopping", !.comp[c] = "gone", !.inflight = n]
      BY <3>2
    <3> HIDE DEF v
    <3> QED
      BY <1>0, <3>3 DEF Deployment!Server
  <2>2. /\ x.pc \in {"running", "stopping"} /\ Deployment!Becomes(s, v) /\ UNCHANGED <<Deployment!serverOnly, up>>
        /\ faults' = faults + 1 /\ faults < MaxFaults
    BY <1>9 DEF Deployment!Fail
  <2>3. faults' \in 0..MaxFaults
    BY SMTT(30), <1>0, <2>2
  <2> HIDE DEF v, x
  <2> QED
    BY <1>0, <1>1, <2>1, <2>2, <2>3, ServerMoves DEF Deployment!serverOnly
<1>10. ASSUME NEW c \in Deployment!Components, Deployment!Drain(s, c) \/ Deployment!Drained(s, c) PROVE Deployment!IInv'
  <2>1. PICK e \in {"gone", "drain"} : Deployment!Becomes(s, [x EXCEPT !.comp[c] = e])
    BY <1>10 DEF Deployment!Drain, Deployment!Drained
  <2> DEFINE v == [x EXCEPT !.comp[c] = e]
  <2>2. v \in Deployment!Server /\ v.pc = x.pc /\ v.release = x.release /\ v.keys = x.keys
    BY <1>0 DEF Deployment!Server
  <2>3. x.comp[c] # "off" /\ UNCHANGED <<Deployment!serverOnly, up, faults>>
    BY <1>10 DEF Deployment!Drain, Deployment!Drained
  <2>4. x.pc \notin {"down", "keys"}
    BY <1>1, <2>3
  <2> HIDE DEF v, x
  <2> QED
    BY <1>1, <1>3, <2>1, <2>2, <2>3, <2>4 DEF v
<1>11. CASE Deployment!ShutdownTimeout(s)
  <2> DEFINE v == [x EXCEPT !.comp["public"] = "gone", !.inflight = 0]
  <2>1. v \in Deployment!Server /\ v.pc = x.pc /\ v.release = x.release /\ v.keys = x.keys
    <3>1. PICK n \in 0..MaxInFlight : n = 0
      BY SMTT(30), <1>0
    <3>2. v = [x EXCEPT !.comp["public"] = "gone", !.inflight = n]
      BY <3>1
    <3> HIDE DEF v
    <3> QED
      BY <1>0, <3>2 DEF Deployment!Server
  <2>2. x.comp["public"] = "drain" /\ UNCHANGED <<Deployment!serverOnly, up, faults>> /\ Deployment!Becomes(s, v)
    BY <1>11 DEF Deployment!ShutdownTimeout
  <2>3. x.pc \notin {"down", "keys"}
    BY <1>0, <1>1, <2>2
  <2> HIDE DEF v, x
  <2> QED
    BY <1>1, <1>3, <2>1, <2>2, <2>3
<1>12. CASE Deployment!Exit(s)
  BY <1>2, <1>3, <1>12 DEF Deployment!Exit
<1> QED
  BY <1>4, <1>5, <1>6, <1>7, <1>8, <1>9, <1>10, <1>11, <1>12 DEF Deployment!Serve

-----------------------------------------------------------------------------
(* Migrations.                                                             *)

\* A step of one run: it is typed, and applied only grows.
LEMMA RunMoves ==
    ASSUME Deployment!IInv, NEW m \in Migrators, NEW v \in Deployment!Run, mig' = [mig EXCEPT ![m] = v],
           UNCHANGED <<backend, srv, up>>, lock' \in Migrators \cup {Nobody},
           faults' \in 0..MaxFaults, refused' \subseteq Migrators,
           applied \subseteq applied', applied' \subseteq Deployment!Versions
    PROVE  /\ Deployment!TypeOK' /\ Deployment!ServersChecked'
           /\ mig'[m] = v /\ \A q \in Migrators : q # m => mig'[q] = mig[q]
<1>1. mig' \in [Migrators -> Deployment!Run] /\ mig'[m] = v /\ \A q \in Migrators : q # m => mig'[q] = mig[q]
  BY RunTyped DEF Deployment!IInv
<1>2. Deployment!TypeOK'
  BY <1>1 DEF Deployment!IInv, Deployment!TypeOK
<1>3. Deployment!ServersChecked'
  BY DEF Deployment!IInv, Deployment!ServersChecked
<1> QED
  BY <1>1, <1>2, <1>3

\* The record of a run that has ended, or starts over.
LEMMA RunOver ==
    ASSUME Deployment!TypeOK, NEW m \in Migrators, NEW p \in {"new", "done"},
           mig' = [mig EXCEPT ![m].pc = p, ![m].todo = {}, ![m].staged = {}]
    PROVE  \E v \in Deployment!Run : mig' = [mig EXCEPT ![m] = v] /\ v.pc = p /\ v.staged = {}
<1> DEFINE v == [mig[m] EXCEPT !.pc = p, !.todo = {}, !.staged = {}]
<1>1. mig[m] \in Deployment!Run /\ mig \in [Migrators -> Deployment!Run]
  BY DEF Deployment!TypeOK
<1>2. v \in Deployment!Run /\ v.pc = p /\ v.staged = {}
  BY <1>1 DEF Deployment!Run
<1>3. mig' = [mig EXCEPT ![m] = v]
  BY <1>1
<1> QED
  BY <1>2, <1>3

\* The run that held the lock is over: nobody applies.
LEMMA LockReleased ==
    ASSUME Deployment!WellFormed, Deployment!IInv, NEW m \in Migrators, backend = "postgres", backend' = backend,
           lock = m, lock' = Nobody, mig'[m].pc # "apply", mig'[m].staged = {},
           \A q \in Migrators : q # m => mig'[q] = mig[q]
    PROVE  Deployment!LockedRead'
<1> SUFFICES ASSUME NEW q \in Migrators
             PROVE  mig'[q].pc # "apply" /\ mig'[q].staged = {} /\ lock' # q
  BY DEF Deployment!LockedRead
<1>1. lock' # q
  BY DEF Deployment!WellFormed
<1>2. CASE q # m
  BY <1>1, <1>2 DEF Deployment!IInv, Deployment!LockedRead
<1> QED
  BY <1>1, <1>2

LEMMA MigrateStep ==
    ASSUME Deployment!WellFormed, Deployment!IInv, NEW m \in Migrators, Deployment!Migrate(m) \/ Deployment!MigrateFails(m)
    PROVE  Deployment!IInv'
<1> DEFINE x == mig[m]
<1>0. /\ x \in Deployment!Run /\ mig \in [Migrators -> Deployment!Run] /\ x.release \in Releases /\ x.todo \subseteq Deployment!Versions
      /\ x.staged \subseteq Deployment!Versions /\ applied \subseteq Deployment!Versions /\ refused \subseteq Migrators
      /\ lock \in Migrators \cup {Nobody} /\ faults \in 0..MaxFaults /\ Deployment!TypeOK
      /\ Deployment!Pending(x.release) \subseteq Deployment!Versions
  BY VersionsNumbered DEF Deployment!IInv, Deployment!TypeOK, Deployment!Run, Deployment!Pending
<1>1. backend = "postgres" =>
        /\ \A q \in Migrators : mig[q].pc = "apply" <=> lock = q
        /\ \A q \in Migrators : mig[q].pc # "apply" => mig[q].staged = {}
        /\ x.pc = "apply" => x.todo \cup x.staged = Deployment!Pending(x.release)
  BY DEF Deployment!IInv, Deployment!LockedRead
<1>2. x.todo # {} => Deployment!Lowest(x.todo) \in x.todo
  BY <1>0, LowestIsOne, VersionsNumbered
<1>3. CASE Deployment!LockAndRead(m)
  <2> DEFINE v == [x EXCEPT !.pc = "apply", !.todo = Deployment!Pending(x.release)]
  <2>1. v \in Deployment!Run /\ v.pc = "apply" /\ v.todo = Deployment!Pending(x.release) /\ v.staged = x.staged
        /\ v.release = x.release
    BY <1>0 DEF Deployment!Run
  <2>2. mig' = [mig EXCEPT ![m] = v]
    BY <1>0, <1>3 DEF Deployment!LockAndRead
  <2>3. /\ backend = "postgres" /\ x.pc = "new" /\ lock = Nobody /\ lock' = m
        /\ UNCHANGED <<backend, applied, srv, up, faults, refused>>
    BY <1>3 DEF Deployment!LockAndRead
  <2> HIDE DEF v
  <2>4. Deployment!TypeOK' /\ Deployment!ServersChecked' /\ mig'[m] = v /\ \A q \in Migrators : q # m => mig'[q] = mig[q]
    BY <1>0, <2>1, <2>2, <2>3, RunMoves
  <2>5. Deployment!WholeReleases'
    BY <2>3 DEF Deployment!IInv, Deployment!WholeReleases
  <2>6. Deployment!LockedRead'
    <3> SUFFICES ASSUME NEW q \in Migrators
                 PROVE  /\ mig'[q].pc = "apply" <=> lock' = q
                        /\ IF mig'[q].pc = "apply"
                             THEN mig'[q].todo \cup mig'[q].staged = Embeds[mig'[q].release] \ applied'
                             ELSE mig'[q].staged = {}
      BY DEF Deployment!LockedRead, Deployment!Pending
    <3>1. CASE q = m
      BY <1>1, <2>1, <2>3, <2>4, <3>1 DEF Deployment!Pending
    <3>2. CASE q # m
      <4>1. mig[q].pc # "apply"
        BY <1>1, <2>3 DEF Deployment!WellFormed
      <4> QED
        BY <1>1, <2>3, <2>4, <3>2, <4>1
    <3> QED
      BY <3>1, <3>2
  <2> QED
    BY <2>4, <2>5, <2>6 DEF Deployment!IInv
<1>4. CASE Deployment!StageMigration(m)
  <2> DEFINE w == Deployment!Lowest(x.todo)
             v == [x EXCEPT !.todo = @ \ {w}, !.staged = @ \cup {w}]
  <2>1. /\ backend = "postgres" /\ x.pc = "apply" /\ x.todo # {}
        /\ UNCHANGED <<backend, applied, srv, up, faults>>
    BY <1>4 DEF Deployment!StageMigration
  <2>2. w \in x.todo /\ w \in Deployment!Versions /\ w \notin applied
    BY <1>0, <1>1, <1>2, <2>1 DEF Deployment!Pending
  <2>3. mig' = [mig EXCEPT ![m].todo = @ \ {w}, ![m].staged = @ \cup {w}] /\ UNCHANGED <<lock, refused>>
    BY <1>4, <2>2 DEF Deployment!StageMigration
  <2> HIDE DEF w
  <2>4. /\ v \in Deployment!Run /\ v.pc = "apply" /\ v.todo = x.todo \ {w} /\ v.staged = x.staged \cup {w}
        /\ v.release = x.release
    BY <1>0, <2>1, <2>2 DEF Deployment!Run
  <2>5. mig' = [mig EXCEPT ![m] = v]
    BY <1>0, <2>3
  <2>6. v.todo \cup v.staged = x.todo \cup x.staged
    BY <2>2, <2>4
  <2> HIDE DEF v
  <2>7. Deployment!TypeOK' /\ Deployment!ServersChecked' /\ mig'[m] = v /\ \A q \in Migrators : q # m => mig'[q] = mig[q]
    BY <1>0, <2>1, <2>3, <2>4, <2>5, RunMoves
  <2>8. Deployment!WholeReleases'
    BY <2>1, <2>3 DEF Deployment!IInv, Deployment!WholeReleases
  <2>9. Deployment!LockedRead'
    <3> SUFFICES ASSUME NEW q \in Migrators
                 PROVE  /\ mig'[q].pc = "apply" <=> lock' = q
                        /\ IF mig'[q].pc = "apply"
                             THEN mig'[q].todo \cup mig'[q].staged = Embeds[mig'[q].release] \ applied'
                             ELSE mig'[q].staged = {}
      BY DEF Deployment!LockedRead, Deployment!Pending
    <3>1. CASE q = m
      BY <1>1, <2>1, <2>3, <2>4, <2>6, <2>7, <3>1 DEF Deployment!Pending
    <3>2. CASE q # m
      <4>1. mig[q].pc # "apply" /\ lock # q
        BY <1>1, <2>1, <3>2
      <4> QED
        BY <1>1, <2>1, <2>3, <2>7, <3>2, <4>1
    <3> QED
      BY <3>1, <3>2
  <2> QED
    BY <2>7, <2>8, <2>9 DEF Deployment!IInv
<1>5. CASE Deployment!CommitMigrations(m)
  <2>1. /\ backend = "postgres" /\ x.pc = "apply" /\ x.todo = {} /\ applied' = applied \cup x.staged
        /\ lock' = Nobody /\ UNCHANGED <<backend, srv, up, faults, refused>> /\ Deployment!Ends(m)
    BY <1>5 DEF Deployment!CommitMigrations
  <2>2. PICK v \in Deployment!Run : mig' = [mig EXCEPT ![m] = v] /\ v.pc = "done" /\ v.staged = {}
    BY <1>0, <2>1, RunOver DEF Deployment!Ends
  <2>3. applied \subseteq applied' /\ applied' \subseteq Deployment!Versions
    BY <1>0, <2>1
  <2>4. Deployment!TypeOK' /\ Deployment!ServersChecked' /\ mig'[m] = v /\ \A q \in Migrators : q # m => mig'[q] = mig[q]
    BY <1>0, <2>1, <2>2, <2>3, RunMoves
  <2>5. Deployment!LockedRead'
    BY <1>1, <2>1, <2>2, <2>4, LockReleased
  <2>6. Deployment!WholeReleases'
    <3>1. applied' = applied \cup Embeds[x.release]
      BY <1>1, <2>1 DEF Deployment!Pending
    <3>2. PICK S \in SUBSET Releases : applied = UNION {Embeds[r] : r \in S}
      BY <2>1 DEF Deployment!IInv, Deployment!WholeReleases
    <3>3. applied' = UNION {Embeds[r] : r \in S \cup {x.release}}
      BY <3>1, <3>2
    <3>4. S \cup {x.release} \in SUBSET Releases
      BY <1>0
    <3> QED
      BY <2>1, <3>3, <3>4 DEF Deployment!IInv, Deployment!WholeReleases
  <2> QED
    BY <2>4, <2>5, <2>6 DEF Deployment!IInv
<1>6. ASSUME backend = "sqlite", NEW v \in Deployment!Run, mig' = [mig EXCEPT ![m] = v],
             UNCHANGED <<backend, srv, up>>, lock' \in Migrators \cup {Nobody},
             faults' \in 0..MaxFaults, refused' \subseteq Migrators,
             applied \subseteq applied', applied' \subseteq Deployment!Versions
      PROVE  Deployment!IInv'
  BY <1>6, RunMoves DEF Deployment!IInv, Deployment!LockedRead, Deployment!WholeReleases
<1>7. CASE Deployment!ReadVersions(m)
  <2> DEFINE v == [x EXCEPT !.pc = "apply", !.todo = Deployment!Pending(x.release)]
  <2>1. v \in Deployment!Run
    BY <1>0 DEF Deployment!Run
  <2>2. mig' = [mig EXCEPT ![m] = v]
    BY <1>0, <1>7 DEF Deployment!ReadVersions
  <2> HIDE DEF v
  <2> QED
    BY <1>0, <1>6, <1>7, <2>1, <2>2 DEF Deployment!ReadVersions
<1>8. CASE Deployment!ApplyMigration(m)
  <2> DEFINE w == Deployment!Lowest(x.todo)
             v == [x EXCEPT !.todo = @ \ {w}]
  <2>1. backend = "sqlite" /\ w \in Deployment!Versions /\ UNCHANGED <<backend, lock, srv, up, faults>>
    BY <1>0, <1>2, <1>8 DEF Deployment!ApplyMigration
  <2>2. CASE w \in applied
    <3>1. Deployment!Ends(m) /\ refused' = refused \cup {m} /\ UNCHANGED applied
      BY <1>8, <2>2 DEF Deployment!ApplyMigration
    <3>2. PICK u \in Deployment!Run : mig' = [mig EXCEPT ![m] = u]
      BY <1>0, <3>1, RunOver DEF Deployment!Ends
    <3> QED
      BY <1>0, <1>6, <2>1, <3>1, <3>2
  <2>3. CASE w \notin applied
    <3>1. applied' = applied \cup {w} /\ mig' = [mig EXCEPT ![m].todo = @ \ {w}] /\ UNCHANGED refused
      BY <1>8, <2>3 DEF Deployment!ApplyMigration
    <3> HIDE DEF w
    <3>2. v \in Deployment!Run
      BY <1>0 DEF Deployment!Run
    <3>3. mig' = [mig EXCEPT ![m] = v]
      BY <1>0, <3>1
    <3> HIDE DEF v
    <3> QED
      BY <1>0, <1>6, <2>1, <3>1, <3>2, <3>3
  <2> QED
    BY <2>2, <2>3
<1>9. CASE Deployment!MigrateReturns(m)
  <2>1. PICK v \in Deployment!Run : mig' = [mig EXCEPT ![m] = v]
    BY <1>0, <1>9, RunOver DEF Deployment!MigrateReturns, Deployment!Ends
  <2> QED
    BY <1>0, <1>6, <1>9, <2>1 DEF Deployment!MigrateReturns
<1>10. CASE Deployment!MigrateFails(m)
  <2>1. /\ x.pc = "apply" /\ UNCHANGED <<backend, applied, srv, up, refused>>
        /\ lock' = IF lock = m THEN Nobody ELSE lock
        /\ faults' = faults + 1 /\ faults < MaxFaults
    BY <1>10 DEF Deployment!MigrateFails, Deployment!Rollback
  <2>2. PICK v \in Deployment!Run : mig' = [mig EXCEPT ![m] = v] /\ v.pc = "new" /\ v.staged = {}
    BY <1>0, <1>10, RunOver DEF Deployment!MigrateFails
  <2>3. faults' \in 0..MaxFaults /\ lock' \in Migrators \cup {Nobody}
    <3>1. faults' \in 0..MaxFaults
      BY SMTT(30), <1>0, <2>1 DEF Deployment!WellFormed
    <3> QED
      BY <1>0, <2>1, <3>1
  <2>4. Deployment!TypeOK' /\ Deployment!ServersChecked' /\ mig'[m] = v /\ \A q \in Migrators : q # m => mig'[q] = mig[q]
    BY <1>0, <2>1, <2>2, <2>3, RunMoves
  <2>5. Deployment!LockedRead'
    <3>1. CASE backend = "postgres"
      BY <1>1, <2>1, <2>2, <2>4, <3>1, LockReleased
    <3>2. CASE backend # "postgres"
      BY <2>1, <3>2 DEF Deployment!LockedRead
    <3> QED
      BY <3>1, <3>2
  <2>6. Deployment!WholeReleases'
    BY <2>1 DEF Deployment!IInv, Deployment!WholeReleases
  <2> QED
    BY <2>4, <2>5, <2>6 DEF Deployment!IInv
<1> QED
  BY <1>3, <1>4, <1>5, <1>7, <1>8, <1>9, <1>10 DEF Deployment!Migrate

-----------------------------------------------------------------------------
(* The theorems.                                                           *)

LEMMA DeploymentInit ==
    ASSUME Deployment!WellFormed, Deployment!Init
    PROVE  Deployment!IInv
<1>1. ASSUME NEW m \in Migrators
      PROVE  mig[m] \in Deployment!Run /\ mig[m].pc = "new" /\ mig[m].staged = {}
  <2>1. PICK r \in Releases : mig[m] = [pc |-> "new", release |-> r, todo |-> {}, staged |-> {}]
    BY <1>1 DEF Deployment!Init
  <2> QED
    BY SMTT(30), <2>1 DEF Deployment!Run
<1>2. ASSUME NEW s \in Servers
      PROVE  srv[s] \in Deployment!Server /\ srv[s].pc = "down" /\ \A c \in Deployment!Components : srv[s].comp[c] = "off"
  <2>1. PICK r \in Releases : srv[s] = Deployment!Down(r)
    BY <1>2 DEF Deployment!Init
  <2> QED
    BY SMTT(30), <2>1, DownTyped DEF Deployment!Down
<1>3. PICK S \in SUBSET Releases : applied = UNION {Embeds[r] : r \in S}
  <2>1. CASE applied = {}
    BY <2>1
  <2>2. ASSUME NEW r \in Releases, applied = Embeds[r]
        PROVE  \E S \in SUBSET Releases : applied = UNION {Embeds[q] : q \in S}
    <3>1. applied = UNION {Embeds[q] : q \in {r}}
      BY <2>2
    <3> QED
      BY <3>1
  <2> QED
    BY <2>1, <2>2 DEF Deployment!Init
<1>4. mig \in [Migrators -> Deployment!Run] /\ srv \in [Servers -> Deployment!Server]
  BY <1>1, <1>2 DEF Deployment!Init
<1>5. applied \subseteq Deployment!Versions
  BY <1>3 DEF Deployment!Versions
<1>6. 0 \in 0..MaxFaults
  BY SMTT(30) DEF Deployment!WellFormed
<1>7. Deployment!TypeOK
  BY <1>4, <1>5, <1>6 DEF Deployment!Init, Deployment!TypeOK
<1>8. Deployment!LockedRead
  BY <1>1 DEF Deployment!Init, Deployment!LockedRead, Deployment!WellFormed
<1>9. Deployment!WholeReleases
  BY <1>3 DEF Deployment!Init, Deployment!WholeReleases
<1>10. Deployment!ServersChecked
  BY <1>2 DEF Deployment!ServersChecked
<1> QED
  BY <1>7, <1>8, <1>9, <1>10 DEF Deployment!IInv

LEMMA DeploymentNext ==
    ASSUME Deployment!WellFormed, Deployment!IInv, [Deployment!Next]_(Deployment!vars)
    PROVE  Deployment!IInv'
<1>1. CASE Deployment!Outage
  <2>1. UNCHANGED <<Deployment!serverOnly, srv>> /\ up' \in BOOLEAN
    BY <1>1 DEF Deployment!Outage
  <2>2. faults' \in 0..MaxFaults
    BY SMTT(30), <1>1 DEF Deployment!Outage, Deployment!IInv, Deployment!TypeOK, Deployment!WellFormed
  <2> QED
    BY <2>1, <2>2 DEF Deployment!serverOnly, Deployment!IInv, Deployment!TypeOK, Deployment!LockedRead, Deployment!WholeReleases, Deployment!ServersChecked, Deployment!Pending
<1>2. CASE UNCHANGED Deployment!vars
  BY <1>2 DEF Deployment!vars, Deployment!IInv, Deployment!TypeOK, Deployment!LockedRead, Deployment!WholeReleases, Deployment!ServersChecked, Deployment!Pending
<1> QED
  BY <1>1, <1>2, ServeStep, MigrateStep DEF Deployment!Next

\* The invariant is inductive: the run that holds migrationLockID still finds
\* pending what it read as pending, and a server past storeReady keeps its schema.
THEOREM DeploymentInvariant ==
    ASSUME Deployment!WellFormed
    PROVE  Deployment!Spec => []Deployment!IInv
<1>1. Deployment!Init => Deployment!IInv
  BY DeploymentInit
<1>2. Deployment!IInv /\ [Deployment!Next]_(Deployment!vars) => Deployment!IInv'
  BY DeploymentNext
<1> QED
  BY <1>1, <1>2, PTL DEF Deployment!Spec

\* Migrate on Postgres, however many runs of however many releases race, fail
\* or die: the schema is always the union of whole releases, and no run fails
\* on a version another run has applied.
THEOREM MigrationsWhole ==
    ASSUME Deployment!WellFormed
    PROVE  Deployment!Spec => []Deployment!WholeReleases
<1>1. Deployment!IInv => Deployment!WholeReleases
  BY DEF Deployment!IInv
<1> QED
  BY <1>1, DeploymentInvariant, PTL

\* serve, under any number of migrations racing it, outages and restarts: a
\* bound listener has its whole schema and its keys behind it.
THEOREM ListenersServe ==
    ASSUME Deployment!WellFormed
    PROVE  Deployment!Spec => []Deployment!ServesCurrentSchema
<1>1. ASSUME Deployment!IInv PROVE Deployment!ServesCurrentSchema
  <2> SUFFICES ASSUME NEW s \in Servers, NEW c \in {"public", "admin"}, srv[s].comp[c] = "up"
               PROVE  srv[s].keys /\ Embeds[srv[s].release] \subseteq applied
    BY DEF Deployment!ServesCurrentSchema, Deployment!Ready
  <2>1. srv[s].pc \in {"down", "keys", "running", "stopping"} /\ c \in Deployment!Components
    BY <1>1 DEF Deployment!IInv, Deployment!TypeOK, Deployment!Server, Deployment!Components
  <2> QED
    BY <1>1, <2>1 DEF Deployment!IInv, Deployment!ServersChecked
<1> QED
  BY <1>1, DeploymentInvariant, PTL

-----------------------------------------------------------------------------
(* Discovery.                                                              *)

CONSTANTS Callbacks, InitialBackoff, MaxBackoff, CallTimeout, CompleteTimeout, MaxOutages, Horizon

VARIABLES outages, mu, cb, verifier, failed, backoff, wait, since

Discovery == INSTANCE Discovery

LEMMA DiscoveryConstants ==
    ASSUME Discovery!WellFormed
    PROVE  /\ InitialBackoff \in Nat /\ MaxBackoff \in Nat /\ CallTimeout \in Nat
           /\ CompleteTimeout \in Nat /\ MaxOutages \in Nat /\ Horizon \in Nat
           /\ 0 < InitialBackoff /\ InitialBackoff <= MaxBackoff /\ MaxBackoff <= Horizon
           /\ Nobody \notin Callbacks
BY DEF Discovery!WellFormed

\* The backoff doubles, from its least to its greatest value.
LEMMA BackoffInRange ==
    ASSUME Discovery!WellFormed, backoff \in 0..MaxBackoff
    PROVE  Discovery!NextBackoff \in InitialBackoff..MaxBackoff
BY DiscoveryConstants, SMTT(30) DEF Discovery!NextBackoff, Discovery!AtMost, Discovery!AtLeast

\* What is left of a window and what has passed of it make up the whole.
LEMMA WindowAddsUp ==
    ASSUME NEW b \in Nat, NEW elapsed \in Nat
    PROVE  Discovery!Window(b, elapsed) \in Nat /\ Discovery!Window(b, elapsed) + elapsed >= b
BY SMTT(30) DEF Discovery!Window

\* A unit of time taken from what is left of a window is added to what has passed.
LEMMA WindowPasses ==
    ASSUME Discovery!WellFormed, NEW w \in Nat, NEW t \in 0..Horizon, NEW b \in 0..MaxBackoff
    PROVE  /\ Discovery!Less(w) \in Nat /\ Discovery!AtMost(t + 1, Horizon) \in 0..Horizon
           /\ w + t >= b => Discovery!Less(w) + Discovery!AtMost(t + 1, Horizon) >= b
           /\ Discovery!AtMost(t + 1, Horizon) = t + 1 \/ Discovery!AtMost(t + 1, Horizon) = Horizon
<1>1. Discovery!Less(w) \in Nat /\ Discovery!Less(w) + 1 >= w
  BY SMTT(30) DEF Discovery!Less
<1>2. \/ Discovery!AtMost(t + 1, Horizon) = t + 1 /\ t + 1 <= Horizon
      \/ Discovery!AtMost(t + 1, Horizon) = Horizon
  BY ZenonT(30) DEF Discovery!AtMost
<1> DEFINE l == Discovery!Less(w)
           u == Discovery!AtMost(t + 1, Horizon)
<1> HIDE DEF l, u
<1>3. l \in Nat /\ l + 1 >= w /\ ((u = t + 1 /\ t + 1 <= Horizon) \/ u = Horizon)
  BY <1>1, <1>2 DEF l, u
<1>4. CASE u = Horizon
  <2>1. l + Horizon >= b
    BY <1>3, DiscoveryConstants, SMTT(30)
  <2>2. Horizon \in 0..Horizon
    BY SMTT(30), DiscoveryConstants
  <2> QED
    BY <1>3, <1>4, <2>1, <2>2, ZenonT(30) DEF l, u
<1>5. CASE u = t + 1 /\ t + 1 <= Horizon
  <2>1. w + t >= b => l + (t + 1) >= b
    BY <1>3, DiscoveryConstants, SMTT(30)
  <2>2. t + 1 \in 0..Horizon
    BY <1>5, DiscoveryConstants, SMTT(30)
  <2> QED
    BY <1>3, <1>5, <2>1, <2>2, ZenonT(30) DEF l, u
<1> QED
  BY <1>3, <1>4, <1>5

\* A callback that goes on, without dialling any more.
LEMMA CallbackGoes ==
    ASSUME Discovery!WellFormed, Discovery!TypeOK, NEW c \in Callbacks,
           NEW pc \in {"idle", "lock", "dial", "exchange", "ok", "error"}, Discovery!Goes(c, pc)
    PROVE  /\ cb' \in [Callbacks -> Discovery!Callback]
           /\ cb'[c].pc = pc /\ cb'[c].dialling = 0
           /\ \A d \in Callbacks : d # c => cb'[d] = cb[d]
<1> DEFINE v == [cb[c] EXCEPT !.pc = pc, !.dialling = 0]
<1>1. cb \in [Callbacks -> Discovery!Callback] /\ cb[c] \in Discovery!Callback
  BY DEF Discovery!TypeOK
<1>2. 0 \in 0..CallTimeout
  BY SMTT(30), DiscoveryConstants
<1>3. v \in Discovery!Callback /\ v.pc = pc /\ v.dialling = 0
  BY <1>1, <1>2 DEF Discovery!Callback
<1>4. cb' = [cb EXCEPT ![c] = v]
  BY <1>1 DEF Discovery!Goes
<1> HIDE DEF v
<1> QED
  BY <1>1, <1>3, <1>4

LEMMA DiscoveryInit ==
    ASSUME Discovery!WellFormed, Discovery!Init
    PROVE  Discovery!IInv
<1>1. 0 \in 0..MaxBackoff /\ 0 \in 0..CallTimeout /\ 0 \in 0..CompleteTimeout /\ 0 \in 0..MaxOutages
      /\ 0 \in Nat /\ Horizon \in 0..Horizon
  BY SMTT(30), DiscoveryConstants
<1>2. Discovery!Idle \in Discovery!Callback /\ Discovery!Idle.pc = "idle"
  BY <1>1 DEF Discovery!Idle, Discovery!Callback
<1>3. cb \in [Callbacks -> Discovery!Callback] /\ \A c \in Callbacks : cb[c].pc = "idle"
  BY <1>2 DEF Discovery!Init
<1>4. Discovery!TypeOK
  BY <1>1, <1>3 DEF Discovery!Init, Discovery!TypeOK
<1> QED
  BY <1>3, <1>4, DiscoveryConstants DEF Discovery!Init, Discovery!IInv, Discovery!DiallerHolds, Discovery!WindowCovers

\* A step of a callback that neither begins nor ends a dial.
LEMMA MutexUnseen ==
    ASSUME Discovery!WellFormed, Discovery!IInv, NEW c \in Callbacks, cb' \in [Callbacks -> Discovery!Callback],
           \A d \in Callbacks : d # c => cb'[d] = cb[d], cb[c].pc # "dial", cb'[c].pc # "dial",
           UNCHANGED <<up, outages, mu, verifier, failed, backoff, wait, since>>
    PROVE  Discovery!IInv'
<1>1. Discovery!TypeOK'
  BY DEF Discovery!IInv, Discovery!TypeOK
<1>2. Discovery!DiallerHolds'
  BY DEF Discovery!IInv, Discovery!DiallerHolds
<1>3. Discovery!WindowCovers'
  BY DEF Discovery!IInv, Discovery!WindowCovers
<1> QED
  BY <1>1, <1>2, <1>3 DEF Discovery!IInv

\* The callback that held the mutex has dialled: nobody dials.
LEMMA MutexReleased ==
    ASSUME Discovery!WellFormed, Discovery!IInv, NEW c \in Callbacks, mu = c, mu' = Nobody, cb'[c].pc # "dial",
           \A d \in Callbacks : d # c => cb'[d] = cb[d]
    PROVE  Discovery!DiallerHolds'
<1> SUFFICES ASSUME NEW d \in Callbacks PROVE cb'[d].pc # "dial" /\ mu' # d
  BY DEF Discovery!DiallerHolds
<1>1. mu' # d
  BY DiscoveryConstants
<1>2. CASE d # c
  BY <1>1, <1>2 DEF Discovery!IInv, Discovery!DiallerHolds
<1> QED
  BY <1>1, <1>2

LEMMA CallbackStep ==
    ASSUME Discovery!WellFormed, Discovery!IInv, NEW c \in Callbacks, Discovery!Arrive(c) \/ Discovery!Step(c)
    PROVE  Discovery!IInv'
<1>0. Discovery!TypeOK /\ cb[c] \in Discovery!Callback /\ cb \in [Callbacks -> Discovery!Callback]
  BY DEF Discovery!IInv, Discovery!TypeOK
<1>1. CASE Discovery!Arrive(c)
  <2> DEFINE v == [pc |-> "lock", left |-> CompleteTimeout, dialling |-> 0]
  <2>1. CompleteTimeout \in 0..CompleteTimeout /\ 0 \in 0..CallTimeout
    BY SMTT(30), DiscoveryConstants
  <2>2. v \in Discovery!Callback /\ v.pc = "lock"
    BY <2>1 DEF Discovery!Callback
  <2>3. cb' = [cb EXCEPT ![c] = v]
    BY <1>1 DEF Discovery!Arrive
  <2> HIDE DEF v
  <2>4. cb' \in [Callbacks -> Discovery!Callback] /\ cb'[c].pc = "lock" /\ \A d \in Callbacks : d # c => cb'[d] = cb[d]
    BY <1>0, <2>2, <2>3
  <2> QED
    BY <1>1, <2>4, MutexUnseen DEF Discovery!Arrive
<1>2. CASE Discovery!Cached(c)
  <2>1. PICK pc \in {"exchange", "error"} : Discovery!Goes(c, pc)
    BY <1>2 DEF Discovery!Cached
  <2> QED
    BY <1>0, <1>2, <2>1, CallbackGoes, MutexUnseen DEF Discovery!Cached
<1>3. CASE Discovery!Finish(c)
  <2>1. PICK pc \in {"ok", "error"} : Discovery!Goes(c, pc)
    BY <1>3 DEF Discovery!Finish
  <2> QED
    BY <1>0, <1>3, <2>1, CallbackGoes, MutexUnseen DEF Discovery!Finish
<1>4. CASE Discovery!Dial(c)
  <2>1. /\ mu = Nobody /\ mu' = c /\ since' = 0 /\ Discovery!Goes(c, "dial")
        /\ UNCHANGED <<up, outages, verifier, failed, backoff, wait>>
    BY <1>4 DEF Discovery!Dial
  <2>2. /\ cb' \in [Callbacks -> Discovery!Callback] /\ cb'[c].pc = "dial" /\ cb'[c].dialling = 0
        /\ \A d \in Callbacks : d # c => cb'[d] = cb[d]
    BY <1>0, <2>1, CallbackGoes
  <2>3. since' \in 0..Horizon
    BY SMTT(30), <2>1, DiscoveryConstants
  <2>4. Discovery!TypeOK'
    BY <1>0, <2>1, <2>2, <2>3 DEF Discovery!TypeOK
  <2>5. Discovery!DiallerHolds'
    <3> SUFFICES ASSUME NEW d \in Callbacks
                 PROVE  /\ cb'[d].pc = "dial" <=> mu' = d
                        /\ cb'[d].pc = "dial" => cb'[d].dialling <= since' \/ since' = Horizon
      BY DEF Discovery!DiallerHolds
    <3>1. CASE d = c
      BY SMTT(30), <2>1, <2>2, <3>1
    <3>2. CASE d # c
      <4>1. cb[d].pc # "dial"
        BY <2>1, DiscoveryConstants DEF Discovery!IInv, Discovery!DiallerHolds
      <4> QED
        BY <2>1, <2>2, <3>2, <4>1
    <3> QED
      BY <3>1, <3>2
  <2>6. Discovery!WindowCovers'
    BY <2>1, DiscoveryConstants DEF Discovery!IInv, Discovery!WindowCovers
  <2> QED
    BY <2>4, <2>5, <2>6 DEF Discovery!IInv
<1>5. CASE Discovery!Discovered(c)
  <2>1. /\ cb[c].pc = "dial" /\ verifier' = TRUE /\ failed' = FALSE /\ backoff' = 0 /\ mu' = Nobody
        /\ Discovery!Goes(c, "exchange") /\ UNCHANGED <<up, outages, wait, since>>
    BY <1>5 DEF Discovery!Discovered
  <2>2. /\ cb' \in [Callbacks -> Discovery!Callback] /\ cb'[c].pc = "exchange"
        /\ \A d \in Callbacks : d # c => cb'[d] = cb[d]
    BY <1>0, <2>1, CallbackGoes
  <2>3. backoff' \in 0..MaxBackoff
    BY SMTT(30), <2>1, DiscoveryConstants
  <2>4. Discovery!TypeOK'
    BY <1>0, <2>1, <2>2, <2>3 DEF Discovery!TypeOK
  <2>5. Discovery!DiallerHolds'
    <3>1. mu = c
      BY <2>1 DEF Discovery!IInv, Discovery!DiallerHolds
    <3> QED
      BY <2>1, <2>2, <3>1, MutexReleased
  <2>6. Discovery!WindowCovers'
    BY <2>1 DEF Discovery!WindowCovers
  <2> QED
    BY <2>4, <2>5, <2>6 DEF Discovery!IInv
<1>6. CASE Discovery!DiscoveryFailed(c)
  <2> DEFINE e == cb[c].dialling
  <2>1. /\ cb[c].pc = "dial" /\ failed' = TRUE /\ backoff' = Discovery!NextBackoff /\ mu' = Nobody
        /\ wait' = Discovery!Window(Discovery!NextBackoff, e) /\ Discovery!Goes(c, "error") /\ UNCHANGED <<up, outages, verifier, since>>
    BY <1>6 DEF Discovery!DiscoveryFailed
  <2>2. /\ cb' \in [Callbacks -> Discovery!Callback] /\ cb'[c].pc = "error"
        /\ \A d \in Callbacks : d # c => cb'[d] = cb[d]
    BY <1>0, <2>1, CallbackGoes
  <2>3. backoff' \in InitialBackoff..MaxBackoff
    BY <1>0, <2>1, BackoffInRange DEF Discovery!TypeOK
  <2>4. backoff' \in 0..MaxBackoff /\ backoff' \in Nat
    BY SMTT(30), <2>3, DiscoveryConstants
  <2>5. e \in Nat /\ since \in Nat /\ (e <= since \/ since = Horizon)
    <3>1. e \in 0..CallTimeout /\ since \in 0..Horizon
      BY <1>0 DEF Discovery!TypeOK, Discovery!Callback
    <3>2. e <= since \/ since = Horizon
      BY <2>1 DEF Discovery!IInv, Discovery!DiallerHolds
    <3> QED
      BY SMTT(30), <3>1, <3>2, DiscoveryConstants
  <2>6. wait' \in Nat /\ wait' + e >= backoff'
    BY <2>1, <2>4, <2>5, WindowAddsUp
  <2>7. Discovery!TypeOK'
    BY <1>0, <2>1, <2>2, <2>4, <2>6 DEF Discovery!TypeOK
  <2>8. Discovery!DiallerHolds'
    <3>1. mu = c
      BY <2>1 DEF Discovery!IInv, Discovery!DiallerHolds
    <3> QED
      BY <2>1, <2>2, <3>1, MutexReleased
  <2>9. Discovery!WindowCovers'
    <3> HIDE DEF e
    <3>1. wait' + since' >= backoff'
      BY SMTT(30), <2>1, <2>3, <2>4, <2>5, <2>6, DiscoveryConstants
    <3> QED
      BY <2>3, <3>1 DEF Discovery!WindowCovers
  <2> QED
    BY <2>7, <2>8, <2>9 DEF Discovery!IInv
<1> QED
  BY <1>1, <1>2, <1>3, <1>4, <1>5, <1>6 DEF Discovery!Step

LEMMA WaitStep ==
    ASSUME Discovery!WellFormed, Discovery!IInv, Discovery!Tick
    PROVE  Discovery!IInv'
<1> DEFINE Later(c) == [cb[c] EXCEPT !.left = Discovery!Less(@), !.dialling = IF cb[c].pc = "dial" THEN @ + 1 ELSE @]
<1>0. /\ Discovery!TypeOK /\ cb' = [c \in Callbacks |-> Later(c)] /\ wait' = Discovery!Less(wait)
      /\ since' = Discovery!AtMost(since + 1, Horizon)
      /\ UNCHANGED <<up, outages, mu, verifier, failed, backoff>>
  BY DEF Discovery!IInv, Discovery!Tick
<1>1. ASSUME NEW c \in Callbacks
      PROVE  /\ Later(c) \in Discovery!Callback /\ Later(c).pc = cb[c].pc
             /\ cb[c].pc = "dial" => Later(c).dialling = cb[c].dialling + 1
  <2>1. cb[c] \in Discovery!Callback /\ cb[c].left \in 0..CompleteTimeout /\ cb[c].dialling \in 0..CallTimeout
    BY <1>0 DEF Discovery!TypeOK, Discovery!Callback
  <2>2. Discovery!Less(cb[c].left) \in 0..CompleteTimeout
    BY <2>1, DiscoveryConstants, SMTT(30) DEF Discovery!Less
  <2>3. cb[c].pc = "dial" => cb[c].dialling + 1 \in 0..CallTimeout
    <3>1. cb[c].pc = "dial" => cb[c].dialling < CallTimeout
      BY DEF Discovery!Tick
    <3> QED
      BY SMTT(30), <2>1, <3>1, DiscoveryConstants
  <2>4. PICK l \in 0..CompleteTimeout, n \in 0..CallTimeout :
          /\ l = Discovery!Less(cb[c].left) /\ n = IF cb[c].pc = "dial" THEN cb[c].dialling + 1 ELSE cb[c].dialling
    BY <2>1, <2>2, <2>3
  <2>5. Later(c) = [cb[c] EXCEPT !.left = l, !.dialling = n]
    BY <2>4
  <2> HIDE DEF Later
  <2>6. Later(c) \in Discovery!Callback /\ Later(c).pc = cb[c].pc /\ Later(c).dialling = n
    BY <2>1, <2>5 DEF Discovery!Callback
  <2> QED
    BY <2>4, <2>6
<1> HIDE DEF Later
<1>2. /\ wait' \in Nat /\ since \in 0..Horizon /\ since' \in 0..Horizon
      /\ wait + since >= backoff => wait' + since' >= backoff
      /\ since' = since + 1 \/ since' = Horizon
  BY <1>0, WindowPasses, ZenonT(30) DEF Discovery!TypeOK
<1>3. cb' \in [Callbacks -> Discovery!Callback]
  BY <1>0, <1>1
<1>4. Discovery!TypeOK'
  BY <1>0, <1>2, <1>3 DEF Discovery!TypeOK
<1>5. Discovery!DiallerHolds'
  <2> SUFFICES ASSUME NEW d \in Callbacks
               PROVE  /\ cb'[d].pc = "dial" <=> mu' = d
                      /\ cb'[d].pc = "dial" => cb'[d].dialling <= since' \/ since' = Horizon
    BY DEF Discovery!DiallerHolds
  <2>1. cb'[d] = Later(d) /\ cb'[d].pc = cb[d].pc
    BY <1>0, <1>1
  <2>2. cb'[d].pc = "dial" <=> mu' = d
    BY <1>0, <2>1 DEF Discovery!IInv, Discovery!DiallerHolds
  <2>3. ASSUME cb'[d].pc = "dial" PROVE cb'[d].dialling <= since' \/ since' = Horizon
    <3>1. cb'[d].dialling = cb[d].dialling + 1 /\ (cb[d].dialling <= since \/ since = Horizon)
      BY <1>1, <2>1, <2>3 DEF Discovery!IInv, Discovery!DiallerHolds
    <3>2. cb[d].dialling \in 0..CallTimeout
      BY <1>0 DEF Discovery!TypeOK, Discovery!Callback
    <3> QED
      BY SMTT(30), <1>2, <3>1, <3>2, DiscoveryConstants
  <2> QED
    BY <2>2, <2>3
<1>6. Discovery!WindowCovers'
  <2> SUFFICES ASSUME failed'
               PROVE  backoff' \in InitialBackoff..MaxBackoff /\ (mu' = Nobody => wait' + since' >= backoff')
    BY DEF Discovery!WindowCovers
  <2>1. backoff \in InitialBackoff..MaxBackoff /\ (mu = Nobody => wait + since >= backoff)
    BY <1>0 DEF Discovery!IInv, Discovery!WindowCovers
  <2> QED
    BY <1>0, <1>2, <2>1
<1> QED
  BY <1>4, <1>5, <1>6 DEF Discovery!IInv

LEMMA DiscoveryNext ==
    ASSUME Discovery!WellFormed, Discovery!IInv, [Discovery!Next]_(Discovery!vars)
    PROVE  Discovery!IInv'
<1>1. CASE Discovery!Flip
  <2>1. up' \in BOOLEAN /\ UNCHANGED <<mu, cb, verifier, failed, backoff, wait, since>>
    BY <1>1 DEF Discovery!Flip
  <2>2. outages' \in 0..MaxOutages
    BY SMTT(30), <1>1, DiscoveryConstants DEF Discovery!Flip, Discovery!IInv, Discovery!TypeOK
  <2> QED
    BY <2>1, <2>2 DEF Discovery!IInv, Discovery!TypeOK, Discovery!DiallerHolds, Discovery!WindowCovers
<1>2. CASE UNCHANGED Discovery!vars
  BY <1>2 DEF Discovery!vars, Discovery!IInv, Discovery!TypeOK, Discovery!DiallerHolds, Discovery!WindowCovers
<1> QED
  BY <1>1, <1>2, CallbackStep, WaitStep DEF Discovery!Next

\* The invariant is inductive: between dials Client.retryAt lies no nearer than
\* the backoff after the dial that failed began.
THEOREM DiscoveryInvariant ==
    ASSUME Discovery!WellFormed
    PROVE  Discovery!Spec => []Discovery!IInv
<1>1. Discovery!Init => Discovery!IInv
  BY DiscoveryInit
<1>2. Discovery!IInv /\ [Discovery!Next]_(Discovery!vars) => Discovery!IInv'
  BY DiscoveryNext
<1> QED
  BY <1>1, <1>2, PTL DEF Discovery!Spec

\* Only Dial begins a dial, with the mutex and outside the window.
LEMMA DialsWait ==
    ASSUME Discovery!WellFormed, Discovery!IInv, [Discovery!Next]_(Discovery!vars)
    PROVE  Discovery!DialStep \/ UNCHANGED Discovery!vars
<1> SUFFICES ASSUME NEW c \in Callbacks, cb[c].pc # "dial", cb'[c].pc = "dial"
             PROVE  /\ failed => since >= backoff /\ backoff \in InitialBackoff..MaxBackoff
                    /\ \A d \in Callbacks : cb[d].pc # "dial"
  BY DEF Discovery!DialStep
<1>0. Discovery!TypeOK /\ cb \in [Callbacks -> Discovery!Callback]
  BY DEF Discovery!IInv, Discovery!TypeOK
<1>1. ASSUME NEW d \in Callbacks, Discovery!Arrive(d) \/ Discovery!Step(d) PROVE Discovery!Dial(d)
  <2>1. CASE Discovery!Arrive(d)
    BY <1>0, <2>1 DEF Discovery!Arrive, Discovery!Callback
  <2>2. ASSUME NEW pc \in {"exchange", "ok", "error"}, Discovery!Goes(d, pc) PROVE FALSE
    BY <1>0, <2>2, CallbackGoes
  <2> QED
    BY <1>1, <2>1, <2>2 DEF Discovery!Step, Discovery!Cached, Discovery!Discovered, Discovery!DiscoveryFailed, Discovery!Finish
<1>2. ~Discovery!Tick
  <2> SUFFICES ASSUME Discovery!Tick PROVE FALSE
    OBVIOUS
  <2>1. cb'[c] = [cb[c] EXCEPT !.left = Discovery!Less(@), !.dialling = IF cb[c].pc = "dial" THEN @ + 1 ELSE @]
    BY DEF Discovery!Tick
  <2>2. cb[c] \in Discovery!Callback
    BY <1>0
  <2> QED
    BY <2>1, <2>2 DEF Discovery!Callback
<1>3. PICK d \in Callbacks : Discovery!Dial(d)
  BY <1>1, <1>2 DEF Discovery!Next, Discovery!Flip, Discovery!vars
<1>4. mu = Nobody /\ (failed => ~(wait > 0))
  BY <1>3 DEF Discovery!Dial, Discovery!MayDial
<1>5. \A q \in Callbacks : cb[q].pc # "dial"
  BY <1>4, DiscoveryConstants DEF Discovery!IInv, Discovery!DiallerHolds
<1>6. ASSUME failed PROVE since >= backoff /\ backoff \in InitialBackoff..MaxBackoff
  <2>1. backoff \in InitialBackoff..MaxBackoff /\ wait + since >= backoff
    BY <1>4, <1>6 DEF Discovery!IInv, Discovery!WindowCovers
  <2>2. wait \in Nat /\ since \in 0..Horizon /\ ~(wait > 0)
    BY <1>0, <1>4, <1>6 DEF Discovery!TypeOK
  <2> QED
    BY SMTT(30), <2>1, <2>2, DiscoveryConstants
<1> QED
  BY <1>5, <1>6

\* Client.idVerifier: the provider is dialled by one callback at a time, and
\* after a failure not before its backoff has passed since that dial began,
\* however long the dial took and whichever callbacks come.
THEOREM DialsAreSpaced ==
    ASSUME Discovery!WellFormed
    PROVE  Discovery!Spec => Discovery!DialsSpaced
<1>1. Discovery!IInv /\ [Discovery!Next]_(Discovery!vars) => [Discovery!DialStep]_(Discovery!vars)
  BY DialsWait
<1> QED
  BY <1>1, DiscoveryInvariant, PTL DEF Discovery!Spec, Discovery!DialsSpaced
=============================================================================
