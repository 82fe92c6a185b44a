---------------------------- MODULE SignInProofs ----------------------------
(***************************************************************************)
(* SignIn, for every number of runs, sign-ins, browsers and callbacks in   *)
(* flight, every lifetime and either store: one sign-in yields one code,   *)
(* and a run of `tempogate login` ends on a code of its own.               *)
(***************************************************************************)
EXTENDS SignIn, FiniteSetTheorems, WellFoundedInduction, TLAPS

\* Most leaves are first-order and Zenon's; the others do arithmetic.
USE ZenonT(30), SMTT(30)

-----------------------------------------------------------------------------
(* Rowids: the largest of finitely many.                                   *)

LEMMA LeastNatural ==
    ASSUME NEW T, T \subseteq Nat, T # {}
    PROVE  \E m \in T : \A n \in T : ~(n < m)
<1>1. PICK m \in T : \A n \in T : ~(<<n, m>> \in OpToRel(<, Nat))
  BY WFMin, NatLessThanWellFounded
<1> SUFFICES ASSUME NEW n \in T PROVE ~(n < m)
  OBVIOUS
<1>2. <<n, m>> \in Nat \X Nat /\ <<n, m>>[1] = n /\ <<n, m>>[2] = m
  BY SMTT(30)
<1> QED
  BY <1>1, <1>2, ZenonT(30) DEF OpToRel

\* A finite set of naturals has a largest element: a smallest subset without
\* one would lose it with any of its elements.
LEMMA MaxOfFinite ==
    ASSUME NEW S, S \subseteq Nat, S # {}, IsFiniteSet(S)
    PROVE  Max(S) \in S /\ \A n \in S : n <= Max(S)
<1> DEFINE Bounded(A) == \E m \in A : \A n \in A : n <= m
           T == {n \in Nat : \E A \in SUBSET S : A # {} /\ Cardinality(A) = n /\ ~Bounded(A)}
<1>1. T = {}
  <2> SUFFICES ASSUME T # {} PROVE FALSE
    OBVIOUS
  <2>1. PICK c \in T : \A n \in T : ~(n < c)
    BY LeastNatural
  <2>2. PICK A \in SUBSET S : A # {} /\ Cardinality(A) = c /\ ~Bounded(A)
    OBVIOUS
  <2>3. PICK a \in A : TRUE
    BY <2>2
  <2>4. IsFiniteSet(A) /\ c \in Nat
    BY FS_Subset
  <2>5. IsFiniteSet(A \ {a}) /\ Cardinality(A \ {a}) = c - 1 /\ c - 1 \in Nat
    <3>1. IsFiniteSet(A \ {a}) /\ Cardinality(A \ {a}) = c - 1
      BY <2>2, <2>3, <2>4, FS_RemoveElement
    <3>2. Cardinality(A \ {a}) \in Nat
      BY <3>1, FS_CardinalityType
    <3> QED
      BY <3>1, <3>2
  <2>6. c - 1 \notin T
    <3>1. c - 1 < c
      BY SMTT(30), <2>4
    <3> QED
      BY <2>1, <3>1, ZenonT(30)
  <2>7. A \ {a} = {} \/ Bounded(A \ {a})
    BY <2>5, <2>6
  <2>8. Bounded(A)
    <3>1. CASE A \ {a} = {}
      BY SMTT(30), <2>3, <3>1
    <3>2. CASE Bounded(A \ {a})
      <4>1. PICK m \in A \ {a} : \A n \in A \ {a} : n <= m
        BY <3>2
      <4>2. m \in Nat /\ a \in Nat
        BY <2>3, <4>1
      <4> QED
        BY SMTT(30), <2>3, <4>1, <4>2
    <3> QED
      BY <2>7, <3>1, <3>2
  <2> QED
    BY <2>2, <2>8
<1>2. Cardinality(S) \in Nat
  BY FS_CardinalityType
<1>3. \E m \in S : \A n \in S : n <= m
  BY <1>1, <1>2
<1>4. \E m \in S : \A n \in S : m >= n
  BY <1>3
<1>5. Max(S) \in S /\ \A n \in S : Max(S) >= n
  BY <1>4 DEF Max
<1> QED
  BY <1>5

Rowids == {requests[s].row : s \in Rows}

LEMMA RowidsFinite == TypeOK => IsFiniteSet(Rowids) /\ Rowids \subseteq Nat
<1> SUFFICES ASSUME TypeOK PROVE IsFiniteSet(Rowids) /\ Rowids \subseteq Nat
  OBVIOUS
<1> DEFINE f == [s \in Rows |-> requests[s].row]
<1>1. f \in Surjection(Rows, Rowids)
  BY DEF Surjection, Rowids
<1>2. IsFiniteSet(Rows)
  BY SignInAssumption, FS_Subset DEF Rows
<1>3. Rowids \subseteq Nat
  BY ZenonT(60) DEF Rowids, Rows, TypeOK, Request
<1> QED
  BY <1>1, <1>2, <1>3, FS_Surjection

\* SQLite hands out a rowid above every one in the table.
LEMMA NextRowidFresh ==
    TypeOK => NextRowid \in Nat \ {0} /\ \A s \in Rows : requests[s].row < NextRowid
<1> SUFFICES ASSUME TypeOK
             PROVE  NextRowid \in Nat \ {0} /\ \A s \in Rows : requests[s].row < NextRowid
  OBVIOUS
<1> DEFINE S == Rowids \cup {0}
<1>1. S \subseteq Nat /\ S # {} /\ IsFiniteSet(S)
  BY SMTT(30), RowidsFinite, FS_AddElement
<1>2. PICK m \in S : m = Max(S) /\ \A n \in S : n <= m
  BY <1>1, MaxOfFinite
<1>3. NextRowid = m + 1
  BY <1>2 DEF NextRowid, Rowids
<1>4. m \in Nat /\ \A s \in Rows : requests[s].row \in Nat /\ requests[s].row <= m
  BY <1>1, <1>2 DEF Rowids
<1> QED
  BY SMTT(30), <1>3, <1>4

\* The sweep's cursor, after a page.
LEMMA CursorTyped ==
    ASSUME TypeOK, NEW c \in Nat
    PROVE  Page(c) \subseteq Nat /\ Max(Page(c) \cup {c}) \in Nat
<1>1. Page(c) \subseteq Rowids
  BY DEF Page, Rowids
<1>2. Page(c) \subseteq Nat /\ IsFiniteSet(Page(c))
  BY <1>1, RowidsFinite, FS_Subset
<1>3. IsFiniteSet(Page(c) \cup {c})
  BY <1>2, FS_AddElement
<1>4. Max(Page(c) \cup {c}) \in Page(c) \cup {c}
  BY <1>2, <1>3, MaxOfFinite
<1> QED
  BY <1>2, <1>4

-----------------------------------------------------------------------------
(* Types.                                                                  *)

LEMMA Defaults == AnyLogin \in Logins /\ AnyState \in States /\ AnyBrowser \in Browsers
BY SignInAssumption DEF AnyLogin, AnyState, AnyBrowser

LEMMA IdleTyped == IdleCallback \in Callback /\ IdleCallback.pc = "idle"
BY Defaults DEF IdleCallback, Callback, Answer

LEMMA TypeInit == Init => TypeOK
BY SMTT(30), SignInAssumption, Defaults, IdleTyped
   DEF Init, TypeOK, Login, Result, Request, Trip, Code, Answer, IdleSweep

\* Deadlines and expiries.
LEMMA Later ==
    TypeOK => /\ now + CallbackTimeout \in Nat /\ now + RequestTTL \in Nat /\ now + CodeTTL \in Nat
              /\ now + 1 \in Nat
BY SMTT(30), SignInAssumption DEF TypeOK

LEMMA TypeNext == IInv /\ [Next]_vars => TypeOK'
<1> SUFFICES ASSUME IInv, [Next]_vars PROVE TypeOK'
  OBVIOUS
<1> USE SignInAssumption, Defaults, IdleTyped DEF IInv, TypeOK
<1>1. ASSUME NEW f \in Logins, Start(f) PROVE TypeOK'
  <2> DEFINE v == [login[f] EXCEPT !.pc = "await", !.deadline = now + CallbackTimeout]
  <2>0. login[f] \in Login
    OBVIOUS
  <2>1. v \in Login
    BY <2>0, Later DEF Login
  <2>2. login' = [login EXCEPT ![f] = v]
    BY <1>1 DEF Start
  <2> QED
    BY SMTT(30), <1>1, <2>1, <2>2 DEF Start
<1>2. ASSUME NEW f \in Logins, NEW r \in redirects, LoopbackCallback(f, r) PROVE TypeOK'
  <2> DEFINE w == IF login[f].result = "none" THEN (IF r.error THEN "error" ELSE r.state)
                  ELSE login[f].result
             v == [login[f] EXCEPT !.handled = TRUE, !.result = w]
  <2>1. login[f] \in Login /\ login[f].result \in Result /\ r.state \in States
    BY DEF Login
  <2>2. w \in Result
    BY <2>1 DEF Result
  <2>3. v \in Login
    BY <2>1, <2>2 DEF Login
  <2>4. login' = [login EXCEPT ![f] = v]
    BY <1>2 DEF LoopbackCallback
  <2> QED
    BY SMTT(30), <1>2, <2>3, <2>4 DEF LoopbackCallback
<1>3. ASSUME NEW f \in Logins, ReceiveResult(f) PROVE TypeOK'
  BY SMTT(30), <1>3 DEF ReceiveResult, Login
<1>4. ASSUME NEW f \in Logins, GiveUp(f) PROVE TypeOK'
  BY SMTT(30), <1>4 DEF GiveUp, Login
<1>5. ASSUME NEW f \in Logins, Cancel(f) PROVE TypeOK'
  BY SMTT(30), <1>5 DEF Cancel, Fails, Login
<1>6. ASSUME NEW f \in Logins, Exchange(f) PROVE TypeOK'
  <2>1. login[f].result \in States
    BY <1>6 DEF Exchange, LoginsDecided
  <2>2. codes[login[f].result].minted > 0 => codes[login[f].result].who \in People
    BY <2>1 DEF OneCodePerSignIn, People
  <2>3. codes' \in [States -> Code]
    <3> DEFINE v == [codes[login[f].result] EXCEPT !.used = TRUE]
    <3>0. codes[login[f].result] \in Code
      BY <2>1
    <3>1. v \in Code
      BY <3>0 DEF Code
    <3>2. codes' = codes \/ codes' = [codes EXCEPT ![login[f].result] = v]
      BY <1>6, <2>1 DEF Exchange
    <3> QED
      BY ZenonT(60), <2>1, <3>1, <3>2
  <2>4. login' \in [Logins -> Login]
    BY SMTT(30), <1>6, <2>1, <2>2 DEF Exchange, Redeemable, Login
  <2>5. failures' \in 0..MaxFailures
    BY SMTT(30), <1>6 DEF Exchange, Fails
  <2> QED
    BY <1>6, <2>3, <2>4, <2>5 DEF Exchange
<1>7. ASSUME NEW f \in Logins, NEW b \in Openers, NEW s \in States, Authorize(f, b, s) PROVE TypeOK'
  <2> DEFINE q == [row |-> NextRowid, login |-> f, expires |-> now + RequestTTL]
             v == [trip[s] EXCEPT !.pc = "begun", !.browser = b]
  <2>1. q \in Request
    BY NextRowidFresh, Later DEF Request
  <2>0. trip[s] \in Trip /\ b \in Browsers
    OBVIOUS
  <2>2. v \in Trip
    BY <2>0 DEF Trip
  <2>3. requests' = [requests EXCEPT ![s] = q] /\ trip' = [trip EXCEPT ![s] = v]
    BY <1>7 DEF Authorize
  <2> QED
    BY SMTT(30), <1>7, <2>1, <2>2, <2>3 DEF Authorize
<1>8. ASSUME NEW s \in States, VisitUpstream(s) PROVE TypeOK'
  <2>1. PICK a \in Answers :
          trip' = [trip EXCEPT ![s].pc = "back", ![s].cookie = now + RequestTTL, ![s].answer = a]
    BY <1>8 DEF VisitUpstream
  <2> DEFINE v == [trip[s] EXCEPT !.pc = "back", !.cookie = now + RequestTTL, !.answer = a]
  <2>0. trip[s] \in Trip /\ a \in Answer
    OBVIOUS
  <2>2. v \in Trip
    BY <2>0, Later DEF Trip
  <2>3. trip' = [trip EXCEPT ![s] = v]
    BY <2>1
  <2> QED
    BY <1>8, <2>2, <2>3 DEF VisitUpstream
<1>9. ASSUME NEW h \in Handlers, NEW b \in Browsers, NEW s \in States, OpenCallback(h, b, s)
      PROVE  TypeOK'
  BY ZenonT(60), <1>9 DEF OpenCallback, Callback, IdleCallback, Answer
<1>10. ASSUME NEW h \in Handlers, ConsumeAuthRequest(h) PROVE TypeOK'
  <2> DEFINE s == callback[h].state
             v == [callback[h] EXCEPT !.pc = "complete", !.login = requests[s].login]
             q == [requests[s] EXCEPT !.row = 0]
  <2>1. s \in States /\ requests[s].login \in Logins
    BY DEF Callback, Request
  <2>0. callback[h] \in Callback /\ requests[s] \in Request
    BY <2>1
  <2>2. v \in Callback /\ q \in Request
    BY <2>0, <2>1 DEF Callback, Request
  <2>3. \/ callback' = [callback EXCEPT ![h] = IdleCallback]
        \/ callback' = [callback EXCEPT ![h] = v]
    BY <1>10 DEF ConsumeAuthRequest
  <2>4. requests' = requests \/ requests' = [requests EXCEPT ![s] = q]
    BY <1>10 DEF ConsumeAuthRequest, Taken
  <2>5. failures' \in 0..MaxFailures
    BY SMTT(30), <1>10 DEF ConsumeAuthRequest, Fails
  <2> HIDE DEF s, v, q
  <2>6. callback' \in [Handlers -> Callback] /\ requests' \in [States -> Request]
    BY SMTT(30), <2>1, <2>2, <2>3, <2>4
  <2> QED
    BY <1>10, <2>5, <2>6 DEF ConsumeAuthRequest
<1>11. ASSUME NEW h \in Handlers, Complete(h) PROVE TypeOK'
  <2> DEFINE s == callback[h].state
             a == trip[s].answer
             v == [callback[h] EXCEPT !.pc = "save", !.who = a]
             t == [trip[s] EXCEPT !.cookie = 0]
             tell == [login |-> callback[h].login, state |-> s, error |-> TRUE]
  <2>1. s \in States /\ a \in Answer /\ callback[h].login \in Logins
    BY DEF Callback, Trip
  <2>0. callback[h] \in Callback /\ trip[s] \in Trip
    BY <2>1
  <2>2. v \in Callback /\ t \in Trip /\ tell \in [login : Logins, state : States, error : BOOLEAN]
    BY <2>0, <2>1 DEF Callback, Trip
  <2>3. \/ callback' = [callback EXCEPT ![h] = IdleCallback]
        \/ callback' = [callback EXCEPT ![h] = v]
    BY <1>11 DEF Complete
  <2>4. trip' = trip \/ trip' = [trip EXCEPT ![s] = t]
    BY <1>11 DEF Complete
  <2>5. failures' \in 0..MaxFailures
    BY SMTT(30), <1>11 DEF Complete, Fails
  <2>6. redirects' \subseteq redirects \cup {tell}
    BY <1>11 DEF Complete
  <2> HIDE DEF s, v, t, tell
  <2>7. callback' \in [Handlers -> Callback] /\ trip' \in [States -> Trip]
    BY SMTT(30), <2>1, <2>2, <2>3, <2>4
  <2> QED
    BY <1>11, <2>2, <2>5, <2>6, <2>7 DEF Complete
<1>12. ASSUME NEW h \in Handlers, SaveAuthCode(h) PROVE TypeOK'
  <2> DEFINE c == callback[h]
             s == c.state
             d == [minted |-> codes[s].minted + 1, login |-> c.login, who |-> c.who,
                   browser |-> c.browser, expires |-> now + CodeTTL, used |-> FALSE]
             t == [trip[s] EXCEPT !.cookie = 0]
             tell == [login |-> c.login, state |-> s, error |-> FALSE]
  <2>1. s \in States /\ c.login \in Logins /\ c.who \in Answer /\ c.browser \in Browsers
    BY DEF Callback
  <2>2. codes[s].minted + 1 \in Nat
    BY SMTT(30), <2>1 DEF Code
  <2>0. trip[s] \in Trip
    BY <2>1
  <2>3. d \in Code /\ t \in Trip /\ tell \in [login : Logins, state : States, error : BOOLEAN]
    BY <2>0, <2>1, <2>2, Later DEF Code, Trip
  <2>4. \/ codes' = codes /\ trip' = trip /\ redirects' = redirects
        \/ /\ codes' = [codes EXCEPT ![s] = d] /\ trip' = [trip EXCEPT ![s] = t]
           /\ redirects' = redirects \cup {tell}
    BY <1>12, <2>1 DEF SaveAuthCode
  <2>5. failures' \in 0..MaxFailures
    BY SMTT(30), <1>12 DEF SaveAuthCode, Fails
  <2>6. callback' \in [Handlers -> Callback]
    BY <1>12 DEF SaveAuthCode
  <2> HIDE DEF d, t, tell
  <2>7. codes' \in [States -> Code] /\ trip' \in [States -> Trip]
    BY SMTT(30), <2>1, <2>3, <2>4
  <2> QED
    BY <1>12, <2>3, <2>4, <2>5, <2>6, <2>7 DEF SaveAuthCode
<1>13. ASSUME PgReap PROVE TypeOK'
  BY ZenonT(60), <1>13 DEF PgReap, Delete, Rows, Request
<1>14. ASSUME SqlitePage PROVE TypeOK'
  BY SMTT(30), <1>14, CursorTyped DEF SqlitePage
<1>15. ASSUME SqliteFlush PROVE TypeOK'
  <2>1. requests' \in [States -> Request] /\ removed' \subseteq States
    BY ZenonT(60), <1>15 DEF SqliteFlush, Delete, Rows, Request
  <2>2. sweep' = IdleSweep \/ sweep' = [sweep EXCEPT !.pc = "page", !.expired = {}]
    BY <1>15 DEF SqliteFlush
  <2> QED
    BY <1>15, <2>1, <2>2 DEF SqliteFlush, IdleSweep
<1>16. ASSUME Tick PROVE TypeOK'
  BY SMTT(30), <1>16 DEF Tick
<1>17. CASE UNCHANGED vars
  BY <1>17 DEF vars
<1> QED
  BY <1>1, <1>2, <1>3, <1>4, <1>5, <1>6, <1>7, <1>8, <1>9, <1>10, <1>11, <1>12, <1>13, <1>14, <1>15,
     <1>16, <1>17 DEF Next, LoginStep, CallbackStep

-----------------------------------------------------------------------------
(* The inductive invariant: what a step leaves alone.                      *)

\* A run that has a code's state as its result was sent that code.
LEMMA OwnCode ==
    ASSUME IInv, NEW f \in Logins, login[f].result \in States
    PROVE  codes[login[f].result].minted > 0 /\ codes[login[f].result].login = f
<1>1. login[f].handled
  BY SignInAssumption DEF IInv, LoginsDecided
<1>2. PICK r \in redirects :
        r.login = f /\ login[f].result = IF r.error THEN "error" ELSE r.state
  BY <1>1 DEF IInv, LoginGetsItsOwn
<1>3. ~r.error
  BY <1>2, SignInAssumption
<1> QED
  BY <1>2, <1>3 DEF IInv, RedirectsMinted

\* Steps of the command line do not touch a sign-in on the server.
LEMMA SignInsStand ==
    ASSUME IInv, UNCHANGED <<requests, trip, callback, codes, redirects>>
    PROVE  OneTurn' /\ CallbacksBound' /\ RedirectsMinted' /\ OneCodePerSignIn'
BY ZenonT(60) DEF IInv, OneTurn, CallbacksBound, RedirectsMinted, OneCodePerSignIn, Rows, Holds

\* Steps of the server do not touch a run, and keep what its result rests on.
LEMMA LoginsStand ==
    ASSUME IInv, UNCHANGED login, redirects \subseteq redirects',
           \A s \in States : codes[s].minted > 0 => trip'[s].answer = trip[s].answer
    PROVE  LoginsDecided' /\ LoginGetsItsOwn'
<1>1. LoginsDecided'
  BY DEF IInv, LoginsDecided
<1>2. ASSUME NEW f \in Logins, login[f].pc = "done"
      PROVE  trip'[login[f].result].answer = trip[login[f].result].answer
  BY <1>2, OwnCode DEF IInv, LoginsDecided
<1>3. LoginGetsItsOwn'
  <2>1. ASSUME NEW f \in Logins, login[f].handled
        PROVE  \E r \in redirects' :
                  r.login = f /\ login[f].result = IF r.error THEN "error" ELSE r.state
    BY SMTT(30), <2>1 DEF IInv, LoginGetsItsOwn
  <2>2. ASSUME NEW f \in Logins, login[f].pc = "done"
        PROVE  /\ login[f].who = trip'[login[f].result].answer
               /\ \A g \in Logins \ {f} : login[g].pc = "done" => login[g].result # login[f].result
    BY <1>2, <2>2 DEF IInv, LoginGetsItsOwn
  <2> QED
    BY <2>1, <2>2 DEF LoginGetsItsOwn
<1> QED
  BY <1>1, <1>3

\* A step that moves a run without deciding it.
LEMMA RunMoves ==
    ASSUME IInv, NEW f \in Logins, \A g \in Logins : g # f => login'[g] = login[g],
           login'[f].handled = login[f].handled, login'[f].result = login[f].result,
           \/ login'[f].pc \notin {"exchange", "done"}
           \/ login'[f].pc = "exchange" /\ login[f].result \in States,
           UNCHANGED <<requests, trip, callback, codes, redirects>>, TypeOK'
    PROVE  IInv'
<1>1. LoginsDecided'
  BY DEF IInv, LoginsDecided
<1>2. LoginGetsItsOwn'
  <2>1. ASSUME NEW g \in Logins, login'[g].handled
        PROVE  \E r \in redirects' :
                  r.login = g /\ login'[g].result = IF r.error THEN "error" ELSE r.state
    BY SMTT(30), <2>1 DEF IInv, LoginGetsItsOwn
  <2>2. ASSUME NEW g \in Logins, login'[g].pc = "done" PROVE g # f /\ login'[g] = login[g]
    BY <2>2
  <2>3. ASSUME NEW g \in Logins, login'[g].pc = "done"
        PROVE  /\ login'[g].who = trip'[login'[g].result].answer
               /\ \A k \in Logins \ {g} : login'[k].pc = "done" => login'[k].result # login'[g].result
    BY SMTT(30), <2>2, <2>3 DEF IInv, LoginGetsItsOwn
  <2> QED
    BY <2>1, <2>3 DEF LoginGetsItsOwn
<1> QED
  BY <1>1, <1>2, SignInsStand DEF IInv

-----------------------------------------------------------------------------
(* The inductive invariant: the steps that decide something.               *)

\* The loopback handler decides a run by a redirect of its own.
LEMMA LoopbackKeeps ==
    ASSUME IInv, TypeOK', NEW f \in Logins, NEW r \in redirects, LoopbackCallback(f, r)
    PROVE  IInv'
<1> DEFINE w == IF r.error THEN "error" ELSE r.state
<1>1. login[f].result = "none" /\ login[f] \in Login
  BY DEF LoopbackCallback, FirstTime, IInv, LoginsDecided, TypeOK
<1>2. /\ \A g \in Logins : g # f => login'[g] = login[g]
      /\ login'[f].handled /\ login'[f].result = w /\ login'[f].pc = login[f].pc
  BY ZenonT(60), <1>1 DEF LoopbackCallback, IInv, TypeOK, Login
<1>3. login[f].pc \notin {"exchange", "done"}
  BY <1>1, SignInAssumption DEF IInv, LoginsDecided
<1>4. w # "none"
  BY SignInAssumption DEF IInv, TypeOK
<1>5. LoginsDecided'
  BY <1>2, <1>3, <1>4 DEF IInv, LoginsDecided
<1>6. r.login = f /\ redirects' = redirects /\ trip' = trip
  BY DEF LoopbackCallback, EchoesState
<1>7. LoginGetsItsOwn'
  <2>1. ASSUME NEW g \in Logins, login'[g].handled
        PROVE  \E q \in redirects' :
                  q.login = g /\ login'[g].result = IF q.error THEN "error" ELSE q.state
    BY SMTT(30), <2>1, <1>2, <1>6 DEF IInv, LoginGetsItsOwn
  <2>2. ASSUME NEW g \in Logins, login'[g].pc = "done" PROVE g # f /\ login'[g] = login[g]
    BY <2>2, <1>2, <1>3
  <2>3. ASSUME NEW g \in Logins, login'[g].pc = "done"
        PROVE  /\ login'[g].who = trip'[login'[g].result].answer
               /\ \A k \in Logins \ {g} : login'[k].pc = "done" => login'[k].result # login'[g].result
    BY SMTT(30), <2>2, <2>3, <1>6 DEF IInv, LoginGetsItsOwn
  <2> QED
    BY <2>1, <2>3 DEF LoginGetsItsOwn
<1> QED
  BY <1>5, <1>7, SignInsStand DEF LoopbackCallback, IInv

\* Redeeming a code changes no more of it than that it was used; the run it
\* was minted for is the only one that may end on it.
LEMMA ExchangeKeeps ==
    ASSUME IInv, TypeOK', NEW f \in Logins, Exchange(f)
    PROVE  IInv'
<1> DEFINE s == login[f].result
<1>1. s \in States /\ login[f] \in Login /\ codes[s] \in Code
  BY DEF Exchange, IInv, LoginsDecided, TypeOK
<1>2. codes[s].minted > 0 /\ codes[s].login = f
  BY <1>1, OwnCode
<1>3. \A q \in States : /\ codes'[q].minted = codes[q].minted /\ codes'[q].who = codes[q].who
                        /\ codes'[q].browser = codes[q].browser /\ codes'[q].login = codes[q].login
  BY SMTT(30), <1>1 DEF Exchange, IInv, TypeOK, Code
<1>4. /\ \A g \in Logins : g # f => login'[g] = login[g]
      /\ login'[f].handled = login[f].handled /\ login'[f].result = s
      /\ \/ login'[f].pc = "failed"
         \/ login'[f].pc = "done" /\ login'[f].who = codes[s].who
  BY SMTT(30), <1>1 DEF Exchange, IInv, TypeOK, Login
<1>5. UNCHANGED <<requests, trip, callback, redirects>>
  BY DEF Exchange
<1>6. OneTurn' /\ CallbacksBound'
  BY SMTT(30), <1>3, <1>5 DEF IInv, OneTurn, CallbacksBound, Rows, Holds
<1>7. RedirectsMinted' /\ OneCodePerSignIn'
  BY <1>3, <1>5 DEF IInv, RedirectsMinted, OneCodePerSignIn, TypeOK
<1>8. LoginsDecided'
  BY <1>1, <1>4 DEF IInv, LoginsDecided
<1>9. LoginGetsItsOwn'
  <2>1. ASSUME NEW g \in Logins, login'[g].handled
        PROVE  \E q \in redirects' :
                  q.login = g /\ login'[g].result = IF q.error THEN "error" ELSE q.state
    BY SMTT(30), <2>1, <1>4, <1>5 DEF IInv, LoginGetsItsOwn
  <2>2. ASSUME NEW g \in Logins, login'[g].pc = "done"
        PROVE  login'[g].who = trip'[login'[g].result].answer
    BY SMTT(30), <2>2, <1>1, <1>2, <1>4, <1>5 DEF IInv, LoginGetsItsOwn, OneCodePerSignIn
  <2>3. ASSUME NEW g \in Logins, login'[g].pc = "done"
        PROVE  login'[g].result \in States /\ codes[login'[g].result].login = g
    BY <2>3, <1>1, <1>2, <1>4, OwnCode DEF IInv, LoginsDecided
  <2> QED
    BY SMTT(30), <2>1, <2>2, <2>3 DEF LoginGetsItsOwn
<1> QED
  BY <1>6, <1>7, <1>8, <1>9 DEF IInv

\* /authorize draws a state nobody has used.
LEMMA AuthorizeKeeps ==
    ASSUME IInv, TypeOK', NEW f \in Logins, NEW b \in Openers, NEW s \in States, Authorize(f, b, s)
    PROVE  IInv'
<1>1. trip[s].pc = "new" /\ trip[s] \in Trip /\ requests[s] \in Request
  BY DEF Authorize, IsFirst, IInv, TypeOK
<1>2. /\ \A q \in States : q # s => trip'[q] = trip[q] /\ requests'[q] = requests[q]
      /\ trip'[s].pc = "begun" /\ trip'[s].answer = trip[s].answer
  BY <1>1 DEF Authorize, IInv, TypeOK, Trip
<1>3. UNCHANGED <<login, callback, codes, redirects>>
  BY DEF Authorize
<1>4. ~(codes[s].minted > 0) /\ \A h \in Handlers : callback[h].pc # "idle" => callback[h].state # s
  BY <1>1 DEF IInv, OneTurn, CallbacksBound
<1>5. codes[s].minted = 0
  BY SMTT(30), <1>4 DEF IInv, TypeOK, Code
<1>6. OneTurn'
  BY SMTT(30), <1>2, <1>3, <1>4, <1>5 DEF IInv, OneTurn, Rows, Holds
<1>7. CallbacksBound'
  BY SMTT(30), <1>2, <1>3, <1>4 DEF IInv, CallbacksBound, TypeOK, Callback
<1>8. RedirectsMinted' /\ OneCodePerSignIn'
  BY <1>2, <1>3, <1>4 DEF IInv, RedirectsMinted, OneCodePerSignIn
<1> QED
  BY <1>2, <1>3, <1>6, <1>7, <1>8, LoginsStand DEF IInv

\* The upstream answers a trip once.
LEMMA VisitKeeps ==
    ASSUME IInv, TypeOK', NEW s \in States, VisitUpstream(s)
    PROVE  IInv'
<1>1. trip[s].pc = "begun" /\ trip[s] \in Trip
  BY DEF VisitUpstream, IInv, TypeOK
<1>2. /\ \A q \in States : q # s => trip'[q] = trip[q]
      /\ trip'[s].pc = "back" /\ trip'[s].browser = trip[s].browser
  BY SMTT(30), <1>1 DEF VisitUpstream, IInv, TypeOK, Trip
<1>3. UNCHANGED <<login, requests, callback, codes, redirects>>
  BY DEF VisitUpstream
<1>4. ~(codes[s].minted > 0) /\ \A h \in Handlers : callback[h].pc # "idle" => callback[h].state # s
  BY <1>1 DEF IInv, OneTurn, CallbacksBound
<1>5. OneTurn'
  BY ZenonT(60), <1>2, <1>3, <1>4 DEF IInv, OneTurn, Rows, Holds
<1>6. CallbacksBound'
  BY SMTT(30), <1>2, <1>3, <1>4 DEF IInv, CallbacksBound, TypeOK, Callback
<1>7. RedirectsMinted' /\ OneCodePerSignIn'
  BY <1>2, <1>3, <1>4 DEF IInv, RedirectsMinted, OneCodePerSignIn
<1>8. \A q \in States : codes[q].minted > 0 => trip'[q].answer = trip[q].answer
  BY <1>2, <1>4
<1> QED
  BY <1>3, <1>5, <1>6, <1>7, <1>8, LoginsStand DEF IInv

\* A callback begins in the browser its state is bound to.
LEMMA OpenCallbackKeeps ==
    ASSUME IInv, TypeOK', NEW h \in Handlers, NEW b \in Browsers, NEW s \in States,
           OpenCallback(h, b, s)
    PROVE  IInv'
<1> DEFINE v == [IdleCallback EXCEPT !.pc = "consume", !.state = s, !.browser = b]
<1>1. v.pc = "consume" /\ v.state = s /\ v.browser = b
  BY DEF IdleCallback
<1>2. callback' = [callback EXCEPT ![h] = v]
  BY DEF OpenCallback
<1> HIDE DEF v
<1>3. callback'[h] = v /\ \A g \in Handlers : g # h => callback'[g] = callback[g]
  BY <1>2 DEF IInv, TypeOK
<1>4. UNCHANGED <<login, requests, trip, codes, redirects>>
  BY DEF OpenCallback
<1>5. trip[s].pc = "back" /\ trip[s].browser = b
  BY DEF OpenCallback, BoundToBrowser
<1>6. OneTurn'
  BY SMTT(30), <1>1, <1>3, <1>4 DEF IInv, OneTurn, Rows, Holds
<1>7. CallbacksBound'
  BY ZenonT(60), <1>1, <1>3, <1>4, <1>5 DEF IInv, CallbacksBound
<1>8. RedirectsMinted' /\ OneCodePerSignIn'
  BY <1>4 DEF IInv, RedirectsMinted, OneCodePerSignIn
<1> QED
  BY <1>4, <1>6, <1>7, <1>8, LoginsStand DEF IInv

\* A handler that stops, with the row of its sign-in there or gone.
LEMMA CallbackEnds ==
    ASSUME IInv, TypeOK', NEW h \in Handlers, callback'[h] = IdleCallback,
           \A g \in Handlers : g # h => callback'[g] = callback[g],
           \A s \in States : /\ requests'[s].login = requests[s].login
                             /\ s \in Rows' => s \in Rows
                             /\ trip'[s].pc = trip[s].pc /\ trip'[s].answer = trip[s].answer
                             /\ trip'[s].browser = trip[s].browser,
           redirects \subseteq redirects', \A r \in redirects' \ redirects : r.error,
           UNCHANGED <<login, codes>>
    PROVE  IInv'
<1>1. OneTurn'
  BY SMTT(30), IdleTyped DEF IInv, OneTurn, Holds
<1>2. CallbacksBound'
  <2>1. \A g \in Handlers : callback'[g].pc # "idle" => callback'[g] = callback[g]
    BY IdleTyped
  <2>2. \A g \in Handlers : callback[g].state \in States
    BY DEF IInv, TypeOK, Callback
  <2> QED
    BY SMTT(30), <2>1, <2>2 DEF IInv, CallbacksBound
<1>3. RedirectsMinted' /\ OneCodePerSignIn'
  BY DEF IInv, RedirectsMinted, OneCodePerSignIn
<1> QED
  BY <1>1, <1>2, <1>3, LoginsStand DEF IInv

\* Of the handlers that opened one callback URL, the row goes to one.
LEMMA ConsumeKeeps ==
    ASSUME IInv, TypeOK', NEW h \in Handlers, ConsumeAuthRequest(h)
    PROVE  IInv'
<1> DEFINE s == callback[h].state
           v == [callback[h] EXCEPT !.pc = "complete", !.login = requests[s].login]
<1>1. callback[h].pc = "consume" /\ callback[h] \in Callback /\ s \in States /\ requests[s] \in Request
  BY DEF ConsumeAuthRequest, IInv, TypeOK, Callback
<1>2. UNCHANGED <<login, trip, codes, redirects>>
  BY DEF ConsumeAuthRequest
<1>3. \A q \in States : requests'[q].login = requests[q].login /\ (q # s => requests'[q] = requests[q])
  BY SMTT(30), <1>1 DEF ConsumeAuthRequest, Taken, IInv, TypeOK, Request
<1>4. \A q \in States : q \in Rows' => q \in Rows
  BY <1>1, <1>3 DEF ConsumeAuthRequest, Taken, Rows, IInv, TypeOK, Request
<1>5. \A g \in Handlers : g # h => callback'[g] = callback[g]
  BY DEF ConsumeAuthRequest, IInv, TypeOK
<1>6. CASE callback' = [callback EXCEPT ![h] = IdleCallback]
  <2>1. callback'[h] = IdleCallback
    BY <1>6 DEF IInv, TypeOK
  <2> QED
    BY <2>1, <1>2, <1>3, <1>4, <1>5, CallbackEnds
<1>7. CASE s \in Rows /\ requests' = Taken(s) /\ callback' = [callback EXCEPT ![h] = v]
  <2>1. v.pc = "complete" /\ v.state = s /\ v.browser = callback[h].browser /\ v.login = requests[s].login
    BY <1>1 DEF Callback
  <2>2. callback'[h] = v
    BY <1>7 DEF IInv, TypeOK
  <2>3. s \notin Rows'
    BY <1>1, <1>7 DEF Taken, Rows, IInv, TypeOK, Request
  <2> HIDE DEF v
  <2>4. \A g \in Handlers : ~Holds(g, s)
    BY <1>1, <1>7 DEF IInv, OneTurn
  <2>5. OneTurn'
    <3> SUFFICES ASSUME NEW q \in States
                 PROVE  /\ q \in Rows' => trip'[q].pc # "new" /\ codes'[q].minted = 0
                        /\ codes'[q].minted > 0 => trip'[q].pc = "back"
                        /\ \A g \in Handlers : Holds(g, q)' =>
                             /\ q \notin Rows' /\ codes'[q].minted = 0
                             /\ \A k \in Handlers : Holds(k, q)' => k = g
      BY DEF OneTurn
    <3>1. codes[s].minted = 0
      BY <1>1, <1>7 DEF IInv, OneTurn
    <3>2. \A g \in Handlers : Holds(g, q)' <=> (g = h /\ q = s) \/ (g # h /\ Holds(g, q))
      BY <1>5, <2>1, <2>2 DEF Holds
    <3>3. CASE q = s
      BY <3>1, <3>2, <3>3, <2>3, <2>4, <1>1, <1>2 DEF IInv, OneTurn
    <3>4. CASE q # s
      BY <3>2, <3>4, <1>2, <1>4 DEF IInv, OneTurn
    <3> QED
      BY <3>3, <3>4
  <2>6. CallbacksBound'
    BY SMTT(30), <1>1, <1>2, <1>3, <1>5, <2>1, <2>2 DEF IInv, CallbacksBound, TypeOK, Callback
  <2>7. RedirectsMinted' /\ OneCodePerSignIn'
    BY <1>2, <1>3 DEF IInv, RedirectsMinted, OneCodePerSignIn
  <2> QED
    BY <1>2, <2>5, <2>6, <2>7, LoginsStand DEF IInv
<1> QED
  BY <1>6, <1>7 DEF ConsumeAuthRequest

\* The upstream's answer: a person every gate admits, or the end of it.
LEMMA CompleteKeeps ==
    ASSUME IInv, TypeOK', NEW h \in Handlers, Complete(h)
    PROVE  IInv'
<1> DEFINE s == callback[h].state
           a == trip[s].answer
           v == [callback[h] EXCEPT !.pc = "save", !.who = a]
           tell == [login |-> callback[h].login, state |-> s, error |-> TRUE]
<1>1. callback[h].pc = "complete" /\ callback[h] \in Callback /\ s \in States /\ trip[s] \in Trip
  BY DEF Complete, IInv, TypeOK, Callback
<1>2. UNCHANGED <<login, requests, codes>>
  BY DEF Complete
<1>3. \A g \in Handlers : g # h => callback'[g] = callback[g]
  BY DEF Complete, IInv, TypeOK
<1>4. CASE callback' = [callback EXCEPT ![h] = IdleCallback]
  <2>1. callback'[h] = IdleCallback
    BY <1>4 DEF IInv, TypeOK
  <2>2. trip' = trip \/ trip' = [trip EXCEPT ![s].cookie = 0]
    BY DEF Complete
  <2>3. \A q \in States : /\ trip'[q].pc = trip[q].pc /\ trip'[q].answer = trip[q].answer
                          /\ trip'[q].browser = trip[q].browser
    BY SMTT(30), <2>2, <1>1 DEF IInv, TypeOK, Trip
  <2>4. redirects' = redirects \/ redirects' = redirects \cup {tell}
    BY DEF Complete
  <2>5. redirects \subseteq redirects' /\ \A r \in redirects' \ redirects : r.error
    BY SMTT(30), <2>4
  <2> QED
    BY <2>1, <2>3, <2>5, <1>2, <1>3, CallbackEnds DEF Rows
<1>5. CASE Permitted(a) /\ callback' = [callback EXCEPT ![h] = v] /\ UNCHANGED <<trip, redirects>>
  <2>1. /\ v.pc = "save" /\ v.state = s /\ v.browser = callback[h].browser
        /\ v.login = callback[h].login /\ v.who = a
    BY <1>1 DEF Callback
  <2>2. callback'[h] = v
    BY <1>5 DEF IInv, TypeOK
  <2> HIDE DEF v
  <2>3. \A g \in Handlers, q \in States : Holds(g, q)' <=> Holds(g, q)
    BY <1>1, <1>3, <2>1, <2>2 DEF Holds
  <2>4. OneTurn'
    BY <1>2, <1>5, <2>3 DEF IInv, OneTurn, Rows
  <2>5. CallbacksBound'
    BY SMTT(30), <1>1, <1>2, <1>3, <1>5, <2>1, <2>2 DEF IInv, CallbacksBound, Permitted
  <2>6. RedirectsMinted' /\ OneCodePerSignIn'
    BY <1>2, <1>5 DEF IInv, RedirectsMinted, OneCodePerSignIn
  <2> QED
    BY <1>2, <1>5, <2>4, <2>5, <2>6, LoginsStand DEF IInv
<1>6. \/ callback' = [callback EXCEPT ![h] = IdleCallback]
      \/ Permitted(a) /\ callback' = [callback EXCEPT ![h] = v] /\ UNCHANGED <<trip, redirects>>
  BY DEF Complete
<1> QED
  BY <1>4, <1>5, <1>6

\* The one handler that holds the sign-in mints its code.
LEMMA SaveKeeps ==
    ASSUME IInv, TypeOK', NEW h \in Handlers, SaveAuthCode(h)
    PROVE  IInv'
<1> DEFINE c == callback[h]
           s == c.state
           tell == [login |-> c.login, state |-> s, error |-> FALSE]
<1>1. c.pc = "save" /\ c \in Callback /\ s \in States /\ trip[s] \in Trip /\ codes[s] \in Code
  BY DEF SaveAuthCode, IInv, TypeOK, Callback
<1>2. UNCHANGED <<login, requests>>
  BY DEF SaveAuthCode
<1>3. callback'[h] = IdleCallback /\ \A g \in Handlers : g # h => callback'[g] = callback[g]
  BY DEF SaveAuthCode, IInv, TypeOK
<1>4. CASE UNCHANGED <<codes, trip, redirects>>
  BY <1>2, <1>3, <1>4, CallbackEnds DEF Rows
<1>5. CASE /\ codes' = [codes EXCEPT
                          ![s] = [minted |-> @.minted + 1, login |-> c.login, who |-> c.who,
                                  browser |-> c.browser, expires |-> now + CodeTTL, used |-> FALSE]]
           /\ trip' = [trip EXCEPT ![s].cookie = 0]
           /\ redirects' = redirects \cup {tell}
  <2>1. Holds(h, s)
    BY <1>1 DEF Holds
  <2>2. codes[s].minted = 0 /\ s \notin Rows /\ \A g \in Handlers : Holds(g, s) => g = h
    BY <1>1, <2>1 DEF IInv, OneTurn
  <2>3. /\ codes'[s].minted = 1 /\ codes'[s].login = c.login /\ codes'[s].who = c.who
        /\ codes'[s].browser = c.browser /\ \A q \in States : q # s => codes'[q] = codes[q]
    BY SMTT(30), <1>1, <1>5, <2>2 DEF IInv, TypeOK
  <2>4. \A q \in States : /\ trip'[q].pc = trip[q].pc /\ trip'[q].answer = trip[q].answer
                          /\ trip'[q].browser = trip[q].browser
    BY <1>1, <1>5 DEF IInv, TypeOK, Trip
  <2>5. /\ trip[s].pc = "back" /\ c.browser = trip[s].browser /\ c.login = requests[s].login
        /\ c.who = trip[s].answer /\ c.who \in Admitted
    BY <1>1 DEF IInv, CallbacksBound
  <2>6. \A g \in Handlers, q \in States : Holds(g, q)' <=> g # h /\ Holds(g, q)
    BY <1>3, IdleTyped DEF Holds
  <2>7. OneTurn'
    <3>1. Rows' = Rows
      BY <1>2 DEF Rows
    <3>2. \A q \in States : q = s => \A g \in Handlers : ~Holds(g, q)'
      BY <1>1, <2>2, <2>6
    <3> SUFFICES ASSUME NEW q \in States
                 PROVE  /\ q \in Rows' => trip'[q].pc # "new" /\ codes'[q].minted = 0
                        /\ codes'[q].minted > 0 => trip'[q].pc = "back"
                        /\ \A g \in Handlers : Holds(g, q)' =>
                             /\ q \notin Rows' /\ codes'[q].minted = 0
                             /\ \A k \in Handlers : Holds(k, q)' => k = g
      BY DEF OneTurn
    <3>3. CASE q = s
      BY <3>1, <3>2, <3>3, <2>2, <2>4, <2>5
    <3>4. CASE q # s
      BY SMTT(30), <3>1, <3>4, <2>3, <2>4, <2>6 DEF IInv, OneTurn
    <3> QED
      BY <3>3, <3>4
  <2>8. CallbacksBound'
    <3>1. \A g \in Handlers : callback'[g].pc # "idle" => callback'[g] = callback[g]
      BY <1>3, IdleTyped
    <3>2. \A g \in Handlers : callback[g].state \in States
      BY DEF IInv, TypeOK, Callback
    <3> QED
      BY SMTT(30), <3>1, <3>2, <1>2, <2>4 DEF IInv, CallbacksBound
  <2>9. RedirectsMinted'
    <3>1. \A r \in redirects : r.state \in States /\ (~r.error => r.state # s)
      BY SMTT(30), <2>2 DEF IInv, RedirectsMinted, TypeOK
    <3> QED
      BY SMTT(30), <3>1, <1>5, <2>3 DEF IInv, RedirectsMinted
  <2>10. OneCodePerSignIn'
    BY ZenonT(60), <1>2, <2>3, <2>4, <2>5 DEF IInv, OneCodePerSignIn
  <2>11. redirects \subseteq redirects'
    BY <1>5
  <2> QED
    BY <1>2, <2>4, <2>7, <2>8, <2>9, <2>10, <2>11, LoginsStand DEF IInv
<1>6. \/ UNCHANGED <<codes, trip, redirects>>
      \/ /\ codes' = [codes EXCEPT
                        ![s] = [minted |-> @.minted + 1, login |-> c.login, who |-> c.who,
                                browser |-> c.browser, expires |-> now + CodeTTL, used |-> FALSE]]
         /\ trip' = [trip EXCEPT ![s].cookie = 0]
         /\ redirects' = redirects \cup {tell}
  BY DEF SaveAuthCode
<1> QED
  BY <1>4, <1>5, <1>6

\* A sweep removes rows and leaves everything else as it is.
LEMMA SweepKeeps ==
    ASSUME IInv, TypeOK', NEW S, Delete(S), UNCHANGED <<login, trip, callback, codes, redirects>>
    PROVE  IInv'
<1>1. \A s \in States : requests'[s].login = requests[s].login /\ (s \in Rows' => s \in Rows)
  BY ZenonT(60) DEF Delete, Rows, IInv, TypeOK, Request
<1>2. OneTurn'
  BY SMTT(30), <1>1 DEF IInv, OneTurn, Holds
<1>3. CallbacksBound'
  BY <1>1 DEF IInv, CallbacksBound, TypeOK, Callback
<1>4. RedirectsMinted' /\ OneCodePerSignIn'
  BY <1>1 DEF IInv, RedirectsMinted, OneCodePerSignIn
<1> QED
  BY <1>2, <1>3, <1>4, LoginsStand DEF IInv

LEMMA Inductive == IInv /\ [Next]_vars => IInv'
<1> SUFFICES ASSUME IInv, [Next]_vars PROVE IInv'
  OBVIOUS
<1>0. TypeOK'
  BY TypeNext
<1>1. ASSUME NEW f \in Logins, Start(f) \/ GiveUp(f) \/ Cancel(f) PROVE IInv'
  <2>1. /\ \A g \in Logins : g # f => login'[g] = login[g]
        /\ login'[f].handled = login[f].handled /\ login'[f].result = login[f].result
        /\ login'[f].pc \notin {"exchange", "done"}
    BY SMTT(30), <1>1 DEF Start, GiveUp, Cancel, IInv, TypeOK, Login
  <2>2. UNCHANGED <<requests, trip, callback, codes, redirects>>
    BY <1>1 DEF Start, GiveUp, Cancel
  <2> QED
    BY <1>0, <2>1, <2>2, RunMoves
<1>2. ASSUME NEW f \in Logins, ReceiveResult(f) PROVE IInv'
  <2>1. /\ \A g \in Logins : g # f => login'[g] = login[g]
        /\ login'[f].handled = login[f].handled /\ login'[f].result = login[f].result
        /\ \/ login'[f].pc \notin {"exchange", "done"}
           \/ login'[f].pc = "exchange" /\ login[f].result \in States
    BY <1>2 DEF ReceiveResult, IInv, TypeOK, Login, Result
  <2>2. UNCHANGED <<requests, trip, callback, codes, redirects>>
    BY <1>2 DEF ReceiveResult
  <2> QED
    BY <1>0, <2>1, <2>2, RunMoves
<1>3. ASSUME NEW f \in Logins, NEW r \in redirects, LoopbackCallback(f, r) PROVE IInv'
  BY <1>0, <1>3, LoopbackKeeps
<1>4. ASSUME NEW f \in Logins, Exchange(f) PROVE IInv'
  BY <1>0, <1>4, ExchangeKeeps
<1>5. ASSUME NEW f \in Logins, NEW b \in Openers, NEW s \in States, Authorize(f, b, s) PROVE IInv'
  BY <1>0, <1>5, AuthorizeKeeps
<1>6. ASSUME NEW s \in States, VisitUpstream(s) PROVE IInv'
  BY <1>0, <1>6, VisitKeeps
<1>7. ASSUME NEW h \in Handlers, NEW b \in Browsers, NEW s \in States, OpenCallback(h, b, s) PROVE IInv'
  BY <1>0, <1>7, OpenCallbackKeeps
<1>8. ASSUME NEW h \in Handlers, ConsumeAuthRequest(h) PROVE IInv'
  BY <1>0, <1>8, ConsumeKeeps
<1>9. ASSUME NEW h \in Handlers, Complete(h) PROVE IInv'
  BY <1>0, <1>9, CompleteKeeps
<1>10. ASSUME NEW h \in Handlers, SaveAuthCode(h) PROVE IInv'
  BY <1>0, <1>10, SaveKeeps
<1>11. ASSUME PgReap PROVE IInv'
  BY <1>0, <1>11, SweepKeeps DEF PgReap
<1>12. ASSUME SqliteFlush PROVE IInv'
  BY <1>0, <1>12, SweepKeeps DEF SqliteFlush
<1>13. ASSUME SqlitePage \/ Tick \/ UNCHANGED vars PROVE IInv'
  <2>1. UNCHANGED <<login, requests, trip, callback, codes, redirects>>
    BY <1>13 DEF SqlitePage, Tick, vars
  <2> QED
    BY <1>0, <2>1, SignInsStand, LoginsStand DEF IInv
<1> QED
  BY <1>1, <1>2, <1>3, <1>4, <1>5, <1>6, <1>7, <1>8, <1>9, <1>10, <1>11, <1>12, <1>13
     DEF Next, LoginStep, CallbackStep

LEMMA Initially == Init => IInv
<1> SUFFICES ASSUME Init PROVE IInv
  OBVIOUS
<1>1. TypeOK
  BY TypeInit
<1>2. /\ \A s \in States : requests[s].row = 0 /\ codes[s].minted = 0
      /\ \A h \in Handlers : callback[h].pc = "idle"
      /\ redirects = {}
  BY IdleTyped DEF Init
<1>3. \A f \in Logins : login[f].pc = "idle" /\ ~login[f].handled /\ login[f].result = "none"
  BY DEF Init
<1>4. OneTurn /\ CallbacksBound /\ RedirectsMinted /\ OneCodePerSignIn
  BY SMTT(30), <1>2 DEF OneTurn, CallbacksBound, RedirectsMinted, OneCodePerSignIn, Rows, Holds
<1>5. LoginsDecided /\ LoginGetsItsOwn
  BY <1>3 DEF LoginsDecided, LoginGetsItsOwn
<1> QED
  BY <1>1, <1>4, <1>5 DEF IInv

-----------------------------------------------------------------------------
\* The inductive invariant of the sign-in holds in every reachable state.
THEOREM Invariance == Spec => []IInv
BY Initially, Inductive, PTL DEF Spec

\* One sign-in yields at most one authorization code, for the person the
\* upstream named and the gates admitted, in the browser it began in and for the
\* run that began it: however often and by however many handlers its callback
\* URL is opened (ConsumeAuthRequest, complete).
THEOREM SignInYieldsOneCode == Spec => []OneCodePerSignIn
<1>1. IInv => OneCodePerSignIn
  BY DEF IInv
<1> QED
  BY <1>1, Invariance, PTL

\* A run of `tempogate login` is decided by a redirect of its own and ends on
\* the tokens of a sign-in it began, which no other run ends on
\* (callbackHandler, exchange).
THEOREM RunsEndOnTheirOwn == Spec => []LoginGetsItsOwn
<1>1. IInv => LoginGetsItsOwn
  BY DEF IInv
<1> QED
  BY <1>1, Invariance, PTL
=============================================================================
