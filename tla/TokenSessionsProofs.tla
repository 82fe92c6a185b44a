------------------------ MODULE TokenSessionsProofs ------------------------
(***************************************************************************)
(* Type correctness of TokenSessions, its inductive invariant, the safety  *)
(* properties that follow from it and that it implements SessionContract,  *)
(* for every number of codes, tokens, handlers and clients, every lifetime *)
(* and both backends.                                                      *)
(***************************************************************************)
EXTENDS TokenSessions, TLAPS

\* Most leaves are first-order and Zenon's; the others do arithmetic.
USE ZenonT(30), SMTT(30)

-----------------------------------------------------------------------------
(* Types, and the steps that leave a session's rows alone or stamp them.   *)

\* Where a handler stands says what it carries.
LEMMA HandlerCarries ==
    ASSUME NEW x \in Request
    PROVE  /\ x.pc = "consume_code" =>
                x \in [pc : {"consume_code"}, now : Nat, code : Codes, client : Clients]
           /\ x.pc = "consume_refresh" =>
                x \in [pc : {"consume_refresh"}, now : Nat, token : Tokens, client : Clients]
           /\ x.pc = "save" =>
                x \in [pc : {"save"}, token : Tokens, lin : Lineage, expires : Nat]
<1>1. x.pc = "consume_code" =>
        x \in [pc : {"consume_code"}, now : Nat, code : Codes, client : Clients]
  BY SMTT(30) DEF Request, Idle
<1>2. x.pc = "consume_refresh" =>
        x \in [pc : {"consume_refresh"}, now : Nat, token : Tokens, client : Clients]
  BY SMTT(30) DEF Request, Idle
<1>3. x.pc = "save" => x \in [pc : {"save"}, token : Tokens, lin : Lineage, expires : Nat]
  BY SMTT(30) DEF Request, Idle
<1> QED
  BY <1>1, <1>2, <1>3, ZenonT(30)

\* Every variable of a token session has its type in every reachable state.
THEOREM TypeCorrect == Spec => []TypeOK
<1> USE LifetimesAssumption, BackendAssumption, BoundsAssumption
<1>1. Init => TypeOK
  BY SMTT(30) DEF Init, TypeOK, CodeRow, TokenRow, Absent, Request, Idle
<1>2. TypeOK /\ [Next]_vars => TypeOK'
  <2> SUFFICES ASSUME TypeOK, [Next]_vars PROVE TypeOK'
    OBVIOUS
  <2> USE DEF TypeOK
  <2>1. ASSUME NEW c \in Codes, NEW u \in People, NEW cl \in Clients, SaveAuthCode(c, u, cl)
        PROVE  TypeOK'
    BY SMTT(30), <2>1 DEF SaveAuthCode, CodeRow
  <2>2. ASSUME NEW p \in Procs, NEW c \in Codes, NEW cl \in Clients, BeginCodeGrant(p, c, cl)
        PROVE  TypeOK'
    BY SMTT(30), <2>2 DEF BeginCodeGrant, Request
  <2>3. ASSUME NEW p \in Procs, NEW t \in Tokens, NEW cl \in Clients, BeginRefreshGrant(p, t, cl)
        PROVE  TypeOK'
    BY SMTT(30), <2>3 DEF BeginRefreshGrant, Request
  <2>4. ASSUME NEW p \in Procs, NEW ok \in BOOLEAN, ConsumeAuthCode(p, ok) PROVE TypeOK'
    <3> DEFINE r == req[p]  row == codes[r.code]
    <3>1. r \in [pc : {"consume_code"}, now : Nat, code : Codes, client : Clients]
      <4>1. r \in Request /\ r.pc = "consume_code"
        BY <2>4, ZenonT(30) DEF ConsumeAuthCode
      <4> QED
        BY <4>1, HandlerCarries, ZenonT(30)
    <3>2. CASE row.st = "live"
      <4>1. row \in [st : {"live"}, client : Clients, owner : People, expires : Nat]
        BY <3>1, <3>2 DEF CodeRow, Absent
      <4>2. PICK f \in Families :
              /\ codes' = [codes EXCEPT ![r.code] =
                             [st |-> "consumed", client |-> row.client, owner |-> row.owner,
                              expires |-> row.expires, family |-> f]]
              /\ openedBy' = openedBy \cup {<<f, r.code>>}
              /\ req' = [req EXCEPT ![p] =
                           IF Redeemable(r, row, ok)
                             THEN [pc |-> "issue_code",
                                   lin |-> [family |-> f, client |-> row.client,
                                            owner |-> row.owner]]
                             ELSE Idle]
        BY ZenonT(30), <2>4, <3>2 DEF ConsumeAuthCode, CodeLive
      <4>3. codes' \in [Codes -> CodeRow]
        BY <3>1, <4>1, <4>2 DEF CodeRow
      <4>4. req' \in [Procs -> Request]
        BY <4>1, <4>2 DEF Request, SignIn
      <4>5. openedBy' \subseteq Families \X Codes
        BY SMTT(30), <3>1, <4>2
      <4> QED
        BY <2>4, <4>3, <4>4, <4>5 DEF ConsumeAuthCode
    <3>3. CASE row.st # "live"
      BY SMTT(30), <2>4, <3>1, <3>3 DEF ConsumeAuthCode, CodeLive, Request
    <3> QED
      BY <3>2, <3>3
  <2>5. ASSUME NEW p \in Procs, ProbeAuthCode(p) PROVE TypeOK'
    BY SMTT(30), <2>5 DEF ProbeAuthCode, Request, CodeRow, Absent, Idle
  <2>6. ASSUME NEW p \in Procs, NEW ok \in BOOLEAN, ConsumeRefresh(p, ok) PROVE TypeOK'
    BY SMTT(30), <2>6 DEF ConsumeRefresh, Request, TokenRow, Absent, Lineage, Idle, Live, Tombstone
  <2>7. ASSUME NEW p \in Procs, ProbeRefresh(p) PROVE TypeOK'
    BY SMTT(30), <2>7 DEF ProbeRefresh, Request, TokenRow, Absent, Lineage, Idle
  <2>8. ASSUME NEW p \in Procs, NEW ok \in BOOLEAN, Issue(p, ok) PROVE TypeOK'
    BY SMTT(30), <2>8 DEF Issue, IssueLineage, IssueExpiry, Request, SignIn, Lineage, Idle
  <2>9. ASSUME NEW p \in Procs, SaveRefresh(p) PROVE TypeOK'
    <3>1. req[p] \in [pc : {"save"}, token : Tokens, lin : Lineage, expires : Nat]
      <4>1. req[p] \in Request /\ req[p].pc = "save"
        BY <2>9, ZenonT(30) DEF SaveRefresh
      <4> QED
        BY <4>1, HandlerCarries, ZenonT(30)
    <3>2. req' \in [Procs -> Request]
      BY <2>9 DEF SaveRefresh, Request
    <3>3. tokens' \in [Tokens -> TokenRow]
      <4>1. [st |-> "live", revoked |-> FALSE, lin |-> req[p].lin, expires |-> req[p].expires]
              \in TokenRow
        BY <3>1 DEF TokenRow
      <4> QED
        BY <2>9, <4>1 DEF SaveRefresh
    <3>4. families' \in [Families -> {"none", "live", "revoked"}]
      BY <2>9 DEF SaveRefresh
    <3> QED
      BY <2>9, <3>2, <3>3, <3>4 DEF SaveRefresh
  <2>10. ASSUME NEW p \in Procs, RevokeFamily(p) PROVE TypeOK'
    BY SMTT(30), <2>10 DEF RevokeFamily, RevokeRows, Revoked, Request, TokenRow, Absent, Idle, InFamily, Row
  <2>11. ASSUME NEW f \in Families, OperatorRevokeFamily(f) PROVE TypeOK'
    BY <2>11 DEF OperatorRevokeFamily, RevokeRows, Revoked, TokenRow, Absent, InFamily, Row
  <2>12. ASSUME NEW u \in People, OperatorRevokePerson(u) PROVE TypeOK'
    BY <2>12 DEF OperatorRevokePerson, FamiliesOf, RevokeRows, Revoked, TokenRow, Absent, InFamily, Row
  <2>13. ASSUME NEW c \in Codes, ReapAuthCode(c) PROVE TypeOK'
    BY <2>13 DEF ReapAuthCode, CodeRow, Absent
  <2>14. ASSUME NEW f \in Families, PostgresReapFamily(f) PROVE TypeOK'
    BY <2>14 DEF PostgresReapFamily, DeleteFamily, TokenRow, Absent
  <2>15. CASE SqliteScan
    BY <2>15 DEF SqliteScan
  <2>16. ASSUME NEW f \in Families, SqliteDeleteFamily(f) PROVE TypeOK'
    BY <2>16 DEF SqliteDeleteFamily, DeleteFamily, TokenRow, Absent
  <2>17. CASE Tick
    BY SMTT(30), <2>17 DEF Tick
  <2>18. ASSUME NEW p \in Procs, Abandon(p) PROVE TypeOK'
    BY SMTT(30), <2>18 DEF Abandon, Request
  <2>19. CASE AbandonSweep
    BY SMTT(30), <2>19 DEF AbandonSweep
  <2>20. CASE UNCHANGED vars
    BY <2>20 DEF vars
  <2> QED
    BY ZenonT(30), <2>1, <2>2, <2>3, <2>4, <2>5, <2>6, <2>7, <2>8, <2>9, <2>10, <2>11, <2>12, <2>13,
       <2>14, <2>15, <2>16, <2>17, <2>18, <2>19, <2>20 DEF Next, HandlerStep, ReaperStep
<1> QED
  BY <1>1, <1>2, PTL DEF Spec

\* A stored token names a family.
LEMMA RowsTyped ==
    ASSUME TypeOK, NEW t \in Tokens, Row(t)
    PROVE  tokens[t].lin \in Lineage /\ tokens[t].lin.family \in Families
  BY DEF Row, TypeOK, TokenRow, Absent, Lineage

-----------------------------------------------------------------------------
Holding == {"issue_code", "issue_refresh", "save"}

\* No handler begins to hold a family, and one that goes on holding is as it was.
HandlersLetGo == \A p \in Procs : req'[p] = req[p] \/ req'[p].pc \notin Holding

\* A code once spent stays spent.
CodesStaySpent ==
    \A c \in Codes : codes[c].st \in {"consumed", "gone"} => codes'[c].st \in {"consumed", "gone"}

\* A step that touches no row of a session keeps the invariant.
LEMMA RowsUntouched ==
    ASSUME IInv, TypeOK', HandlersLetGo, CodesStaySpent,
           \A f \in doomed' : Opened(f),
           UNCHANGED <<tokens, families, openedBy, everRevoked, everReaped, reapedUnder>>
    PROVE  IInv'
<1> USE DEF IInv, HandlersLetGo, Holding, Holds, Opened, Row, Live, InFamily
<1>1. FamiliesOpened'
  BY ZenonT(30) DEF FamiliesOpened, TypeOK
<1>7. OpeningSpends'
  BY DEF OpeningSpends, CodesStaySpent, TypeOK
<1>8. TokensDrawnOnce'
  BY DEF TokensDrawnOnce, TypeOK
<1>2. SingleLineage'
  BY SMTT(30) DEF SingleLineage, TypeOK
<1>3. RevokedForGood'
  BY DEF RevokedForGood, FamilyRevoked
<1>4. LineageInherited'
  BY SMTT(30) DEF LineageInherited, ExpiryCapped, LineageShared, HolderInherits, TypeOK
<1>5. OneFamilyPerCode'
  BY DEF OneFamilyPerCode
<1>6. ReapedForGood'
  BY DEF ReapedForGood, TypeOK
<1>9. EverySessionRevocable'
  BY DEF EverySessionRevocable, FamilyKnown
<1> QED
  BY <1>1, <1>2, <1>3, <1>4, <1>5, <1>6, <1>7, <1>8, <1>9

\* Stamping the rows of families the store knows keeps the invariant.
LEMMA RowsRevoked ==
    ASSUME IInv, TypeOK', NEW F \in SUBSET Families, RevokeRows(F),
           \A f \in F : FamilyKnown(f), HandlersLetGo,
           UNCHANGED <<codes, doomed, openedBy, everReaped, reapedUnder>>
    PROVE  IInv'
<1> USE DEF IInv, HandlersLetGo, Holding
<1>1. \A t \in Tokens :
        /\ tokens'[t].st = tokens[t].st
        /\ Row(t) => tokens'[t].lin = tokens[t].lin /\ tokens'[t].expires = tokens[t].expires
        /\ Row(t) /\ tokens[t].revoked => tokens'[t].revoked
        /\ Row(t) /\ tokens[t].lin.family \in F => tokens'[t].revoked
  BY DEF RevokeRows, Revoked, InFamily, Row, TypeOK, TokenRow, Absent
<1>2. \A t \in Tokens : Row(t)' <=> Row(t)
  BY <1>1 DEF Row
<1>3. \A t \in Tokens : Live(t)' => Live(t)
  BY <1>1 DEF Live, Row, TypeOK, TokenRow, Absent
<1>4. \A t \in Tokens, f \in Families : InFamily(t, f)' <=> InFamily(t, f)
  BY <1>1, <1>2 DEF InFamily
<1>5. FamiliesOpened'
  <2>1. \A f \in F : Opened(f)
    BY DEF FamiliesOpened, FamilyKnown, InFamily
  <2>2. \A t \in Tokens : Row(t)' => Opened(tokens[t].lin.family)'
    BY ZenonT(30), <1>1, <1>2 DEF FamiliesOpened, Opened
  <2>3. \A p \in Procs, f \in Families : Holds(p, f)' => Opened(f)'
    BY DEF FamiliesOpened, Holds, Opened
  <2> QED
    BY <2>1, <2>2, <2>3 DEF FamiliesOpened, RevokeRows, Opened
<1>11. OpeningSpends'
  BY DEF OpeningSpends
<1>12. TokensDrawnOnce'
  BY SMTT(30), <1>1 DEF TokensDrawnOnce, TypeOK, Request, Idle
<1>6. SingleLineage'
  BY SMTT(30), <1>3, <1>4 DEF SingleLineage, Holds
<1>7. RevokedForGood'
  BY SMTT(30), <1>1, <1>2, <1>4 DEF RevokedForGood, FamilyRevoked, FamilyKnown, RevokeRows, InFamily, TypeOK
<1>8. LineageInherited'
  BY SMTT(30), <1>1, <1>2 DEF LineageInherited, ExpiryCapped, LineageShared, HolderInherits, Holds, TypeOK
<1>9. OneFamilyPerCode'
  BY DEF OneFamilyPerCode
<1>10. ReapedForGood'
  BY <1>3, <1>4 DEF ReapedForGood, Holds, TypeOK
<1>13. EverySessionRevocable'
  BY SMTT(30), <1>1, <1>2, <1>4
     DEF EverySessionRevocable, FamilyKnown, RevokeRows, TypeOK, TokenRow, Absent, Lineage, Row
<1> QED
  BY <1>5, <1>6, <1>7, <1>8, <1>9, <1>10, <1>11, <1>12, <1>13

-----------------------------------------------------------------------------
(* A rotation up to its save: spending the live token, drawing the next.   *)

\* Spending a live token, its handler taking the family over or dropping it.
LEMMA TokenConsumed ==
    ASSUME IInv, TypeOK', NEW p \in Procs, NEW t \in Tokens, Live(t),
           \A u \in Tokens : u # t => tokens'[u] = tokens[u],
           tokens'[t] = Tombstone(tokens[t]),
           \A q \in Procs : q # p => req'[q] = req[q],
           \/ req'[p].pc \notin Holding
           \/ req'[p].pc = "issue_refresh" /\ req'[p].lin = tokens[t].lin,
           UNCHANGED <<codes, families, doomed, openedBy, everRevoked, everReaped, reapedUnder>>
    PROVE  IInv'
<1> DEFINE f == tokens[t].lin.family
<1> USE DEF IInv
<1>1. Row(t) /\ InFamily(t, f) /\ f \in Families
  BY RowsTyped DEF Live, Row, InFamily
<1>4. \A u \in Tokens :
        /\ Row(u)' <=> Row(u)
        /\ Row(u) => /\ tokens'[u].lin = tokens[u].lin
                     /\ tokens'[u].expires = tokens[u].expires
                     /\ tokens'[u].revoked = tokens[u].revoked
        /\ tokens[u].st = "unborn" => tokens'[u].st = "unborn"
  BY SMTT(30), <1>1 DEF Row, Tombstone
<1>5. \A u \in Tokens, g \in Families : InFamily(u, g)' <=> InFamily(u, g)
  BY <1>4 DEF InFamily
<1>6. \A u \in Tokens : Live(u)' => Live(u) /\ u # t
  BY SMTT(30) DEF Live, Tombstone
<1>7. \A q \in Procs, g \in Families :
        Holds(q, g)' => \/ Holds(q, g) /\ q # p
                        \/ q = p /\ g = f /\ req'[p].pc = "issue_refresh" /\ req'[p].lin = tokens[t].lin
  BY DEF Holds, Holding
<1>8. \A g \in Families : (FamilyKnown(g) => FamilyKnown(g)') /\ (FamilyRevoked(g) => FamilyRevoked(g)')
  BY ZenonT(60), <1>4, <1>5 DEF FamilyKnown, FamilyRevoked, InFamily
<1>9. Opened(f) /\ (\A g : Opened(g)' <=> Opened(g))
  BY <1>1 DEF FamiliesOpened, Opened
<1>10. FamiliesOpened'
  BY <1>1, <1>4, <1>7, <1>9 DEF FamiliesOpened
<1>11. OpeningSpends'
  BY DEF OpeningSpends
<1>12. TokensDrawnOnce'
  <2>1. \A q \in Procs : req'[q].pc = "save" => q # p /\ req[q].pc = "save" /\ req'[q] = req[q]
    BY DEF Holding
  <2>2. \A q \in Procs : req[q].pc = "save" => req[q].token \in Tokens
    BY SMTT(30) DEF TypeOK, Request, Idle
  <2> QED
    BY SMTT(30), <1>4, <2>1, <2>2 DEF TokensDrawnOnce
<1>13. SingleLineage'
  BY SMTT(30), <1>1, <1>5, <1>6, <1>7 DEF SingleLineage
<1>14. RevokedForGood'
  <2>1. \A u \in Tokens, g \in Families : InFamily(u, g) => tokens'[u].revoked = tokens[u].revoked
    BY <1>4 DEF InFamily
  <2> QED
    BY <1>5, <1>8, <2>1 DEF RevokedForGood, TypeOK
<1>15. LineageInherited'
  <2>1. \A q \in Procs : req'[q].pc = "save" => q # p /\ req'[q] = req[q]
    BY DEF Holding
  <2>2. \A u \in Tokens : Row(u) => tokens[u].lin.family \in Families
    BY RowsTyped
  <2>3. \A q \in Procs, u \in Tokens :
          Row(u) /\ Holds(q, tokens[u].lin.family)'
            => req'[q].pc \in {"issue_refresh", "save"} /\ req'[q].lin = tokens[u].lin
    <3> SUFFICES ASSUME NEW q \in Procs, NEW u \in Tokens, Row(u), Holds(q, tokens[u].lin.family)'
                 PROVE  req'[q].pc \in {"issue_refresh", "save"} /\ req'[q].lin = tokens[u].lin
      OBVIOUS
    <3>1. tokens'[u].lin.family = tokens[u].lin.family
      BY <1>4
    <3>2. CASE q # p
      BY SMTT(30), <1>7, <2>2, <3>1, <3>2 DEF LineageInherited, HolderInherits
    <3>3. CASE q = p
      BY <1>1, <1>7, <2>2, <3>1, <3>3 DEF LineageInherited, LineageShared
    <3> QED
      BY <3>2, <3>3
  <2>4. ExpiryCapped'
    BY <1>4, <2>1 DEF LineageInherited, ExpiryCapped
  <2>5. LineageShared'
    BY SMTT(30), <1>4 DEF LineageInherited, LineageShared
  <2>6. HolderInherits'
    BY ZenonT(60), <1>4, <2>3 DEF HolderInherits
  <2> QED
    BY <2>4, <2>5, <2>6 DEF LineageInherited
<1>16. OneFamilyPerCode'
  BY DEF OneFamilyPerCode
<1>17. ReapedForGood'
  <2>1. f \notin everReaped \ reapedUnder
    BY <1>1 DEF ReapedForGood
  <2> QED
    BY <1>5, <1>6, <1>7, <2>1 DEF ReapedForGood, TypeOK
<1>18. EverySessionRevocable'
  BY <1>4, <1>8, RowsTyped DEF EverySessionRevocable
<1> QED
  BY <1>10, <1>11, <1>12, <1>13, <1>14, <1>15, <1>16, <1>17, <1>18

\* Drawing the next token of a family the handler holds.
LEMMA TokenDrawn ==
    ASSUME IInv, TypeOK', NEW p \in Procs, NEW t \in Tokens, NEW l \in Lineage,
           req[p].pc \in {"issue_code", "issue_refresh"}, req[p].lin.family = l.family,
           req[p].pc = "issue_refresh" => req[p].lin = l,
           tokens[t].st = "unborn", ~Drawn(t),
           \A q \in Procs : q # p => req'[q] = req[q],
           req'[p].pc = "save", req'[p].token = t, req'[p].lin = l,
           req'[p].expires <= l.authTime + MaxLifetime,
           UNCHANGED <<codes, tokens, families, doomed, openedBy, everRevoked, everReaped, reapedUnder>>
    PROVE  IInv'
<1> USE DEF IInv
<1>1. \A q \in Procs, g \in Families : Holds(q, g)' <=> Holds(q, g)
  BY DEF Holds
<1>2. \A u \in Tokens : (Row(u)' <=> Row(u)) /\ (Live(u)' <=> Live(u))
  BY DEF Row, Live
<1>3. \A u \in Tokens, g \in Families : InFamily(u, g)' <=> InFamily(u, g)
  BY DEF InFamily, Row
<1>4. FamiliesOpened'
  BY <1>1, <1>2 DEF FamiliesOpened, Opened
<1>5. OpeningSpends'
  BY DEF OpeningSpends
<1>6. TokensDrawnOnce'
  BY ZenonT(60) DEF TokensDrawnOnce, Drawn
<1>7. SingleLineage'
  BY <1>1, <1>2, <1>3 DEF SingleLineage
<1>8. RevokedForGood'
  BY DEF RevokedForGood, FamilyRevoked, InFamily, Row
<1>9. LineageInherited'
  <2>1. \A u \in Tokens : Row(u) => tokens[u].lin.family \in Families
    BY RowsTyped
  <2>2. \A q \in Procs : req'[q].pc = "save" => req'[q].expires <= req'[q].lin.authTime + MaxLifetime
    BY DEF LineageInherited, ExpiryCapped
  <2>3. ASSUME NEW q \in Procs, NEW u \in Tokens, Row(u), Holds(q, tokens[u].lin.family)
        PROVE  req'[q].pc \in {"issue_refresh", "save"} /\ req'[q].lin = tokens[u].lin
    <3>1. req[q].pc \in {"issue_refresh", "save"} /\ req[q].lin = tokens[u].lin
      BY <2>3 DEF LineageInherited, HolderInherits
    <3> QED
      BY <3>1
  <2>4. \A q \in Procs, u \in Tokens :
          Row(u) /\ Holds(q, tokens[u].lin.family)'
            => req'[q].pc \in {"issue_refresh", "save"} /\ req'[q].lin = tokens[u].lin
    BY <1>1, <2>1, <2>3
  <2>5. ExpiryCapped'
    BY <1>2, <2>2 DEF LineageInherited, ExpiryCapped
  <2>6. LineageShared'
    BY <1>2 DEF LineageInherited, LineageShared
  <2>7. HolderInherits'
    BY <1>2, <2>4 DEF HolderInherits
  <2> QED
    BY <2>5, <2>6, <2>7 DEF LineageInherited
<1>10. OneFamilyPerCode'
  BY DEF OneFamilyPerCode
<1>11. ReapedForGood'
  BY <1>1, <1>2, <1>3 DEF ReapedForGood, TypeOK
<1>12. EverySessionRevocable'
  BY DEF EverySessionRevocable, FamilyKnown, InFamily, Row
<1> QED
  BY <1>4, <1>5, <1>6, <1>7, <1>8, <1>9, <1>10, <1>11, <1>12

-----------------------------------------------------------------------------
(* Rows coming and going: SaveRefresh stores a token, the reaper deletes.  *)

\* Storing the token a handler has drawn, in a family not revoked.
LEMMA TokenStored ==
    ASSUME IInv, TypeOK', NEW p \in Procs, NEW t \in Tokens, NEW l \in Lineage, NEW e \in Nat,
           req[p].pc = "save", req[p].token = t, req[p].lin = l, req[p].expires = e,
           ~FamilyRevoked(l.family),
           \A u \in Tokens : u # t => tokens'[u] = tokens[u],
           tokens'[t].st = "live", ~tokens'[t].revoked, tokens'[t].lin = l, tokens'[t].expires = e,
           \A g \in Families : g # l.family => families'[g] = families[g],
           Backend = "postgres" => families'[l.family] = "live",
           \A q \in Procs : q # p => req'[q] = req[q], req'[p].pc = "idle",
           UNCHANGED <<codes, doomed, openedBy, everRevoked, everReaped, reapedUnder>>
    PROVE  IInv'
<1> DEFINE f == l.family
<1> USE DEF IInv
<1>1. f \in Families /\ tokens[t].st = "unborn" /\ ~Row(t) /\ Holds(p, f) /\ Opened(f)
  BY DEF Lineage, TokensDrawnOnce, Row, Holds, FamiliesOpened
<1>3. \A u \in Tokens : (Row(u)' <=> Row(u) \/ u = t) /\ (Live(u)' <=> Live(u) \/ u = t)
  BY DEF Row, Live
<1>4. \A u \in Tokens, g \in Families : InFamily(u, g)' <=> InFamily(u, g) \/ (u = t /\ g = f)
  BY <1>1 DEF InFamily, Row
<1>5. \A q \in Procs, g \in Families : Holds(q, g)' => q # p /\ Holds(q, g) /\ g # f
  <2>1. \A q \in Procs, g \in Families : Holds(q, g)' => q # p /\ Holds(q, g)
    BY DEF Holds
  <2> QED
    BY ZenonT(60), <1>1, <2>1 DEF SingleLineage
<1>6. \A u \in Tokens : InFamily(u, f) => ~Live(u)
  BY <1>1 DEF SingleLineage
<1>8. FamiliesOpened'
  <2>1. \A g : Opened(g)' <=> Opened(g)
    BY DEF Opened
  <2> QED
    BY <1>1, <1>3, <1>5, <2>1 DEF FamiliesOpened
<1>9. OpeningSpends'
  BY DEF OpeningSpends
<1>10. TokensDrawnOnce'
  <2>1. \A q \in Procs : req'[q].pc = "save" => q # p /\ req'[q] = req[q] /\ req[q].token # t
    BY DEF TokensDrawnOnce
  <2>2. \A q \in Procs : req[q].pc = "save" => req[q].token \in Tokens
    BY DEF TypeOK, Request, Idle
  <2> QED
    BY SMTT(30), <2>1, <2>2 DEF TokensDrawnOnce
<1>11. SingleLineage'
  <2>1. \A g \in Families, u, v \in Tokens :
          Live(u)' /\ Live(v)' /\ InFamily(u, g)' /\ InFamily(v, g)' => u = v
    BY SMTT(30), <1>1, <1>3, <1>4, <1>6 DEF SingleLineage, InFamily
  <2>2. \A g \in Families, q \in Procs, u \in Tokens : Holds(q, g)' /\ InFamily(u, g)' => ~Live(u)'
    BY SMTT(30), <1>1, <1>3, <1>4, <1>5 DEF SingleLineage, InFamily
  <2>3. \A g \in Families, q1, q2 \in Procs : Holds(q1, g)' /\ Holds(q2, g)' => q1 = q2
    BY <1>5 DEF SingleLineage
  <2> QED
    BY <2>1, <2>2, <2>3 DEF SingleLineage
<1>12. RevokedForGood'
  <2>1. f \notin everRevoked \ everReaped
    BY DEF RevokedForGood
  <2>2. \A g \in Families : g # f /\ FamilyRevoked(g) => FamilyRevoked(g)'
    <3>1. CASE Backend = "postgres"
      BY <3>1 DEF FamilyRevoked
    <3>2. CASE Backend # "postgres"
      BY SMTT(30), <1>1, <1>4, <3>2 DEF FamilyRevoked, InFamily
    <3> QED
      BY <3>1, <3>2
  <2>3. \A g \in Families, u \in Tokens :
          g # f /\ InFamily(u, g)' => InFamily(u, g) /\ tokens'[u].revoked = tokens[u].revoked
    <3>1. \A g \in Families, u \in Tokens : InFamily(u, g) => u # t
      BY <1>1 DEF InFamily
    <3> QED
      BY ZenonT(60), <1>4, <3>1
  <2>4. everRevoked \subseteq Families
    BY DEF TypeOK
  <2> QED
    BY SMTT(30), <2>1, <2>2, <2>3, <2>4 DEF RevokedForGood
<1>13. LineageInherited'
  <2>1. \A u \in Tokens : Row(u) => tokens[u].lin.family \in Families
    BY RowsTyped
  <2>2. \A u \in Tokens : Row(u) /\ tokens[u].lin.family = f => tokens[u].lin = l
    BY <1>1 DEF LineageInherited, HolderInherits
  <2>3. ExpiryCapped'
    <3>1. \A u \in Tokens : Row(u)' => tokens'[u].expires <= tokens'[u].lin.authTime + MaxLifetime
      BY <1>3 DEF LineageInherited, ExpiryCapped
    <3>2. \A q \in Procs : req'[q].pc = "save" => q # p
      OBVIOUS
    <3> QED
      BY <3>1, <3>2 DEF LineageInherited, ExpiryCapped
  <2>4. LineageShared'
    <3> SUFFICES ASSUME NEW u \in Tokens, NEW v \in Tokens, Row(u)', Row(v)',
                        tokens'[u].lin.family = tokens'[v].lin.family
                 PROVE  tokens'[u].lin = tokens'[v].lin
      BY DEF LineageShared
    <3>1. \A w \in {u, v} : w # t => Row(w) /\ tokens'[w] = tokens[w]
      BY <1>3
    <3>2. tokens'[t].lin = l
      OBVIOUS
    <3> QED
      BY SMTT(30), <2>2, <3>1, <3>2 DEF LineageInherited, LineageShared
  <2>5. HolderInherits'
    <3> SUFFICES ASSUME NEW q \in Procs, NEW u \in Tokens, Row(u)',
                        Holds(q, tokens[u].lin.family)'
                 PROVE  req'[q].pc \in {"issue_refresh", "save"} /\ req'[q].lin = tokens'[u].lin
      BY DEF HolderInherits
    <3>1. u # t /\ Row(u) /\ tokens'[u] = tokens[u]
      BY <1>1, <1>3, <1>5
    <3>2. q # p /\ Holds(q, tokens[u].lin.family)
      BY <1>5, <2>1, <3>1
    <3> QED
      BY SMTT(30), <3>1, <3>2 DEF LineageInherited, HolderInherits
  <2> QED
    BY <2>3, <2>4, <2>5 DEF LineageInherited
<1>14. OneFamilyPerCode'
  BY DEF OneFamilyPerCode
<1>15. ReapedForGood'
  <2>1. f \notin everReaped \ reapedUnder
    BY <1>1 DEF ReapedForGood
  <2> QED
    BY SMTT(30), <1>3, <1>4, <1>5, <2>1, <1>1 DEF ReapedForGood, TypeOK, InFamily
<1>16. EverySessionRevocable'
  <2>1. \A g \in Families : FamilyKnown(g) \/ g = f => FamilyKnown(g)'
    <3>1. CASE Backend = "postgres"
      BY <1>1, <3>1 DEF FamilyKnown, TypeOK
    <3>2. CASE Backend # "postgres"
      BY <1>4, <3>2 DEF FamilyKnown
    <3> QED
      BY <3>1, <3>2
  <2>2. ASSUME NEW u \in Tokens, Row(u)'
        PROVE  FamilyKnown(tokens[u].lin.family)'
    <3>1. CASE u = t
      BY <1>1, <2>1, <3>1
    <3>2. CASE u # t
      BY <1>3, <2>1, <2>2, <3>2, RowsTyped DEF EverySessionRevocable
    <3> QED
      BY <3>1, <3>2
  <2> QED
    BY <2>2 DEF EverySessionRevocable
<1> QED
  BY <1>8, <1>9, <1>10, <1>11, <1>12, <1>13, <1>14, <1>15, <1>16

\* Deleting every row of one family keeps the invariant.
LEMMA FamilyDeleted ==
    ASSUME IInv, TypeOK', NEW f \in Families, DeleteFamily(f), Opened(f), doomed' \subseteq doomed
    PROVE  IInv'
<1> USE DEF IInv
<1>1. \A t \in Tokens : Row(t)' => Row(t) /\ tokens'[t] = tokens[t] /\ ~InFamily(t, f)
  BY DEF DeleteFamily, Row, InFamily, TypeOK
<1>2. \A t \in Tokens : ~InFamily(t, f) => tokens'[t] = tokens[t]
  BY DEF DeleteFamily
<1>3. \A p \in Procs : req'[p] = req[p]
  BY DEF DeleteFamily
<1>4. FamiliesOpened'
  BY SMTT(30), <1>1, <1>3 DEF FamiliesOpened, Opened, Holds, DeleteFamily
<1>10. OpeningSpends'
  BY SMTT(30) DEF OpeningSpends, DeleteFamily
<1>11. TokensDrawnOnce'
  BY SMTT(30), <1>2, <1>3 DEF TokensDrawnOnce, InFamily, Row, TypeOK, Request, Idle
<1>5. SingleLineage'
  BY SMTT(30), <1>1, <1>3 DEF SingleLineage, Holds, InFamily, Live, Row
<1>6. RevokedForGood'
  BY SMTT(30), <1>1, <1>2 DEF RevokedForGood, FamilyRevoked, DeleteFamily, InFamily, Row, TypeOK
<1>7. LineageInherited'
  BY SMTT(30), <1>1, <1>3 DEF LineageInherited, ExpiryCapped, LineageShared, HolderInherits, Holds
<1>8. OneFamilyPerCode'
  BY DEF OneFamilyPerCode, DeleteFamily
<1>9. ReapedForGood'
  BY SMTT(30), <1>1, <1>3 DEF ReapedForGood, Holds, InFamily, DeleteFamily, Live
<1>12. EverySessionRevocable'
  BY <1>1 DEF EverySessionRevocable, FamilyKnown, DeleteFamily, InFamily, Row, TypeOK,
              TokenRow, Absent, Lineage
<1> QED
  BY <1>4, <1>5, <1>6, <1>7, <1>8, <1>9, <1>10, <1>11, <1>12

\* On Postgres, where one statement picks a dead family and deletes it, the
\* reaper never takes a token the refresh grant would still accept.
THEOREM PostgresReaperSpares == Backend = "postgres" /\ Spec => ReaperSparesUsable
<1> DEFINE NoScan == Backend = "postgres" /\ doomed = {}
<1>1. Backend = "postgres" /\ Init => NoScan
  BY SMTT(30) DEF Init
<1>2. NoScan /\ [Next]_vars => NoScan'
  <2> SUFFICES ASSUME NoScan, [Next]_vars PROVE doomed' = {}
    OBVIOUS
  <2>1. \A f \in Families : ~SqliteDeleteFamily(f)
    BY DEF SqliteDeleteFamily
  <2>2. ~SqliteScan
    BY DEF SqliteScan
  <2>3. ASSUME NEW p \in Procs, HandlerStep(p) PROVE doomed' = {}
    BY ZenonT(30), <2>3 DEF HandlerStep, ConsumeAuthCode, ConsumeRefresh, Issue, ProbeAuthCode, ProbeRefresh,
                SaveRefresh, RevokeFamily
  <2>4. CASE ReaperStep
    BY SMTT(30), <2>1, <2>2, <2>4 DEF ReaperStep, ReapAuthCode, PostgresReapFamily
  <2> QED
    BY ZenonT(30), <2>3, <2>4 DEF Next, vars, SaveAuthCode, BeginCodeGrant, BeginRefreshGrant, Abandon,
       OperatorRevokeFamily, OperatorRevokePerson, AbandonSweep, Tick
<1>3. TypeOK /\ NoScan /\ [Next]_vars
        => [\A t \in Tokens : Usable(t) => tokens'[t].st # "gone"]_vars
  <2> SUFFICES ASSUME TypeOK, NoScan, [Next]_vars, NEW t \in Tokens, Usable(t)
               PROVE  tokens'[t].st # "gone"
    OBVIOUS
  <2>0. /\ tokens[t].st = "live" /\ ~tokens[t].revoked /\ Row(t)
        /\ ~(tokens[t].expires < now) /\ ~Ended(now, tokens[t].lin)
        /\ tokens[t].lin.family \in Families
    BY RowsTyped DEF Usable, Live, Row
  <2>1. ASSUME UNCHANGED tokens PROVE tokens'[t].st # "gone"
    BY <2>0, <2>1
  <2>2. ASSUME NEW p \in Procs, NEW ok \in BOOLEAN, ConsumeRefresh(p, ok)
        PROVE  tokens'[t].st # "gone"
    BY SMTT(30), <2>0, <2>2 DEF ConsumeRefresh, Tombstone, TypeOK
  <2>3. ASSUME NEW p \in Procs, SaveRefresh(p) PROVE tokens'[t].st # "gone"
    BY SMTT(30), <2>0, <2>3 DEF SaveRefresh, TypeOK
  <2>4. ASSUME NEW F, RevokeRows(F) PROVE tokens'[t].st # "gone"
    BY SMTT(30), <2>0, <2>4 DEF RevokeRows, Revoked
  <2>5. ASSUME NEW f \in Families, PostgresReapFamily(f) PROVE tokens'[t].st # "gone"
    <3>1. ~InFamily(t, f)
      BY SMTT(30), <2>0, <2>5 DEF PostgresReapFamily, FamilySpent, Spent
    <3> QED
      BY ZenonT(30), <2>0, <2>5, <3>1 DEF PostgresReapFamily, DeleteFamily
  <2>6. ASSUME NEW p \in Procs, HandlerStep(p) PROVE tokens'[t].st # "gone"
    BY ZenonT(30), <2>1, <2>2, <2>3, <2>4, <2>6
       DEF HandlerStep, ConsumeAuthCode, Issue, ProbeAuthCode, ProbeRefresh, RevokeFamily
  <2>7. CASE ReaperStep
    BY <2>1, <2>5, <2>7 DEF ReaperStep, ReapAuthCode, SqliteScan, SqliteDeleteFamily
  <2> QED
    BY ZenonT(30), <2>1, <2>4, <2>6, <2>7 DEF Next, vars, SaveAuthCode, BeginCodeGrant, BeginRefreshGrant,
       Abandon, OperatorRevokeFamily, OperatorRevokePerson, AbandonSweep, Tick
<1> QED
  BY <1>1, <1>2, <1>3, TypeCorrect, PTL DEF Spec, ReaperSparesUsable

-----------------------------------------------------------------------------
(* The inductive invariant, and what follows from it.                      *)

\* The invariant is inductive: one step per action, and for the five that
\* give a session a handler or a row, one per conjunct they can disturb.
LEMMA Inductive == IInv /\ TypeOK' /\ [Next]_vars => IInv'
<1> SUFFICES ASSUME IInv, TypeOK', [Next]_vars PROVE IInv'
  OBVIOUS
<1> USE DEF IInv, Holding
<1>0. \A f \in doomed : Opened(f)
  BY DEF FamiliesOpened, TypeOK
<1>00. ASSUME NEW f \in Families, FamilyKnown(f) PROVE Opened(f)
  BY <1>00 DEF FamilyKnown, FamiliesOpened, InFamily
<1>1. ASSUME NEW c \in Codes, NEW u \in People, NEW cl \in Clients, SaveAuthCode(c, u, cl)
      PROVE  IInv'
  <2>1. HandlersLetGo /\ CodesStaySpent
    BY <1>1 DEF SaveAuthCode, HandlersLetGo, CodesStaySpent, TypeOK
  <2> QED
    BY <1>0, <1>1, <2>1, RowsUntouched DEF SaveAuthCode
<1>2. ASSUME NEW p \in Procs, NEW c \in Codes, NEW cl \in Clients, BeginCodeGrant(p, c, cl)
      PROVE  IInv'
  <2>1. HandlersLetGo /\ CodesStaySpent
    BY <1>2 DEF BeginCodeGrant, HandlersLetGo, CodesStaySpent, TypeOK
  <2> QED
    BY <1>0, <1>2, <2>1, RowsUntouched DEF BeginCodeGrant
<1>3. ASSUME NEW p \in Procs, NEW t \in Tokens, NEW cl \in Clients, BeginRefreshGrant(p, t, cl)
      PROVE  IInv'
  <2>1. HandlersLetGo /\ CodesStaySpent
    BY <1>3 DEF BeginRefreshGrant, HandlersLetGo, CodesStaySpent, TypeOK
  <2> QED
    BY <1>0, <1>3, <2>1, RowsUntouched DEF BeginRefreshGrant
<1>4. ASSUME NEW p \in Procs, NEW ok \in BOOLEAN, ConsumeAuthCode(p, ok) PROVE IInv'
  <2> DEFINE r == req[p]  row == codes[r.code]
  <2>1. r.code \in Codes
    BY SMTT(30), <1>4 DEF ConsumeAuthCode, TypeOK, Request, Idle
  <2>2. CASE row.st # "live"
    <3>1. HandlersLetGo /\ CodesStaySpent
      BY SMTT(30), <1>4, <2>2 DEF ConsumeAuthCode, CodeLive, HandlersLetGo, CodesStaySpent, TypeOK
    <3> QED
      BY <1>0, <1>4, <2>2, <3>1, RowsUntouched DEF ConsumeAuthCode, CodeLive
  <2>3. CASE row.st = "live"
    <3>1. PICK f \in Families :
            /\ ~Opened(f)
            /\ codes' = [codes EXCEPT ![r.code] =
                           [st |-> "consumed", client |-> row.client, owner |-> row.owner,
                            expires |-> row.expires, family |-> f]]
            /\ openedBy' = openedBy \cup {<<f, r.code>>}
            /\ req' = [req EXCEPT ![p] =
                         IF Redeemable(r, row, ok)
                           THEN [pc |-> "issue_code",
                                 lin |-> [family |-> f, client |-> row.client,
                                          owner |-> row.owner]]
                           ELSE Idle]
      BY ZenonT(30), <1>4, <2>3 DEF ConsumeAuthCode, CodeLive
    <3>2. UNCHANGED <<tokens, families, doomed, everRevoked, everReaped, reapedUnder>>
      BY <1>4 DEF ConsumeAuthCode
    <3>3. \A g \in Families : Opened(g)' <=> Opened(g) \/ g = f
      BY ZenonT(30), <2>1, <3>1 DEF Opened
    <3>4. /\ \A q \in Procs, g \in Families : Holds(q, g)' => Holds(q, g) \/ (q = p /\ g = f)
          /\ \A q \in Procs : q # p => req'[q] = req[q]
          /\ req'[p].pc \in {"idle", "issue_code"}
          /\ req'[p].pc = "issue_code" => req'[p].lin.family = f
      <4>1. \A q \in Procs : q # p => req'[q] = req[q]
        BY <3>1 DEF TypeOK
      <4>2. \/ req'[p] = Idle
            \/ req'[p] = [pc |-> "issue_code", lin |-> [family |-> f, client |-> row.client,
                                                       owner |-> row.owner]]
        BY <3>1 DEF TypeOK
      <4>3. /\ req'[p].pc \in {"idle", "issue_code"}
            /\ req'[p].pc = "issue_code" => req'[p].lin.family = f
        BY SMTT(30), <4>2 DEF Idle
      <4> QED
        BY <4>1, <4>3 DEF Holds
    <3>5. \A t \in Tokens : ~InFamily(t, f)
      BY <3>1 DEF FamiliesOpened, InFamily
    <3>6. \A q \in Procs : ~Holds(q, f)
      BY <3>1 DEF FamiliesOpened
    <3>7. FamiliesOpened'
      BY <3>2, <3>3, <3>4 DEF FamiliesOpened, Row, TypeOK, TokenRow, Absent, Lineage
    <3>8. OpeningSpends'
      BY <2>1, <2>3, <3>1 DEF OpeningSpends, TypeOK
    <3>9. TokensDrawnOnce'
      BY <3>2, <3>4 DEF TokensDrawnOnce, Idle
    <3>10. SingleLineage'
      BY SMTT(30), <3>2, <3>4, <3>5, <3>6 DEF SingleLineage, InFamily, Live, Row
    <3>11. RevokedForGood'
      BY <3>2 DEF RevokedForGood, FamilyRevoked, InFamily, Row
    <3>12. LineageInherited'
      BY SMTT(30), <3>2, <3>4, <3>5 DEF LineageInherited, ExpiryCapped, LineageShared, HolderInherits, InFamily, Row, Holds, Idle
    <3>13. OneFamilyPerCode'
      BY <2>1, <2>3, <3>1 DEF OneFamilyPerCode, OpeningSpends
    <3>14. ReapedForGood'
      BY SMTT(30), <3>1, <3>2, <3>4 DEF ReapedForGood, FamiliesOpened, InFamily, Row, Live, TypeOK
    <3>15. EverySessionRevocable'
      BY <3>2 DEF EverySessionRevocable, FamilyKnown, InFamily, Row
    <3> QED
      BY <3>7, <3>8, <3>9, <3>10, <3>11, <3>12, <3>13, <3>14, <3>15
  <2> QED
    BY <2>2, <2>3
<1>5. ASSUME NEW p \in Procs, ProbeAuthCode(p) PROVE IInv'
  <2>1. HandlersLetGo /\ CodesStaySpent
    BY <1>5 DEF ProbeAuthCode, HandlersLetGo, CodesStaySpent, TypeOK, Idle
  <2> QED
    BY <1>0, <1>5, <2>1, RowsUntouched DEF ProbeAuthCode
<1>6. ASSUME NEW p \in Procs, NEW ok \in BOOLEAN, ConsumeRefresh(p, ok) PROVE IInv'
  <2> DEFINE r == req[p]  row == tokens[r.token]
  <2>1. r \in [pc : {"consume_refresh"}, now : Nat, token : Tokens, client : Clients]
    <3>1. r \in Request /\ r.pc = "consume_refresh"
      BY <1>6, ZenonT(30) DEF ConsumeRefresh, TypeOK
    <3> QED
      BY <3>1, HandlerCarries, ZenonT(30)
  <2>2. CASE ~(Live(r.token) /\ row.lin.client = r.client)
    <3>1. HandlersLetGo /\ CodesStaySpent
      BY SMTT(30), <1>6, <2>2 DEF ConsumeRefresh, HandlersLetGo, CodesStaySpent, TypeOK
    <3> QED
      BY <1>0, <1>6, <2>2, <3>1, RowsUntouched DEF ConsumeRefresh
  <2>3. CASE Live(r.token) /\ row.lin.client = r.client
    <3>1. /\ tokens' = [tokens EXCEPT ![r.token] = Tombstone(row)]
          /\ req' = [req EXCEPT ![p] =
                       IF row.expires < r.now \/ Ended(r.now, row.lin) THEN Idle
                       ELSE IF ok THEN [pc |-> "issue_refresh", lin |-> row.lin]
                       ELSE [pc |-> "revoke_refresh", family |-> row.lin.family]]
          /\ UNCHANGED <<codes, families, doomed, openedBy, everRevoked, everReaped, reapedUnder>>
      BY <1>6, <2>3 DEF ConsumeRefresh
    <3>2. /\ \A q \in Procs : q # p => req'[q] = req[q]
          /\ \/ req'[p].pc \notin Holding
             \/ req'[p].pc = "issue_refresh" /\ req'[p].lin = row.lin
      BY <3>1 DEF Idle, TypeOK
    <3>3. /\ \A u \in Tokens : u # r.token => tokens'[u] = tokens[u]
          /\ tokens'[r.token] = Tombstone(row)
      BY <2>1, <3>1 DEF TypeOK
    <3> QED
      BY ZenonT(30), <2>1, <2>3, <3>1, <3>2, <3>3, TokenConsumed
  <2> QED
    BY <2>2, <2>3
<1>7. ASSUME NEW p \in Procs, ProbeRefresh(p) PROVE IInv'
  <2>1. HandlersLetGo /\ CodesStaySpent
    BY <1>7 DEF ProbeRefresh, HandlersLetGo, CodesStaySpent, TypeOK, Idle
  <2> QED
    BY <1>0, <1>7, <2>1, RowsUntouched DEF ProbeRefresh
<1>8. ASSUME NEW p \in Procs, NEW ok \in BOOLEAN, Issue(p, ok) PROVE IInv'
  <2> DEFINE r == req[p]  lin == IssueLineage(r)
  <2>1. CASE ~ok
    <3>1. req'[p].pc \notin Holding /\ \A q \in Procs : q # p => req'[q] = req[q]
      BY SMTT(30), <1>8, <2>1 DEF Issue, TypeOK, Idle
    <3>2. HandlersLetGo /\ CodesStaySpent
      BY <1>8, <3>1 DEF Issue, HandlersLetGo, CodesStaySpent
    <3> QED
      BY <1>0, <1>8, <2>1, <3>2, RowsUntouched DEF Issue
  <2>2. CASE ok
    <3>1. PICK t \in Tokens :
            /\ tokens[t].st = "unborn" /\ ~Drawn(t)
            /\ req' = [req EXCEPT ![p] = [pc |-> "save", token |-> t, lin |-> lin,
                                          expires |-> IssueExpiry(now, lin)]]
      BY <1>8, <2>2 DEF Issue
    <3>2. /\ UNCHANGED <<codes, tokens, families, doomed, openedBy, everRevoked, everReaped,
                         reapedUnder>>
          /\ r.pc \in {"issue_code", "issue_refresh"}
      BY <1>8 DEF Issue
    <3>3. /\ lin \in Lineage /\ lin.family = r.lin.family
          /\ r.pc = "issue_refresh" => lin = r.lin
      <4>1. CASE r.pc = "issue_refresh"
        <5>1. r.lin \in Lineage
          BY SMTT(30), <4>1 DEF TypeOK, Request, Idle
        <5> QED
          BY <4>1, <5>1 DEF IssueLineage
      <4>2. CASE r.pc = "issue_code"
        <5>1. r.lin \in SignIn /\ now \in Nat
          BY SMTT(30), <4>2 DEF TypeOK, Request, Idle
        <5> QED
          BY <4>2, <5>1 DEF IssueLineage, SignIn, Lineage
      <4> QED
        BY <3>2, <4>1, <4>2
    <3>4. IssueExpiry(now, lin) <= lin.authTime + MaxLifetime
      BY SMTT(30), <3>3, LifetimesAssumption DEF IssueExpiry, Lineage, TypeOK
    <3>5. /\ \A q \in Procs : q # p => req'[q] = req[q]
          /\ req'[p].pc = "save" /\ req'[p].token = t /\ req'[p].lin = lin
          /\ req'[p].expires = IssueExpiry(now, lin)
      BY <3>1 DEF TypeOK
    <3> HIDE DEF lin
    <3> QED
      BY <3>1, <3>2, <3>3, <3>4, <3>5, TokenDrawn
  <2> QED
    BY <2>1, <2>2
<1>9. ASSUME NEW p \in Procs, SaveRefresh(p) PROVE IInv'
  <2> DEFINE r == req[p]  f == r.lin.family
  <2>1. r \in [pc : {"save"}, token : Tokens, lin : Lineage, expires : Nat] /\ f \in Families
    <3>1. r \in Request /\ r.pc = "save"
      BY <1>9, ZenonT(30) DEF SaveRefresh, TypeOK
    <3>2. r \in [pc : {"save"}, token : Tokens, lin : Lineage, expires : Nat]
      BY <3>1, HandlerCarries, ZenonT(30)
    <3>3. r.lin \in Lineage
      BY <3>2, ZenonT(30)
    <3>4. f \in Families
      BY <3>3, ZenonT(30) DEF Lineage
    <3> QED
      BY <3>2, <3>4
  <2>2. CASE FamilyRevoked(f)
    <3>1. HandlersLetGo /\ CodesStaySpent
      BY <1>9 DEF SaveRefresh, HandlersLetGo, CodesStaySpent, TypeOK, Idle
    <3> QED
      BY <1>0, <1>9, <2>2, <3>1, RowsUntouched DEF SaveRefresh
  <2>3. CASE ~FamilyRevoked(f)
    <3>1. /\ tokens' = [tokens EXCEPT ![r.token] = [st |-> "live", revoked |-> FALSE,
                                                    lin |-> r.lin, expires |-> r.expires]]
          /\ families' = IF Backend = "postgres"
                           THEN [families EXCEPT ![f] = "live"] ELSE families
          /\ req' = [req EXCEPT ![p] = Idle]
          /\ UNCHANGED <<codes, doomed, openedBy, everRevoked, everReaped, reapedUnder>>
      BY <1>9, <2>3 DEF SaveRefresh
    <3>2. (\A q \in Procs : q # p => req'[q] = req[q]) /\ req'[p].pc = "idle"
      BY <3>1 DEF TypeOK, Idle
    <3>3. /\ \A u \in Tokens : u # r.token => tokens'[u] = tokens[u]
          /\ tokens'[r.token] = [st |-> "live", revoked |-> FALSE, lin |-> r.lin,
                                 expires |-> r.expires]
      BY <2>1, <3>1 DEF TypeOK
    <3>4. /\ \A g \in Families : g # f => families'[g] = families[g]
          /\ Backend = "postgres" => families'[f] = "live"
      BY ZenonT(60), <2>1, <3>1 DEF TypeOK
    <3>5. /\ tokens'[r.token].st = "live" /\ ~tokens'[r.token].revoked
          /\ tokens'[r.token].lin = r.lin /\ tokens'[r.token].expires = r.expires
      BY SMTT(30), <3>3
    <3> QED
      BY <2>1, <2>3, <3>1, <3>2, <3>3, <3>4, <3>5, TokenStored
  <2> QED
    BY <2>2, <2>3
<1>10. ASSUME NEW p \in Procs, RevokeFamily(p) PROVE IInv'
  <2> DEFINE F == IF FamilyKnown(req[p].family) THEN {req[p].family} ELSE {}
  <2>1. HandlersLetGo
    BY <1>10 DEF RevokeFamily, HandlersLetGo, TypeOK, Idle
  <2>2. req[p].family \in Families
    BY SMTT(30), <1>10 DEF RevokeFamily, TypeOK, Request, Idle
  <2>3. F \in SUBSET Families /\ RevokeRows(F) /\ \A f \in F : FamilyKnown(f)
    BY <1>10, <2>2 DEF RevokeFamily
  <2> QED
    BY <1>10, <2>1, <2>3, RowsRevoked DEF RevokeFamily
<1>11. ASSUME NEW f \in Families, OperatorRevokeFamily(f) PROVE IInv'
  <2>1. HandlersLetGo
    BY <1>11 DEF OperatorRevokeFamily, HandlersLetGo
  <2> QED
    BY <1>11, <2>1, RowsRevoked DEF OperatorRevokeFamily
<1>12. ASSUME NEW u \in People, OperatorRevokePerson(u) PROVE IInv'
  <2>1. HandlersLetGo
    BY <1>12 DEF OperatorRevokePerson, HandlersLetGo
  <2>2. FamiliesOf(u) \in SUBSET Families /\ \A f \in FamiliesOf(u) : FamilyKnown(f)
    BY DEF FamiliesOf
  <2> QED
    BY <1>12, <2>1, <2>2, RowsRevoked DEF OperatorRevokePerson
<1>13. ASSUME NEW c \in Codes, ReapAuthCode(c) PROVE IInv'
  <2>1. HandlersLetGo /\ CodesStaySpent
    BY <1>13 DEF ReapAuthCode, HandlersLetGo, CodesStaySpent, TypeOK
  <2> QED
    BY <1>0, <1>13, <2>1, RowsUntouched DEF ReapAuthCode
<1>14. ASSUME NEW f \in Families, PostgresReapFamily(f) PROVE IInv'
  BY <1>14, <1>00, FamilyDeleted DEF PostgresReapFamily, FamilySpent
<1>15. CASE SqliteScan
  <2>1. HandlersLetGo /\ CodesStaySpent
    BY <1>15 DEF SqliteScan, HandlersLetGo, CodesStaySpent
  <2>2. \A f \in doomed' : Opened(f)
    BY <1>15, <1>00 DEF SqliteScan, FamilySpent
  <2> QED
    BY <1>15, <2>1, <2>2, RowsUntouched DEF SqliteScan
<1>16. ASSUME NEW f \in Families, SqliteDeleteFamily(f) PROVE IInv'
  <2>1. Opened(f) /\ doomed' \subseteq doomed
    BY <1>0, <1>16 DEF SqliteDeleteFamily
  <2> QED
    BY <1>16, <2>1, FamilyDeleted DEF SqliteDeleteFamily
<1>17. CASE Tick
  <2>1. HandlersLetGo /\ CodesStaySpent
    BY <1>17 DEF Tick, HandlersLetGo, CodesStaySpent
  <2> QED
    BY <1>0, <1>17, <2>1, RowsUntouched DEF Tick
<1>18. ASSUME NEW p \in Procs, Abandon(p) PROVE IInv'
  <2>1. HandlersLetGo /\ CodesStaySpent
    BY <1>18 DEF Abandon, HandlersLetGo, CodesStaySpent, TypeOK, Idle
  <2> QED
    BY <1>0, <1>18, <2>1, RowsUntouched DEF Abandon
<1>19. CASE AbandonSweep
  <2>1. HandlersLetGo /\ CodesStaySpent
    BY <1>19 DEF AbandonSweep, HandlersLetGo, CodesStaySpent
  <2> QED
    BY <1>19, <2>1, RowsUntouched DEF AbandonSweep
<1>20. CASE UNCHANGED vars
  <2>1. HandlersLetGo /\ CodesStaySpent
    BY <1>20 DEF vars, HandlersLetGo, CodesStaySpent
  <2> QED
    BY <1>0, <1>20, <2>1, RowsUntouched DEF vars
<1> QED
  BY ZenonT(30), <1>1, <1>2, <1>3, <1>4, <1>5, <1>6, <1>7, <1>8, <1>9, <1>10, <1>11, <1>12, <1>13,
     <1>14, <1>15, <1>16, <1>17, <1>18, <1>19, <1>20 DEF Next, HandlerStep, ReaperStep

\* The inductive invariant holds in every reachable state.
THEOREM Invariance == Spec => []IInv
<1>1. Init => IInv
  <2>1. Init => TypeOK
    BY SMTT(30), LifetimesAssumption, BoundsAssumption
       DEF Init, TypeOK, CodeRow, TokenRow, Absent, Request, Idle
  <2> QED
    <3>1. Init => /\ \A t \in Tokens : ~Row(t) /\ ~Live(t)
                  /\ \A p \in Procs : req[p].pc = "idle"
                  /\ \A p \in Procs, f \in Families : ~Holds(p, f)
      BY SMTT(30) DEF Init, Row, Live, Holds, Idle
    <3>2. Init => FamiliesOpened /\ OpeningSpends /\ TokensDrawnOnce
      BY <3>1 DEF Init, FamiliesOpened, OpeningSpends, TokensDrawnOnce
    <3>3. Init => SingleLineage /\ RevokedForGood /\ ReapedForGood
      BY <3>1 DEF Init, SingleLineage, RevokedForGood, ReapedForGood
    <3>4. Init => LineageInherited /\ OneFamilyPerCode /\ EverySessionRevocable
      BY <3>1 DEF Init, LineageInherited, ExpiryCapped, LineageShared, HolderInherits, OneFamilyPerCode, EverySessionRevocable
    <3> QED
      BY <2>1, <3>2, <3>3, <3>4 DEF IInv
<1> QED
  BY <1>1, Inductive, TypeCorrect, PTL DEF Spec

\* A family never has two tokens the refresh grant would accept, nor one
\* beside a rotation in flight, whatever handlers, revocations and sweeps do.
THEOREM OneLineOfDescent == Spec => []SingleLineage
<1>1. IInv => SingleLineage
  BY DEF IInv
<1> QED
  BY <1>1, Invariance, PTL

\* SaveRefresh and RevokeRefreshFamily, in any order, leave no live token in a
\* revoked family until the reaper forgets it.
THEOREM RevocationIsFinal == Spec => []RevokedStaysDead
<1>1. IInv => RevokedStaysDead
  BY DEF IInv, RevokedForGood, RevokedStaysDead, InFamily, Live
<1> QED
  BY <1>1, Invariance, PTL

\* Rotation never extends a session past its sign-in plus the maximum lifetime.
THEOREM LifetimeIsAbsolute == Spec => []SessionNeverExtended
<1>1. IInv => SessionNeverExtended
  BY DEF IInv, LineageInherited, ExpiryCapped, LineageShared, SessionNeverExtended
<1> QED
  BY <1>1, Invariance, PTL

\* An authorization code opens one session at most.
THEOREM CodesAreSingleUse == Spec => []OneFamilyPerCode
<1>1. IInv => OneFamilyPerCode
  BY DEF IInv
<1> QED
  BY <1>1, Invariance, PTL

\* A reaped family comes back only through a handler already past its consume.
THEOREM ReapingIsFinal == Spec => []ReapedStaysDead
<1>1. IInv => ReapedStaysDead
  BY DEF IInv, ReapedForGood, ReapedStaysDead
<1> QED
  BY <1>1, Invariance, PTL

\* No stored token is out of a revocation's reach.
THEOREM SessionsAreRevocable == Spec => []EverySessionRevocable
<1>1. IInv => EverySessionRevocable
  BY DEF IInv
<1> QED
  BY <1>1, Invariance, PTL

-----------------------------------------------------------------------------
(* TokenSessions implements SessionContract on either store: every step of *)
(* a handler, an operator or the reaper is a step of the contract, or does *)
(* not show in it.  The inductive invariant is needed where a child token  *)
(* is stored: that its session accepts no other and it is new.             *)

RevokedFamilies == {f \in Families : FamilyRevoked(f)}

LEMMA PairsInAccepted ==
    ASSUME NEW f \in Families, NEW t \in Tokens
    PROVE  /\ <<f, t>> \in Accepted <=> InFamily(t, f) /\ Live(t)
           /\ (<<f, t>> \in Accepted)' <=> InFamily(t, f)' /\ Live(t)'
  BY DEF Accepted

LEMMA UsedTokens ==
    ASSUME NEW t \in Tokens
    PROVE  /\ t \in Used <=> tokens[t].st \in {"consumed", "gone"} \/ (Row(t) /\ tokens[t].revoked)
           /\ (t \in Used)' <=> \/ tokens'[t].st \in {"consumed", "gone"}
                                \/ Row(t)' /\ tokens'[t].revoked
  BY DEF Used

\* A step that leaves rows and families alone does not show in the contract.
LEMMA RowsUnseen ==
    ASSUME UNCHANGED <<tokens, families>>
    PROVE  UNCHANGED Contract!contractVars
<1>1. UNCHANGED <<Accepted, Used, RevokedFamilies>>
  BY DEF Accepted, Used, RevokedFamilies, InFamily, Row, Live, FamilyRevoked
<1> QED
  BY <1>1 DEF Contract!contractVars, RevokedFamilies

\* ConsumeRefresh spends the token its session accepted.
LEMMA ConsumeSpends ==
    ASSUME TypeOK, NEW t \in Tokens, Live(t), UNCHANGED families,
           tokens' = [tokens EXCEPT ![t] = Tombstone(tokens[t])]
    PROVE  \E f \in Families : Contract!Spend(f, t)
<1> DEFINE f == tokens[t].lin.family
<1>1. f \in Families /\ Row(t) /\ InFamily(t, f)
  BY RowsTyped DEF Live, Row, InFamily
<1>2. \A u \in Tokens : u # t => tokens'[u] = tokens[u]
  BY DEF TypeOK
<1>3. tokens'[t] = Tombstone(tokens[t])
  BY DEF TypeOK
<1>4. tokens'[t].st = "consumed" /\ tokens'[t].revoked = FALSE /\ tokens'[t].lin = tokens[t].lin
  <2>1. tokens[t].revoked = FALSE
    BY <1>1 DEF Live, Row, TypeOK, TokenRow, Absent
  <2> QED
    BY SMTT(30), <1>3, <2>1 DEF Tombstone
<1>5. Accepted' = Accepted \ {<<f, t>>}
  BY SMTT(30), <1>1, <1>2, <1>4 DEF Accepted, InFamily, Row, Live
<1>6. Used' = Used \cup {t}
  BY <1>1, <1>2, <1>4 DEF Used, Row
<1>7. RevokedFamilies' = RevokedFamilies
  BY <1>1, <1>2, <1>4 DEF RevokedFamilies, FamilyRevoked, InFamily, Row, Live
<1>8. <<f, t>> \in Accepted
  BY <1>1 DEF Accepted
<1> QED
  BY <1>1, <1>5, <1>6, <1>7, <1>8 DEF Contract!Spend, RevokedFamilies

\* SaveRefresh grants a new token to a session that accepts none.
LEMMA StoreGrants ==
    ASSUME IInv, NEW p \in Procs, SaveRefresh(p), ~FamilyRevoked(req[p].lin.family)
    PROVE  \E f \in Families, t \in Tokens : Contract!Grant(f, t)
<1> USE DEF IInv
<1> DEFINE f == req[p].lin.family
           t == req[p].token
<1>1. f \in Families /\ t \in Tokens /\ Holds(p, f) /\ req[p].lin \in Lineage
  BY SMTT(30) DEF SaveRefresh, TypeOK, Request, Idle, Lineage, Holds
<1>2. tokens[t].st = "unborn"
  BY DEF SaveRefresh, TokensDrawnOnce
<1>3. /\ \A u \in Tokens : u # t => tokens'[u] = tokens[u]
      /\ tokens'[t].st = "live" /\ tokens'[t].revoked = FALSE /\ tokens'[t].lin.family = f
  BY SMTT(30), <1>1 DEF SaveRefresh, TypeOK
<1>4. \A u \in Tokens : InFamily(u, f) => ~Live(u)
  BY <1>1 DEF SingleLineage
<1>5. Accepted' = Accepted \cup {<<f, t>>}
  BY SMTT(30), <1>1, <1>2, <1>3 DEF Accepted, InFamily, Row, Live
<1>6. Used' = Used /\ t \notin Used
  BY <1>1, <1>2, <1>3 DEF Used, Row
<1>7. RevokedFamilies' = RevokedFamilies
  <2>1. CASE Backend = "postgres"
    BY <2>1, <1>1 DEF SaveRefresh, FamilyRevoked, RevokedFamilies, TypeOK
  <2>2. CASE Backend # "postgres"
    BY <2>2, <1>1, <1>2, <1>3 DEF FamilyRevoked, RevokedFamilies, InFamily, Row
  <2> QED
    BY <2>1, <2>2
<1>8. f \notin RevokedFamilies
  BY DEF RevokedFamilies
<1>9. \A g \in Families : <<g, t>> \notin Accepted
  BY <1>1, <1>2 DEF Accepted, InFamily, Row
<1>10. \A u \in Tokens : <<f, u>> \notin Accepted
  BY <1>1, <1>4 DEF Accepted
<1> QED
  BY <1>1, <1>5, <1>6, <1>7, <1>8, <1>9, <1>10 DEF Contract!Grant, Contract!TokensOf, RevokedFamilies

\* A revocation ends the sessions it names.
LEMMA RevocationEnds ==
    ASSUME TypeOK, NEW F \in SUBSET Families, \A f \in F : FamilyKnown(f), RevokeRows(F)
    PROVE  Contract!End(F)
<1>1. \A t \in Tokens :
        /\ (\E f \in F : InFamily(t, f)) =>
             /\ tokens'[t].st = tokens[t].st /\ tokens'[t].revoked = TRUE
             /\ tokens'[t].lin = tokens[t].lin
        /\ ~(\E f \in F : InFamily(t, f)) => tokens'[t] = tokens[t]
  BY DEF RevokeRows, Revoked
<1>2. Accepted' = {x \in Accepted : x[1] \notin F}
  <2>1. ASSUME NEW f \in Families, NEW t \in Tokens
        PROVE  (<<f, t>> \in Accepted)' <=> <<f, t>> \in Accepted /\ f \notin F
    BY SMTT(30), <1>1, PairsInAccepted DEF InFamily, Row, Live
  <2> QED
    BY <2>1 DEF Accepted
<1>3. Used' = Used \cup {t \in Tokens : \E f \in F : <<f, t>> \in Accepted}
  <2>1. ASSUME NEW t \in Tokens
        PROVE  (t \in Used)' <=> t \in Used \/ \E f \in F : <<f, t>> \in Accepted
    <3>1. CASE \E f \in F : InFamily(t, f)
      <4>1. PICK f \in F : InFamily(t, f)
        BY <3>1
      <4>2. (t \in Used)'
        BY <1>1, <3>1, <4>1, UsedTokens DEF InFamily, Row
      <4>3. t \in Used \/ <<f, t>> \in Accepted
        BY <4>1, UsedTokens, PairsInAccepted DEF InFamily, Row, Live
      <4> QED
        BY <4>2, <4>3
    <3>2. CASE ~\E f \in F : InFamily(t, f)
      BY <1>1, <3>2, UsedTokens, PairsInAccepted DEF Row
    <3> QED
      BY <3>1, <3>2
  <2> QED
    BY <2>1 DEF Used
<1>4. RevokedFamilies' = RevokedFamilies \cup F
  <2>1. CASE Backend = "postgres"
    BY <2>1 DEF RevokeRows, FamilyRevoked, RevokedFamilies, TypeOK
  <2>2. CASE Backend # "postgres"
    <3>1. ASSUME NEW f \in F PROVE FamilyRevoked(f)'
      BY SMTT(30), <2>2, <3>1, <1>1 DEF FamilyKnown, FamilyRevoked, InFamily, Row
    <3>2. ASSUME NEW f \in Families, FamilyRevoked(f) PROVE FamilyRevoked(f)'
      BY <2>2, <3>2, <1>1 DEF FamilyRevoked, InFamily, Row
    <3>3. ASSUME NEW f \in Families \ F, FamilyRevoked(f)' PROVE FamilyRevoked(f)
      BY SMTT(30), <2>2, <3>3, <1>1 DEF FamilyRevoked, InFamily, Row
    <3> QED
      BY <3>1, <3>2, <3>3 DEF RevokedFamilies
  <2> QED
    BY <2>1, <2>2
<1> QED
  BY <1>2, <1>3, <1>4 DEF Contract!End, Contract!Without, Contract!TokensOf, RevokedFamilies

\* The reaper's delete forgets a session.
LEMMA DeletionForgets ==
    ASSUME TypeOK, NEW f \in Families, DeleteFamily(f)
    PROVE  Contract!Forget(f)
<1>1. \A t \in Tokens :
        /\ InFamily(t, f) => tokens'[t].st = "gone"
        /\ ~InFamily(t, f) => tokens'[t] = tokens[t]
  BY DEF DeleteFamily
<1>2. Accepted' = {x \in Accepted : x[1] \notin {f}}
  <2>1. ASSUME NEW g \in Families, NEW t \in Tokens
        PROVE  (<<g, t>> \in Accepted)' <=> <<g, t>> \in Accepted /\ g # f
    BY SMTT(30), <1>1, PairsInAccepted DEF InFamily, Row, Live
  <2> QED
    BY <2>1 DEF Accepted
<1>3. Used' = Used \cup {t \in Tokens : \E g \in {f} : <<g, t>> \in Accepted}
  <2>1. ASSUME NEW t \in Tokens
        PROVE  (t \in Used)' <=> t \in Used \/ <<f, t>> \in Accepted
    BY <1>1, UsedTokens, PairsInAccepted DEF InFamily, Row, Live
  <2> QED
    BY <2>1 DEF Used
<1>4. RevokedFamilies' = RevokedFamilies \ {f}
  <2>1. CASE Backend = "postgres"
    BY <2>1 DEF DeleteFamily, FamilyRevoked, RevokedFamilies, TypeOK
  <2>2. CASE Backend # "postgres"
    BY <2>2, <1>1 DEF FamilyRevoked, RevokedFamilies, InFamily, Row
  <2> QED
    BY <2>1, <2>2
<1> QED
  BY <1>2, <1>3, <1>4 DEF Contract!Forget, Contract!Without, Contract!TokensOf, RevokedFamilies

LEMMA StepKeepsContract == IInv /\ [Next]_vars => [Contract!Next]_(Contract!contractVars)
<1> SUFFICES ASSUME IInv, [Next]_vars PROVE Contract!Next \/ UNCHANGED Contract!contractVars
  OBVIOUS
<1>0. TypeOK
  BY DEF IInv
<1>1. ASSUME UNCHANGED <<tokens, families>> PROVE UNCHANGED Contract!contractVars
  BY <1>1, RowsUnseen
<1>2. ASSUME NEW p \in Procs, NEW ok \in BOOLEAN, ConsumeRefresh(p, ok)
      PROVE  Contract!Next \/ UNCHANGED Contract!contractVars
  <2>1. CASE UNCHANGED tokens
    BY <1>1, <1>2, <2>1 DEF ConsumeRefresh
  <2>2. CASE ~UNCHANGED tokens
    <3>1. /\ Live(req[p].token) /\ UNCHANGED families
          /\ tokens' = [tokens EXCEPT ![req[p].token] = Tombstone(tokens[req[p].token])]
      BY <1>2, <2>2 DEF ConsumeRefresh
    <3>2. req[p].token \in Tokens
      BY SMTT(30), <1>0, <1>2 DEF ConsumeRefresh, TypeOK, Request, Idle
    <3> QED
      BY <1>0, <3>1, <3>2, ConsumeSpends DEF Contract!Next
  <2> QED
    BY <2>1, <2>2
<1>3. ASSUME NEW p \in Procs, SaveRefresh(p)
      PROVE  Contract!Next \/ UNCHANGED Contract!contractVars
  <2>1. CASE FamilyRevoked(req[p].lin.family)
    BY <1>1, <1>3, <2>1 DEF SaveRefresh
  <2>2. CASE ~FamilyRevoked(req[p].lin.family)
    BY <1>3, <2>2, StoreGrants DEF Contract!Next
  <2> QED
    BY <2>1, <2>2
<1>4. ASSUME NEW F \in SUBSET Families, \A f \in F : FamilyKnown(f), RevokeRows(F)
      PROVE  Contract!Next
  BY <1>0, <1>4, RevocationEnds DEF Contract!Next
<1>5. ASSUME NEW p \in Procs, RevokeFamily(p) PROVE Contract!Next
  <2>1. req[p].family \in Families
    BY SMTT(30), <1>0, <1>5 DEF RevokeFamily, TypeOK, Request, Idle
  <2>2. CASE FamilyKnown(req[p].family)
    <3>1. RevokeRows({req[p].family})
      BY <1>5, <2>2 DEF RevokeFamily
    <3> QED
      BY <1>4, <2>1, <2>2, <3>1
  <2>3. CASE ~FamilyKnown(req[p].family)
    <3>1. RevokeRows({})
      BY <1>5, <2>3 DEF RevokeFamily
    <3> QED
      BY <1>4, <3>1
  <2> QED
    BY <2>2, <2>3
<1>6. ASSUME NEW f \in Families, OperatorRevokeFamily(f) PROVE Contract!Next
  BY <1>4, <1>6 DEF OperatorRevokeFamily
<1>7. ASSUME NEW u \in People, OperatorRevokePerson(u) PROVE Contract!Next
  BY <1>4, <1>7 DEF OperatorRevokePerson, FamiliesOf
<1>8. ASSUME NEW f \in Families, PostgresReapFamily(f) \/ SqliteDeleteFamily(f) PROVE Contract!Next
  BY <1>0, <1>8, DeletionForgets DEF PostgresReapFamily, SqliteDeleteFamily, Contract!Next
<1>9. ASSUME NEW p \in Procs, HandlerStep(p)
      PROVE  Contract!Next \/ UNCHANGED Contract!contractVars
  <2>1. CASE \E ok \in BOOLEAN : ConsumeAuthCode(p, ok) \/ Issue(p, ok)
    BY <1>1, <2>1 DEF ConsumeAuthCode, Issue
  <2>2. CASE ProbeAuthCode(p) \/ ProbeRefresh(p)
    BY <1>1, <2>2 DEF ProbeAuthCode, ProbeRefresh
  <2> QED
    BY <1>2, <1>3, <1>5, <1>9, <2>1, <2>2 DEF HandlerStep
<1>10. CASE UNCHANGED vars
  BY <1>1, <1>10 DEF vars
<1>11. ASSUME NEW p \in Procs, Abandon(p) PROVE UNCHANGED Contract!contractVars
  BY <1>1, <1>11 DEF Abandon
<1>12. CASE \E c \in Codes, u \in People, cl \in Clients : SaveAuthCode(c, u, cl)
  BY <1>1, <1>12 DEF SaveAuthCode
<1>13. CASE \E p \in Procs, cl \in Clients :
              \/ \E c \in Codes : BeginCodeGrant(p, c, cl)
              \/ \E t \in Tokens : BeginRefreshGrant(p, t, cl)
  BY <1>1, <1>13 DEF BeginCodeGrant, BeginRefreshGrant
<1>14. CASE (\E c \in Codes : ReapAuthCode(c)) \/ SqliteScan \/ AbandonSweep \/ Tick
  BY <1>1, <1>14 DEF ReapAuthCode, SqliteScan, AbandonSweep, Tick
<1> QED
  BY <1>5, <1>6, <1>7, <1>8, <1>9, <1>10, <1>11, <1>12, <1>13, <1>14 DEF Next, ReaperStep

\* Both stores keep the contract, for any number of sessions, tokens and
\* concurrent handlers.
THEOREM SessionsKeepContract == Spec => KeepsContract
<1>1. Init => Contract!Init
  <2>1. Init => Accepted = {} /\ Used = {} /\ RevokedFamilies = {}
    BY SMTT(30) DEF Init, Accepted, Used, RevokedFamilies, InFamily, Row, Live, FamilyRevoked
  <2> QED
    BY <2>1 DEF Contract!Init, RevokedFamilies
<1> QED
  BY <1>1, Invariance, StepKeepsContract, PTL DEF Spec, KeepsContract, Contract!Spec
=============================================================================
